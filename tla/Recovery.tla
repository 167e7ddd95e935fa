------------------------------ MODULE Recovery ------------------------------
(***************************************************************************)
(* The write-ahead log (wal.hpp), the book snapshots (snapshot.hpp), the   *)
(* matching thread that writes both and the start of the gateway that      *)
(* reads them, with the process or the machine failing between any two     *)
(* steps.                                                                  *)
(*                                                                         *)
(* A command is a number, and the state of the matching thread the         *)
(* sequence of the commands applied: MatchingThread checks that a snapshot *)
(* brings that state back and that replay gives what live traffic gave.    *)
(* The log is a sequence of records [seq, cmd], some of them torn.  A      *)
(* rename is durable when it returns, as on a journaling file system; the  *)
(* .tmp files are never read, so writing one and renaming it is one step.  *)
(***************************************************************************)
EXTENDS Integers, Sequences

CONSTANTS EveryN,       \* SnapshotPolicy::every_n; 0 turns snapshots off
          SyncEveryN,   \* WalConfig::sync_every_n
          Faults,       \* what may go wrong in this instance
          MaxCommands,  \* bound on the commands sent
          MaxFaults     \* bound on the faults

ASSUME EveryNAssumption == EveryN \in Nat
ASSUME SyncEveryNAssumption == SyncEveryN \in Nat \ {0}

VARIABLES
  wal,      \* the log file, as a reader sees it while the machine is up
  durable,  \* how many of its records the last fsync covered
  snap,     \* the snapshot file
  prev,     \* the snapshot kept behind it, .prev
  pc,       \* where the matching thread is, or "down" or "refused"
  book,     \* the commands applied
  seq,      \* Wal::seq_
  since_sync, is_open, last_snapshot_seq, next_snapshot_at,
  sent,     \* the commands sent so far
  faults,   \* how many faults there have been, and of which kinds
  history,  \* the commands whose record was written: what a restart should find
  synced,   \* how many of those an fsync or a snapshot covered
  floor     \* how many of those the last failure may not lose

disk == <<wal, durable, snap, prev>>
memory == <<book, seq, since_sync, is_open, last_snapshot_seq, next_snapshot_at>>
bounds == <<sent, faults>>
ghosts == <<history, synced, floor>>
vars == <<disk, pc, memory, bounds, ghosts>>

NoFile == [last_seq |-> 0, book |-> <<>>, ok |-> FALSE]
Torn == [seq |-> 0, cmd |-> 0]
Larger(m, n) == IF m >= n THEN m ELSE n
Lesser(m, n) == IF m <= n THEN m ELSE n

Init ==
  /\ wal = <<>> /\ durable = 0 /\ snap = NoFile /\ prev = NoFile
  /\ pc = "up" /\ book = <<>> /\ seq = 0 /\ since_sync = 0 /\ is_open = TRUE
  /\ last_snapshot_seq = 0 /\ next_snapshot_at = 0
  /\ sent = 0 /\ faults = [count |-> 0, kinds |-> {}]
  /\ history = <<>> /\ synced = 0 /\ floor = 0

(* One more fault of a kind this instance has. *)
Fault(kind) ==
  /\ kind \in Faults /\ faults.count < MaxFaults
  /\ faults' = [count |-> faults.count + 1, kinds |-> faults.kinds \cup {kind}]

(* Nothing has failed but processes and system calls: no write was torn, no
   append failed, no file was damaged and the machine stayed up. *)
ProcessFaults == {"crash", "snapshot", "truncate", "stop"}
OnlyProcessFaults == faults.kinds \subseteq ProcessFaults
-----------------------------------------------------------------------------
(* How many records read_wal returns: it stops at one that is torn and at one
   whose number does not follow. *)
Intact(log) ==
  CHOOSE n \in 0 .. Len(log) :
    /\ \A i \in 1 .. n : log[i] # Torn /\ (i > 1 => log[i].seq = log[i - 1].seq + 1)
    /\ n < Len(log) => log[n + 1] = Torn \/ (n > 0 /\ log[n + 1].seq # log[n].seq + 1)

read_wal(log) ==
  LET n == Intact(log)
  IN  [records |-> SubSeq(log, 1, n),
       last_seq |-> IF n = 0 THEN 0 ELSE log[n].seq,
       sequence_gap |-> n < Len(log) /\ log[n + 1] # Torn]

(* One record too many. *)
AboveOrAt(records, keep_after) ==
  LET n == Len(records)
      first == IF n = 0 THEN 0 ELSE records[1].seq
  IN  SubSeq(records, Larger(1, keep_after - first + 1), n)

(* The records with a number above keep_after, a suffix of what was read. *)
Above(records, keep_after) ==
  LET n == Len(records)
      first == IF n = 0 THEN 0 ELSE records[1].seq
  IN  SubSeq(records, Larger(1, keep_after - first + 2), n)

CmdsOf(records) == [i \in 1 .. Len(records) |-> records[i].cmd]

(* What a start rebuilds from a snapshot, or from none, and a log. *)
Rebuild(file, log) ==
  IF file.ok THEN file.book \o CmdsOf(Above(read_wal(log).records, file.last_seq))
             ELSE CmdsOf(read_wal(log).records)
-----------------------------------------------------------------------------
(* Wal::sync after the log has become log; it does nothing when this process
   has written nothing since the last one. *)
Sync(log, unsynced, all) ==
  /\ since_sync' = 0
  /\ durable' = IF unsynced > 0 THEN Len(log) ELSE durable
  /\ synced' = IF unsynced > 0 THEN Len(all) ELSE synced

NoSync(unsynced) == since_sync' = unsynced /\ UNCHANGED <<durable, synced>>

(* apply, up to the end of Wal::append: the record goes down first.  The timer
   of the group commit may fire at any record. *)
WalAppend ==
  /\ pc = "up" /\ is_open /\ sent < MaxCommands
  /\ sent' = sent + 1 /\ seq' = seq + 1
  /\ wal' = Append(wal, [seq |-> seq + 1, cmd |-> sent + 1])
  /\ history' = Append(history, sent + 1)
  /\ \/ Sync(wal', since_sync + 1, history')
     \/ since_sync + 1 < SyncEveryN /\ NoSync(since_sync + 1)
  /\ pc' = "logged"
  /\ UNCHANGED <<snap, prev, book, is_open, last_snapshot_seq, next_snapshot_at, faults, floor>>

(* The rest of apply: the command reaches the book and is answered. *)
Applied ==
  /\ pc = "logged"
  /\ book' = Append(book, wal[Len(wal)].cmd)
  /\ pc' = "up"
  /\ UNCHANGED <<disk, seq, since_sync, is_open, last_snapshot_seq, next_snapshot_at, bounds, ghosts>>

(* The missing return: a command that is not in the log is applied. *)
AppendFailsApplies ==
  /\ pc = "up" /\ sent < MaxCommands /\ sent' = sent + 1
  /\ IF is_open
       THEN /\ Fault("append") /\ seq' = seq + 1
            /\ wal' \in {wal, Append(wal, Torn)}
       ELSE UNCHANGED <<faults, seq, wal>>
  /\ book' = Append(book, sent + 1)
  /\ UNCHANGED <<durable, snap, prev, pc, since_sync, is_open, last_snapshot_seq,
                 next_snapshot_at, ghosts>>

(* Wal::append fails: the number is used up, part of the record may be in the
   file, and the command is not applied.  The thread goes on. *)
AppendFails ==
  /\ pc = "up" /\ sent < MaxCommands /\ sent' = sent + 1
  /\ IF is_open
       THEN /\ Fault("append") /\ seq' = seq + 1
            /\ wal' \in {wal, Append(wal, Torn)}
       ELSE UNCHANGED <<faults, seq, wal>>
  /\ UNCHANGED <<durable, snap, prev, pc, book, since_sync, is_open, last_snapshot_seq,
                 next_snapshot_at, ghosts>>
-----------------------------------------------------------------------------
SnapshotDue == EveryN > 0 /\ seq >= next_snapshot_at

(* The end of drain: poll_sync, then maybe_snapshot as far as the rename of the
   old snapshot. *)
EndBatch ==
  /\ pc = "up"
  /\ \/ Sync(wal, since_sync, history)
     \/ since_sync < SyncEveryN /\ NoSync(since_sync)
  /\ IF SnapshotDue
       THEN /\ prev' = IF snap = NoFile THEN prev ELSE snap
            /\ snap' = NoFile /\ pc' = "snapshot"
       ELSE UNCHANGED <<prev, snap, pc>>
  /\ UNCHANGED <<wal, book, seq, is_open, last_snapshot_seq, next_snapshot_at, bounds,
                 history, floor>>

(* write_snapshot, durable before its name. *)
WriteSnapshot ==
  /\ pc = "snapshot"
  /\ snap' = [last_seq |-> seq, book |-> book, ok |-> TRUE]
  /\ synced' = Len(book)
  /\ pc' = "truncate"
  /\ UNCHANGED <<wal, durable, prev, memory, bounds, history, floor>>

WriteSnapshotFails ==
  /\ pc = "snapshot" /\ Fault("snapshot")
  /\ pc' = "up"
  /\ UNCHANGED <<disk, memory, sent, ghosts>>

(* A truncation up to the newest snapshot. *)
TruncateToNewest ==
  /\ pc = "truncate" /\ pc' = "up"
  /\ last_snapshot_seq' = seq /\ next_snapshot_at' = seq + EveryN
  /\ IF last_snapshot_seq > 0 /\ is_open
       THEN \/ /\ wal' = Above(read_wal(wal).records, seq)
               /\ durable' = Len(wal') /\ since_sync' = 0 /\ synced' = Len(history)
               /\ \/ UNCHANGED <<is_open, faults>>
                  \/ Fault("truncate") /\ is_open' = FALSE
            \/ /\ Fault("truncate") /\ is_open' = FALSE /\ UNCHANGED wal
               /\ Sync(wal, since_sync, history)
       ELSE UNCHANGED <<wal, durable, since_sync, synced, is_open, faults>>
  /\ UNCHANGED <<snap, prev, book, seq, sent, history, floor>>

(* A truncation that counts the records from 1. *)
TruncateRenumbers ==
  /\ pc = "truncate" /\ pc' = "up"
  /\ last_snapshot_seq' = seq /\ next_snapshot_at' = seq + EveryN
  /\ IF last_snapshot_seq > 0 /\ is_open
       THEN \/ /\ wal' = LET kept == Above(read_wal(wal).records, last_snapshot_seq)
                         IN  [i \in 1 .. Len(kept) |-> [kept[i] EXCEPT !.seq = i]]
               /\ durable' = Len(wal') /\ since_sync' = 0 /\ synced' = Len(history)
               /\ \/ UNCHANGED <<is_open, faults>>
                  \/ Fault("truncate") /\ is_open' = FALSE
            \/ /\ Fault("truncate") /\ is_open' = FALSE /\ UNCHANGED wal
               /\ Sync(wal, since_sync, history)
       ELSE UNCHANGED <<wal, durable, since_sync, synced, is_open, faults>>
  /\ UNCHANGED <<snap, prev, book, seq, sent, history, floor>>

(* truncate_before the previous snapshot's number, and the end of
   maybe_snapshot.  A truncation that fails leaves the log closed: rewritten if
   only opening it again failed, else as it was. *)
Truncate ==
  /\ pc = "truncate" /\ pc' = "up"
  /\ last_snapshot_seq' = seq /\ next_snapshot_at' = seq + EveryN
  /\ IF last_snapshot_seq > 0 /\ is_open
       THEN \/ /\ wal' = Above(read_wal(wal).records, last_snapshot_seq)
               /\ durable' = Len(wal') /\ since_sync' = 0 /\ synced' = Len(history)
               /\ \/ UNCHANGED <<is_open, faults>>
                  \/ Fault("truncate") /\ is_open' = FALSE
            \/ /\ Fault("truncate") /\ is_open' = FALSE /\ UNCHANGED wal
               /\ Sync(wal, since_sync, history)
       ELSE UNCHANGED <<wal, durable, since_sync, synced, is_open, faults>>
  /\ UNCHANGED <<snap, prev, book, seq, sent, history, floor>>
-----------------------------------------------------------------------------
Running == pc \notin {"down", "refused"}

(* What is left of the memory of a process that is gone. *)
Gone ==
  /\ pc' = "down" /\ book' = <<>> /\ seq' = 0 /\ since_sync' = 0 /\ is_open' = FALSE
  /\ last_snapshot_seq' = 0 /\ next_snapshot_at' = 0

(* The process is killed: what it handed to the kernel stays. *)
Crash ==
  /\ Running /\ Fault("crash") /\ Gone
  /\ floor' = Len(history)
  /\ UNCHANGED <<disk, sent, history, synced>>

(* The process is killed in the middle of write_all. *)
CrashInAppend ==
  /\ pc = "up" /\ is_open /\ sent < MaxCommands /\ Fault("torn") /\ Gone
  /\ sent' = sent + 1
  /\ wal' = Append(wal, Torn)
  /\ floor' = Len(history)
  /\ UNCHANGED <<durable, snap, prev, history, synced>>

(* The machine fails: records after the last fsync may be gone, and the first
   of them torn. *)
PowerFails ==
  /\ pc # "refused" /\ Fault("power") /\ Gone
  /\ \E n \in durable .. Len(wal) :
       /\ \/ wal' = SubSeq(wal, 1, n)
          \/ "torn" \in Faults /\ n < Len(wal) /\ wal' = Append(SubSeq(wal, 1, n), Torn)
       /\ durable' = Len(wal')
  /\ floor' = synced
  /\ UNCHANGED <<snap, prev, sent, history, synced>>

(* A snapshot file goes bad after it was written; its header is still read. *)
Damage ==
  /\ Fault("damage")
  /\ \/ snap.ok /\ snap' = [snap EXCEPT !.ok = FALSE] /\ UNCHANGED prev
     \/ prev.ok /\ prev' = [prev EXCEPT !.ok = FALSE] /\ UNCHANGED snap
  /\ UNCHANGED <<wal, durable, pc, memory, sent, ghosts>>

(* SIGTERM: stop after a last drain, and close the log. *)
Stop ==
  /\ pc = "up" /\ ~SnapshotDue /\ Fault("stop") /\ Gone
  /\ durable' = IF since_sync > 0 /\ is_open THEN Len(wal) ELSE durable
  /\ synced' = IF since_sync > 0 /\ is_open THEN Len(history) ELSE synced
  /\ floor' = Len(history)
  /\ UNCHANGED <<wal, snap, prev, sent, history>>

(* .prev is read only if there is no newer snapshot. *)
RestartNewestOnly ==
  LET file == IF snap # NoFile \/ prev = NoFile THEN snap ELSE prev
      rd == read_wal(wal)
  IN  /\ pc = "down"
      /\ IF rd.sequence_gap
           THEN /\ pc' = "refused"
                /\ UNCHANGED <<memory, ghosts>>
           ELSE /\ pc' = "up" /\ is_open' = TRUE /\ since_sync' = 0
                /\ book' = Rebuild(file, wal)
                /\ seq' = Larger(rd.last_seq, file.last_seq)
                /\ last_snapshot_seq' = IF file.ok THEN file.last_seq ELSE 0
                /\ next_snapshot_at' = IF file.ok THEN file.last_seq + EveryN ELSE 0
                /\ history' = book' /\ synced' = Lesser(synced, Len(book')) /\ floor' = 0
      /\ UNCHANGED <<disk, bounds>>

(* main with --recover: the newest snapshot that can be read, the log after it;
   a gap in the log refuses the start. *)
Restart ==
  LET file == IF snap.ok \/ prev = NoFile THEN snap ELSE prev
      rd == read_wal(wal)
  IN  /\ pc = "down"
      /\ IF rd.sequence_gap
           THEN /\ pc' = "refused"
                /\ UNCHANGED <<memory, ghosts>>
           ELSE /\ pc' = "up" /\ is_open' = TRUE /\ since_sync' = 0
                /\ book' = Rebuild(file, wal)
                /\ seq' = Larger(rd.last_seq, file.last_seq)
                /\ last_snapshot_seq' = IF file.ok THEN file.last_seq ELSE 0
                /\ next_snapshot_at' = IF file.ok THEN file.last_seq + EveryN ELSE 0
                /\ history' = book' /\ synced' = Lesser(synced, Len(book')) /\ floor' = 0
      /\ UNCHANGED <<disk, bounds>>
-----------------------------------------------------------------------------
Next ==
  \/ WalAppend \/ Applied \/ AppendFails
  \/ EndBatch \/ WriteSnapshot \/ WriteSnapshotFails \/ Truncate
  \/ Crash \/ CrashInAppend \/ PowerFails \/ Damage \/ Stop \/ Restart

Spec == Init /\ [][Next]_vars
-----------------------------------------------------------------------------
Record == [seq : Nat, cmd : Nat]

IsPrefixOf(s, t) == Len(s) <= Len(t) /\ s = SubSeq(t, 1, Len(s))

(* What a start may not get wrong: it rebuilds a beginning of the commands
   whose records were written, with all those the failure may not lose. *)
Recovered == IsPrefixOf(book', history) /\ Len(book') >= floor

(* A process that is killed "loses NOTHING" (wal.hpp:57): however crashes,
   stops and failed snapshots and truncations fall, a start finds every command
   whose record was written. *)
RecoversWhatWasLogged ==
  [][OnlyProcessFaults /\ pc = "down" /\ pc' = "up" => Recovered]_vars

(* Write-ahead: the book never holds a command the log or a snapshot lacks. *)
NeverAhead == Running => IsPrefixOf(book, history)

(* "The WAL is only truncated up to the PREVIOUS snapshot's sequence, so the
   older snapshot still has the records it needs" (matching_thread.hpp:271-273):
   at any moment a start from .prev gives what a start from the newest gives. *)
PrevSuffices ==
  OnlyProcessFaults /\ snap.ok /\ prev.ok => Rebuild(prev, wal) = Rebuild(snap, wal)

(* The gateway starts again whatever happens to its process. *)
NeverRefused == OnlyProcessFaults => pc # "refused"

(* Nothing was written behind a place where read_wal stops. *)
OnlyTailLost == Len(wal) - Intact(wal) \in {0, 1} /\ (Intact(wal) < Len(wal) => wal[Len(wal)] = Torn)

(* A damaged snapshot comes alone: the newest snapshot may be all that covers
   records the log has lost or never had. *)
SnapshotsUsable ==
  "damage" \in faults.kinds =>
    faults.kinds \subseteq ProcessFaults \cup {"damage"} /\ (snap.ok \/ prev.ok)

(* Every kind of fault: a start finds all that an fsync or a snapshot covered
   ("loses at most the group-commit window", BENCHMARK.md:256), from one usable
   snapshot ("a bad snapshot is not fatal", snapshot.hpp:151), provided that
   nothing but the tail of the log is unreadable. *)
RecoversWhatIsDurable ==
  [][pc = "down" /\ pc' = "up" /\ OnlyTailLost /\ SnapshotsUsable => Recovered]_vars

(* "a process crash (kill -9, segfault) loses NOTHING" (wal.hpp:56), also when
   it comes in the middle of a write. *)
KilledLosesNothing ==
  [][pc = "down" /\ pc' = "up" => Recovered]_vars
=============================================================================
