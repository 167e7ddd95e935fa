-------------------------- MODULE DurabilityProofs --------------------------
(***************************************************************************)
(* What a start finds after the machine failed, for every snapshot         *)
(* interval and group commit and any number of commands and faults.        *)
(*                                                                         *)
(* While no snapshot was damaged (BInv) a start from the newest gives a    *)
(* beginning of the history, with what was synced wherever the machine     *)
(* fails, and all of it while only the tail is lost.                       *)
(***************************************************************************)
EXTENDS RecoveryProofs

(* Every kind of fault, and no damaged snapshot.  The first d records are read,
   but for a last one that is torn. *)
Read(log, n, d) == d <= n \/ (d = n + 1 /\ log[n + 1] = Torn)

(* What would be left of the log and f if the machine failed now has the first
   s commands, unless something unreadable was written before its end. *)
Survives(f, log, n, d, s) == Read(log, n, d) => Reach(f, log, Lesser(d, n)) >= s

DiskB ==
  /\ Fits(Newest, wal, Intact(wal), history)
  /\ Survives(Newest, wal, Intact(wal), durable, synced)

ThreadB ==
  /\ Running => Newest.last_seq <= seq /\ (Intact(wal) > 0 => wal[Intact(wal)].seq <= seq)
  /\ Running /\ OnlyTailLost => Reach(Newest, wal, Intact(wal)) = Len(history)
  /\ pc = "down" /\ OnlyTailLost => Reach(Newest, wal, Intact(wal)) >= floor
  /\ pc = "truncate" => snap = [last_seq |-> seq, book |-> history, ok |-> TRUE]

BInv == DiskB /\ ThreadB

(* Two ways to say that only the tail is lost. *)
LEMMA TailIs ==
  ASSUME WellOrdered, NEW log \in Seq(Record)
  PROVE  (/\ Len(log) - Intact(log) \in {0, 1}
          /\ Intact(log) < Len(log) => log[Len(log)] = Torn)
         <=> Read(log, Intact(log), Len(log))
<1>1. PICK n \in 0 .. Len(log) : n = Intact(log)
  BY IntactExists
<1>2. Len(log) \in Nat
  BY IntactExists
<1>3. CASE n = Len(log)
  BY <1>1, <1>2, <1>3 DEF Read
<1>4. CASE n + 1 = Len(log)
  BY <1>1, <1>2, <1>4 DEF Read
<1>5. CASE n + 1 < Len(log)
  BY <1>1, <1>2, <1>5 DEF Read
<1> QED BY <1>2, <1>3, <1>4, <1>5

(* What the proofs of its steps start from. *)
LEMMA FactsB ==
  ASSUME WellOrdered, Sane
  PROVE  /\ wal \in Seq(Record) /\ history \in Seq(Nat) /\ Newest \in File
         /\ Len(wal) \in Nat /\ Len(history) \in Nat
         /\ Intact(wal) \in 0 .. Len(wal) /\ Good(wal, Intact(wal))
         /\ Reach(Newest, wal, Intact(wal)) \in Nat
         /\ OnlyTailLost <=> Read(wal, Intact(wal), Len(wal))
<1>1. wal \in Seq(Record) /\ history \in Seq(Nat) /\ Newest \in File
  BY DEF Sane, TypeInv, Newest
<1>2. /\ Len(wal) \in Nat /\ Len(history) \in Nat /\ Intact(wal) \in 0 .. Len(wal)
      /\ Good(wal, Intact(wal))
  BY <1>1, SeqLast, IntactExists
<1>3. Reach(Newest, wal, Intact(wal)) \in Nat
  BY <1>1, <1>2, FitsCut
<1>4. OnlyTailLost <=> Read(wal, Intact(wal), Len(wal))
  BY <1>1, TailIs DEF OnlyTailLost
<1> QED BY <1>1, <1>2, <1>3, <1>4

(* It holds at the start. *)
LEMMA InitB ==
  ASSUME WellOrdered
  PROVE  Init => BInv
<1> SUFFICES ASSUME Init PROVE BInv
  OBVIOUS
<1>1. /\ wal = <<>> /\ history = <<>> /\ snap = NoFile /\ prev = NoFile /\ pc = "up" /\ seq = 0
      /\ durable = 0 /\ synced = 0
  BY DEF Init
<1>2. Len(wal) = 0 /\ Len(history) = 0 /\ Newest = NoFile
  BY <1>1 DEF Newest
<1>3. Intact(wal) = 0
  BY <1>2, InitSane, FactsB
<1>4. NoFile.last_seq = 0 /\ NoFile.ok = FALSE /\ Held(NoFile) = 0 /\ Lesser(0, 0) = 0
  BY FilesAre DEF Lesser
<1>5. Reach(NoFile, wal, 0) = 0
  BY <1>4 DEF Reach, Skip
<1>6. DiskB
  BY <1>1, <1>2, <1>3, <1>4, <1>5 DEF DiskB, Fits, Survives, Skip
<1>7. ThreadB
  BY <1>1, <1>2, <1>3, <1>4, <1>5 DEF ThreadB, Running
<1> QED BY <1>6, <1>7 DEF BInv

(* A sync covers everything, or what was unreadable before is in the way. *)
LEMMA SyncB ==
  ASSUME NEW f, NEW log, NEW n \in Nat, NEW d \in Nat, NEW s \in Nat, n <= d,
         Read(log, n, d) => Reach(f, log, n) = s
  PROVE  Survives(f, log, n, d, s)
<1>1. Lesser(d, n) = n
  BY DEF Lesser
<1> QED BY <1>1 DEF Survives

(* A record more changes nothing for the ones before it. *)
LEMMA MoreB ==
  ASSUME NEW f \in File, NEW log \in Seq(Record), NEW r \in Record, NEW n \in 0 .. Len(log),
         NEW d \in Nat, d <= Len(log), NEW s \in Nat
  PROVE  LET new == Append(log, r)
         IN  /\ \A m \in 0 .. Len(log) : Reach(f, new, m) = Reach(f, log, m)
             /\ \A hist, more : /\ Fits(f, log, n, hist) /\ Len(hist) \in Nat /\ Len(more) \in Nat
                                /\ Len(hist) <= Len(more)
                                /\ \A i \in 1 .. Len(hist) : more[i] = hist[i]
                                => Fits(f, new, n, more)
             /\ Survives(f, log, n, d, s) => Survives(f, new, n, d, s)
<1> DEFINE new == Append(log, r)
<1>1. /\ new \in Seq(Record) /\ Len(log) \in Nat /\ Len(new) = Len(log) + 1
      /\ \A k \in 1 .. Len(log) : new[k] = log[k]
  BY SeqAppend
<1> HIDE DEF new
<1>2. ASSUME NEW m \in 0 .. Len(log) PROVE Reach(f, new, m) = Reach(f, log, m)
  <2>1. m <= Len(new) /\ \A i \in 1 .. m : new[i] = log[i]
    BY <1>1
  <2> QED BY <1>1, <2>1, FitsAlike
<1>3. n <= Len(new) /\ \A i \in 1 .. n : new[i] = log[i]
  BY <1>1
<1>4. ASSUME NEW hist, NEW more, Fits(f, log, n, hist), Len(hist) \in Nat, Len(more) \in Nat,
             Len(hist) <= Len(more), \A i \in 1 .. Len(hist) : more[i] = hist[i]
      PROVE  Fits(f, new, n, more)
  BY <1>1, <1>3, <1>4, FitsAlike, Zenon
<1>5. ASSUME Survives(f, log, n, d, s), Read(new, n, d) PROVE Reach(f, new, Lesser(d, n)) >= s
  <2>1. Read(log, n, d)
    <3>1. CASE d <= n
      BY <3>1 DEF Read
    <3>2. CASE d = n + 1 /\ new[n + 1] = Torn
      <4>1. n + 1 \in 1 .. Len(log)
        BY <1>1, <3>2
      <4> QED BY <1>1, <3>2, <4>1 DEF Read
    <3> QED BY <1>5, <3>1, <3>2 DEF Read
  <2>2. Lesser(d, n) \in 0 .. Len(log)
    BY <1>1 DEF Lesser
  <2> QED BY <1>2, <1>5, <2>1, <2>2 DEF Survives
<1> QED BY <1>2, <1>4, <1>5 DEF Survives, new

(* A torn record, or one whose number does not follow, is not read. *)
LEMMA UnreadB ==
  ASSUME WellOrdered, NEW log \in Seq(Record), NEW r \in Record,
         Intact(Append(log, r)) = Intact(log)
  PROVE  Read(Append(log, r), Intact(log), Len(log) + 1) => Intact(log) = Len(log) /\ r = Torn
<1>1. Intact(log) \in 0 .. Len(log) /\ Len(log) \in Nat
  BY IntactExists
<1>2. Append(log, r)[Len(log) + 1] = r
  BY SeqAppend
<1> QED BY <1>1, <1>2 DEF Read

(* Appending a record, readable or behind something that is not. *)
LEMMA AppendB ==
  ASSUME WellOrdered
  PROVE  Sane /\ BInv /\ WalAppend => BInv'
<1> SUFFICES ASSUME Sane, BInv, WalAppend PROVE BInv'
  OBVIOUS
<1> DEFINE r == [seq |-> seq + 1, cmd |-> sent + 1]
<1>1. /\ wal \in Seq(Record) /\ history \in Seq(Nat) /\ Newest \in File
      /\ Len(wal) \in Nat /\ Len(history) \in Nat /\ Intact(wal) \in 0 .. Len(wal)
      /\ Good(wal, Intact(wal)) /\ (OnlyTailLost <=> Read(wal, Intact(wal), Len(wal)))
  BY FactsB
<1>2. /\ seq \in Nat /\ sent \in Nat /\ durable \in Nat /\ durable <= Len(wal) /\ synced \in Nat
      /\ since_sync \in Nat
  BY DEF Sane, TypeInv
<1>3. /\ pc = "up" /\ seq' = seq + 1 /\ pc' = "logged"
      /\ wal' = Append(wal, r) /\ history' = Append(history, sent + 1) /\ UNCHANGED <<snap, prev>>
      /\ \/ durable' = Len(wal') /\ synced' = Len(history')
         \/ UNCHANGED <<durable, synced>>
  BY <1>2 DEF WalAppend, Sync, NoSync
<1>4. Newest' = Newest /\ Newest.last_seq \in Nat
  BY <1>1, <1>3, Fields DEF Newest
<1>5. /\ Fits(Newest, wal, Intact(wal), history) /\ Newest.last_seq <= seq
      /\ Survives(Newest, wal, Intact(wal), durable, synced)
      /\ Intact(wal) > 0 => wal[Intact(wal)].seq <= seq
      /\ Read(wal, Intact(wal), Len(wal)) => Reach(Newest, wal, Intact(wal)) = Len(history)
  BY <1>1, <1>3 DEF BInv, DiskB, ThreadB, Running
<1>6. r \in Record /\ r.cmd = sent + 1 /\ r.seq = seq + 1 /\ r # Torn
  BY <1>2, RecordIs
<1> HIDE DEF r
<1>7. /\ wal' \in Seq(Record) /\ Len(wal') = Len(wal) + 1 /\ wal'[Len(wal) + 1] = r
      /\ \A k \in 1 .. Len(wal) : wal'[k] = wal[k] /\ wal[k] \in Record
  BY <1>1, <1>3, <1>6, SeqAppend
<1>8. /\ Len(history') = Len(history) + 1 /\ history' \in Seq(Nat)
      /\ \A k \in 1 .. Len(history) : history'[k] = history[k]
  BY <1>1, <1>2, <1>3, SeqAppend
<1>9. OnlyTailLost' <=> Read(wal', Intact(wal'), Len(wal'))
  BY <1>7, TailIs DEF OnlyTailLost
<1>10. /\ \A m \in 0 .. Len(wal) : Reach(Newest, wal', m) = Reach(Newest, wal, m)
       /\ Fits(Newest, wal', Intact(wal), history')
       /\ Survives(Newest, wal', Intact(wal), durable, synced)
  <2>1. Len(history) <= Len(history') /\ Len(history') \in Nat
    BY <1>1, <1>8
  <2> QED BY <1>1, <1>2, <1>3, <1>5, <1>6, <1>8, <2>1, MoreB, Zenon
<1>11. CASE Intact(wal) = Len(wal) /\ (Len(wal) = 0 \/ r.seq = wal[Len(wal)].seq + 1)
  <2>1. Intact(wal') = Len(wal) + 1
    BY <1>1, <1>3, <1>6, <1>11, IntactAppend
  <2>2. Reach(Newest, wal, Len(wal)) = Len(history) /\ Good(wal, Len(wal))
    BY <1>1, <1>5, <1>11 DEF Read
  <2>3. Newest.last_seq < r.seq
    BY <1>2, <1>4, <1>5, <1>6
  <2>4. /\ Fits(Newest, wal', Len(wal) + 1, history')
        /\ Reach(Newest, wal', Len(wal) + 1) = Len(history')
    <3>1. /\ Fits(Newest, Append(wal, r), Len(wal) + 1, Append(history, r.cmd))
          /\ Reach(Newest, Append(wal, r), Len(wal) + 1) = Len(Append(history, r.cmd))
      BY <1>1, <1>5, <1>6, <1>11, <2>2, <2>3, FitsGrow
    <3> QED BY <1>3, <1>6, <3>1, Zenon
  <2>5. Survives(Newest, wal', Len(wal) + 1, durable', synced')
    <3>1. CASE durable' = Len(wal') /\ synced' = Len(history')
      <4>1. Lesser(Len(wal) + 1, Len(wal) + 1) = Len(wal) + 1 /\ Len(history') >= Len(history')
        BY <1>1, <1>8 DEF Lesser
      <4> QED BY <1>7, <2>4, <3>1, <4>1 DEF Survives
    <3>2. CASE UNCHANGED <<durable, synced>>
      <4>1. /\ Lesser(durable, Len(wal)) = durable /\ Lesser(durable, Len(wal) + 1) = durable
            /\ durable \in 0 .. Len(wal)
        BY <1>1, <1>2 DEF Lesser
      <4>2. Read(wal, Intact(wal), durable)
        BY <1>2, <1>11 DEF Read
      <4>3. Reach(Newest, wal, durable) >= synced
        BY <1>5, <1>11, <4>1, <4>2 DEF Survives
      <4> QED BY <1>10, <3>2, <4>1, <4>3 DEF Survives
    <3> QED BY <1>3, <3>1, <3>2
  <2>6. DiskB'
    BY <1>4, <2>1, <2>4, <2>5, Zenon DEF DiskB
  <2>7. ThreadB'
    <3>1. Newest.last_seq <= seq' /\ wal'[Intact(wal')].seq <= seq'
      BY <1>2, <1>3, <1>4, <1>5, <1>6, <1>7, <2>1
    <3> QED BY <1>3, <1>4, <2>1, <2>4, <3>1, Zenon DEF ThreadB, Running
  <2> QED BY <2>6, <2>7 DEF BInv
<1>12. CASE ~(Intact(wal) = Len(wal) /\ (Len(wal) = 0 \/ r.seq = wal[Len(wal)].seq + 1))
  <2>1. Intact(wal') = Intact(wal)
    BY <1>1, <1>3, <1>6, <1>12, IntactAppend
  <2>2. ~Read(wal', Intact(wal), Len(wal'))
    BY <1>1, <1>3, <1>6, <1>7, <2>1, UnreadB
  <2>3. Survives(Newest, wal', Intact(wal), durable', synced')
    BY <1>3, <1>10, <2>2 DEF Survives
  <2>4. DiskB'
    BY <1>4, <1>10, <2>1, <2>3 DEF DiskB
  <2>5. ~OnlyTailLost'
    BY <1>9, <2>1, <2>2, Zenon
  <2>6. Intact(wal) > 0 => wal'[Intact(wal)].seq <= seq'
    <3>1. SUFFICES ASSUME Intact(wal) > 0 PROVE wal'[Intact(wal)].seq <= seq'
      OBVIOUS
    <3>2. Intact(wal) \in 1 .. Len(wal)
      BY <1>1, <3>1
    <3>3. wal[Intact(wal)].seq \in Nat
      BY <1>1, <3>2, Records
    <3> QED BY <1>2, <1>3, <1>5, <1>7, <3>1, <3>2, <3>3
  <2>7. Newest.last_seq <= seq'
    BY <1>2, <1>3, <1>4, <1>5
  <2>8. ThreadB'
    BY <1>3, <1>4, <2>1, <2>5, <2>6, <2>7, Zenon DEF ThreadB, Running
  <2> QED BY <2>4, <2>8 DEF BInv
<1> QED BY <1>11, <1>12

(* What an append that fails or is cut short leaves behind the log. *)
LEMMA TornB ==
  ASSUME WellOrdered, Sane, BInv, wal' = Append(wal, Torn),
         UNCHANGED <<snap, prev, durable, synced, history>>
  PROVE  /\ DiskB' /\ Intact(wal') = Intact(wal) /\ Newest' = Newest
         /\ Intact(wal) > 0 => wal'[Intact(wal)] = wal[Intact(wal)]
         /\ Reach(Newest, wal', Intact(wal)) = Reach(Newest, wal, Intact(wal))
         /\ OnlyTailLost' => OnlyTailLost
<1>1. /\ wal \in Seq(Record) /\ history \in Seq(Nat) /\ Newest \in File
      /\ Len(wal) \in Nat /\ Len(history) \in Nat /\ Intact(wal) \in 0 .. Len(wal)
      /\ OnlyTailLost <=> Read(wal, Intact(wal), Len(wal))
  BY FactsB
<1>2. /\ durable \in Nat /\ durable <= Len(wal) /\ synced \in Nat
      /\ Fits(Newest, wal, Intact(wal), history)
      /\ Survives(Newest, wal, Intact(wal), durable, synced)
  BY DEF Sane, TypeInv, BInv, DiskB
<1>3. Torn \in Record
  BY RecordIs
<1>4. /\ wal' \in Seq(Record) /\ Len(wal') = Len(wal) + 1
      /\ \A k \in 1 .. Len(wal) : wal'[k] = wal[k]
  BY <1>1, <1>3, SeqAppend
<1>5. Intact(wal') = Intact(wal)
  BY <1>1, <1>3, IntactAppend
<1>6. /\ Reach(Newest, wal', Intact(wal)) = Reach(Newest, wal, Intact(wal))
      /\ Fits(Newest, wal', Intact(wal), history)
      /\ Survives(Newest, wal', Intact(wal), durable, synced)
  BY <1>1, <1>2, <1>3, MoreB
<1>7. Newest' = Newest
  BY DEF Newest
<1>8. DiskB'
  BY <1>2, <1>5, <1>6, <1>7 DEF DiskB
<1>9. OnlyTailLost' => OnlyTailLost
  <2>1. SUFFICES ASSUME OnlyTailLost' PROVE Read(wal, Intact(wal), Len(wal))
    BY <1>1
  <2>2. Read(wal', Intact(wal'), Len(wal'))
    BY <1>4, <2>1, TailIs, Zenon DEF OnlyTailLost
  <2>3. Intact(wal) = Len(wal)
    BY <1>1, <1>3, <1>4, <1>5, <2>2, UnreadB
  <2> QED BY <1>1, <2>3 DEF Read
<1>10. Intact(wal) > 0 => wal'[Intact(wal)] = wal[Intact(wal)]
  BY <1>1, <1>4
<1> QED BY <1>5, <1>6, <1>7, <1>8, <1>9, <1>10, Zenon

(* A step that leaves the files and the history alone. *)
LEMMA QuietB ==
  ASSUME DiskB, UNCHANGED <<wal, durable, synced, history>>, Newest' = Newest
  PROVE  DiskB'
  BY DEF DiskB

(* A step that also syncs. *)
LEMMA SyncedB ==
  ASSUME WellOrdered, Sane, BInv, Running, UNCHANGED <<wal, history>>, Newest' = Newest,
         \/ durable' = Len(wal) /\ synced' = Len(history)
         \/ UNCHANGED <<durable, synced>>
  PROVE  DiskB'
<1>1. CASE UNCHANGED <<durable, synced>>
  BY <1>1, QuietB DEF BInv
<1>2. CASE durable' = Len(wal) /\ synced' = Len(history)
  <2>1. /\ Len(wal) \in Nat /\ Len(history) \in Nat /\ Intact(wal) \in 0 .. Len(wal)
        /\ OnlyTailLost <=> Read(wal, Intact(wal), Len(wal))
    BY FactsB
  <2>2. Read(wal, Intact(wal), Len(wal)) => Reach(Newest, wal, Intact(wal)) = Len(history)
    BY <2>1 DEF BInv, ThreadB
  <2>3. Intact(wal) \in Nat /\ Intact(wal) <= Len(wal)
    BY <2>1
  <2>4. Survives(Newest, wal, Intact(wal), Len(wal), Len(history))
    BY <2>1, <2>2, <2>3, SyncB, Zenon
  <2> QED BY <1>2, <2>4 DEF BInv, DiskB
<1> QED BY <1>1, <1>2

(* An append that fails. *)
LEMMA AppendFailsB ==
  ASSUME WellOrdered
  PROVE  Sane /\ BInv /\ AppendFails => BInv'
<1> SUFFICES ASSUME Sane, BInv, AppendFails PROVE BInv'
  OBVIOUS
<1>1. /\ pc = "up" /\ pc' = "up" /\ UNCHANGED <<durable, snap, prev, history, synced, floor>>
      /\ wal' \in {wal, Append(wal, Torn)} /\ seq' \in {seq, seq + 1}
  BY DEF AppendFails, ghosts
<1>2. /\ seq \in Nat /\ Newest \in File /\ Newest.last_seq \in Nat /\ Newest.last_seq <= seq
      /\ OnlyTailLost => Reach(Newest, wal, Intact(wal)) = Len(history)
  BY <1>1, FactsB, Fields DEF Sane, TypeInv, BInv, ThreadB, Running
<1>3. Intact(wal) > 0 => wal[Intact(wal)].seq \in Nat /\ wal[Intact(wal)].seq <= seq
  <2>1. wal \in Seq(Record) /\ Len(wal) \in Nat /\ Intact(wal) \in 0 .. Len(wal)
    BY FactsB
  <2>2. Intact(wal) > 0 => wal[Intact(wal)].seq \in Nat
    BY <2>1, Records
  <2> QED BY <1>1, <2>2 DEF BInv, ThreadB, Running
<1>4. Newest.last_seq <= seq' /\ (Intact(wal) > 0 => wal[Intact(wal)].seq <= seq')
  BY <1>1, <1>2, <1>3
<1>5. CASE wal' = wal
  <2>1. DiskB'
    BY <1>1, <1>5, QuietB DEF BInv, Newest
  <2>2. ThreadB'
    BY <1>1, <1>2, <1>4, <1>5 DEF ThreadB, Running, Newest, OnlyTailLost
  <2> QED BY <2>1, <2>2 DEF BInv
<1>6. CASE wal' = Append(wal, Torn)
  <2>1. /\ DiskB' /\ Intact(wal') = Intact(wal) /\ Newest' = Newest
        /\ Intact(wal) > 0 => wal'[Intact(wal)] = wal[Intact(wal)]
        /\ Reach(Newest, wal', Intact(wal)) = Reach(Newest, wal, Intact(wal))
        /\ OnlyTailLost' => OnlyTailLost
    BY <1>1, <1>6, TornB, Zenon
  <2>2. ThreadB'
    BY <1>1, <1>2, <1>4, <2>1 DEF ThreadB, Running
  <2> QED BY <2>1, <2>2 DEF BInv
<1> QED BY <1>1, <1>5, <1>6

(* The process is killed, in the middle of an append or not, or stops. *)
LEMMA CrashB ==
  ASSUME WellOrdered
  PROVE  Sane /\ BInv /\ (Crash \/ CrashInAppend \/ Stop) => BInv'
<1> SUFFICES ASSUME Sane, BInv, Crash \/ CrashInAppend \/ Stop PROVE BInv'
  OBVIOUS
<1>1. /\ Running /\ pc' = "down" /\ floor' = Len(history) /\ UNCHANGED <<snap, prev, history>>
  BY DEF Crash, CrashInAppend, Stop, Gone, disk, Running
<1>2. /\ OnlyTailLost => Reach(Newest, wal, Intact(wal)) = Len(history)
      /\ Newest' = Newest /\ Len(history) \in Nat
  BY <1>1, FactsB DEF BInv, ThreadB, Newest
<1>3. CASE Crash \/ Stop
  <2>1. /\ wal' = wal
        /\ \/ durable' = Len(wal) /\ synced' = Len(history)
           \/ UNCHANGED <<durable, synced>>
    BY <1>3 DEF Crash, Stop, disk
  <2>2. DiskB'
    BY <1>1, <1>2, <2>1, SyncedB
  <2>3. ThreadB'
    BY <1>1, <1>2, <2>1 DEF ThreadB, Running, OnlyTailLost
  <2> QED BY <2>2, <2>3 DEF BInv
<1>4. CASE CrashInAppend
  <2>1. wal' = Append(wal, Torn) /\ UNCHANGED <<durable, synced>>
    BY <1>4 DEF CrashInAppend
  <2>2. /\ DiskB' /\ Intact(wal') = Intact(wal)
        /\ Reach(Newest, wal', Intact(wal)) = Reach(Newest, wal, Intact(wal))
        /\ OnlyTailLost' => OnlyTailLost
    BY <1>1, <2>1, TornB, Zenon
  <2>3. ThreadB'
    BY <1>1, <1>2, <2>2 DEF ThreadB, Running
  <2> QED BY <2>2, <2>3 DEF BInv
<1> QED BY <1>3, <1>4

(* The rest of apply, a batch that ends, a snapshot that is not written. *)
LEMMA SimpleB ==
  ASSUME WellOrdered
  PROVE  Sane /\ BInv /\ (Applied \/ EndBatch \/ WriteSnapshotFails \/ UNCHANGED vars) => BInv'
<1> SUFFICES ASSUME Sane, BInv, Applied \/ EndBatch \/ WriteSnapshotFails \/ UNCHANGED vars
             PROVE  BInv'
  BY Zenon
<1>1. CASE UNCHANGED vars
  BY <1>1 DEF BInv, DiskB, ThreadB, vars, disk, memory, ghosts, Newest, OnlyTailLost, Running
<1>2. CASE Applied \/ EndBatch \/ WriteSnapshotFails
  <2>1. /\ Running /\ pc' \in {"up", "snapshot"} /\ UNCHANGED <<wal, history, seq>>
        /\ \/ durable' = Len(wal) /\ synced' = Len(history)
           \/ UNCHANGED <<durable, synced>>
    BY <1>2 DEF Applied, EndBatch, Sync, NoSync, WriteSnapshotFails, disk, memory, ghosts, Running
  <2>2. Newest' = Newest
    BY <1>2 DEF Applied, EndBatch, WriteSnapshotFails, disk, Newest
  <2>3. DiskB'
    BY <2>1, <2>2, SyncedB, Zenon
  <2>4. ThreadB'
    BY <2>1, <2>2, Zenon DEF BInv, ThreadB, Running, OnlyTailLost
  <2> QED BY <2>3, <2>4, Zenon DEF BInv
<1> QED BY <1>1, <1>2

(* A snapshot of everything needs no log, whatever is left of it. *)
LEMMA FullB ==
  ASSUME WellOrdered, NEW k \in Nat, NEW hist \in Seq(Nat), NEW log \in Seq(Record),
         Intact(log) > 0 => log[Intact(log)].seq <= k, NEW d \in Nat
  PROVE  LET g == [last_seq |-> k, book |-> hist, ok |-> TRUE]
         IN  /\ Fits(g, log, Intact(log), hist) /\ Reach(g, log, Intact(log)) = Len(hist)
             /\ Survives(g, log, Intact(log), d, Len(hist))
<1> DEFINE g == [last_seq |-> k, book |-> hist, ok |-> TRUE]
           n == Intact(log)
<1>1. g \in File /\ g.ok = TRUE /\ g.last_seq = k /\ g.book = hist
  BY FilesAre
<1>2. n \in 0 .. Len(log) /\ Len(log) \in Nat /\ Good(log, n)
  BY IntactExists
<1> HIDE DEF g, n
<1>3. n > 0 => log[n].seq <= g.last_seq
  BY <1>1 DEF n
<1>4. Reach(g, log, n) = Len(hist) /\ Fits(g, log, n, hist)
  BY <1>1, <1>2, <1>3, FitsAlone, Zenon
<1>5. Held(g) = Len(hist) /\ Len(hist) \in Nat
  BY <1>1, SeqLast DEF Held
<1>6. Survives(g, log, n, d, Len(hist))
  <2>1. Lesser(d, n) \in 0 .. n
    BY <1>2 DEF Lesser
  <2>2. Held(g) <= Reach(g, log, Lesser(d, n)) /\ Reach(g, log, Lesser(d, n)) \in Nat
    BY <1>1, <1>2, <2>1, FitsCut, Zenon
  <2> QED BY <1>5, <2>2 DEF Survives
<1> QED BY <1>4, <1>6 DEF g, n

(* A snapshot is written. *)
LEMMA WriteSnapshotB ==
  ASSUME WellOrdered
  PROVE  Sane /\ BInv /\ WriteSnapshot => BInv'
<1> SUFFICES ASSUME Sane, BInv, WriteSnapshot PROVE BInv'
  OBVIOUS
<1> DEFINE g == [last_seq |-> seq, book |-> history, ok |-> TRUE]
<1>1. /\ wal \in Seq(Record) /\ history \in Seq(Nat) /\ seq \in Nat /\ durable \in Nat
      /\ pc = "snapshot" /\ book = history
  BY DEF Sane, TypeInv, BookInv, WriteSnapshot
<1>2. /\ pc' = "truncate" /\ snap' = g /\ synced' = Len(history)
      /\ UNCHANGED <<wal, durable, seq, history>>
  BY <1>1 DEF WriteSnapshot, memory
<1>3. g # NoFile /\ g.last_seq = seq
  BY FilesAre, <1>1
<1>4. Intact(wal) > 0 => wal[Intact(wal)].seq <= seq
  BY <1>1, Zenon DEF BInv, ThreadB, Running
<1>5. /\ Fits(g, wal, Intact(wal), history) /\ Reach(g, wal, Intact(wal)) = Len(history)
      /\ Survives(g, wal, Intact(wal), durable, Len(history))
  BY <1>1, <1>4, FullB
<1>6. Newest' = g
  BY <1>2, <1>3 DEF Newest
<1>7. snap' = [last_seq |-> seq', book |-> history', ok |-> TRUE]
  BY <1>2
<1> HIDE DEF g
<1>8. DiskB'
  BY <1>2, <1>5, <1>6 DEF DiskB
<1>9. g.last_seq <= seq
  BY <1>1, <1>3
<1>10. ThreadB'
  BY <1>2, <1>4, <1>5, <1>6, <1>7, <1>9 DEF ThreadB, Running
<1> QED BY <1>8, <1>10 DEF BInv

(* The log is cut off behind the snapshot, or closed. *)
LEMMA TruncateB ==
  ASSUME WellOrdered
  PROVE  Sane /\ BInv /\ Truncate => BInv'
<1> SUFFICES ASSUME Sane, BInv, Truncate PROVE BInv'
  OBVIOUS
<1> DEFINE g == [last_seq |-> seq, book |-> history, ok |-> TRUE]
           R == read_wal(wal).records
           n == Intact(wal)
<1>1. /\ wal \in Seq(Record) /\ history \in Seq(Nat) /\ seq \in Nat /\ last_snapshot_seq \in Nat
      /\ durable \in Nat
  BY DEF Sane, TypeInv
<1>2. /\ pc = "truncate" /\ pc' = "up" /\ UNCHANGED <<snap, prev, seq, history>>
      /\ \/ wal' = Above(R, last_snapshot_seq) /\ durable' = Len(wal') /\ synced' = Len(history)
         \/ wal' = wal /\ durable' = Len(wal) /\ synced' = Len(history)
         \/ wal' = wal /\ UNCHANGED <<durable, synced>>
  BY Zenon DEF Truncate, Sync
<1>3. /\ Running /\ snap = g /\ Newest.last_seq <= seq /\ (n > 0 => wal[n].seq <= seq)
  BY <1>2 DEF BInv, ThreadB, Running
<1>4. g # NoFile /\ g.last_seq = seq
  BY FilesAre, <1>1
<1>5. Newest = g /\ Newest' = g
  BY <1>2, <1>3, <1>4, Zenon DEF Newest
<1> HIDE DEF g, R, n
<1>6. CASE wal' = wal /\ \/ durable' = Len(wal) /\ synced' = Len(history)
                         \/ UNCHANGED <<durable, synced>>
  <2>1. DiskB'
    BY <1>2, <1>3, <1>5, <1>6, SyncedB, Zenon
  <2>2. ThreadB'
    BY <1>2, <1>3, <1>5, <1>6, Zenon DEF BInv, ThreadB, Running, OnlyTailLost
  <2> QED BY <2>1, <2>2 DEF BInv
<1>7. CASE wal' = Above(R, last_snapshot_seq) /\ durable' = Len(wal') /\ synced' = Len(history)
  <2>1. /\ R \in Seq(Record) /\ Len(R) = n /\ n \in 0 .. Len(wal) /\ n \in Nat
        /\ \A i \in 1 .. n : R[i] = wal[i]
    BY <1>1, ReadIs, FactsB DEF R, n
  <2>2. Good(R, n)
    BY <2>1, FactsB, GoodAlike, Zenon DEF n
  <2>3. /\ wal' \in Seq(Record) /\ Intact(wal') = Len(wal')
        /\ Len(wal') > 0 => n > 0 /\ wal'[Len(wal')] = R[n]
    BY <1>1, <1>7, <2>1, <2>2, AboveIntact
  <2>4. Intact(wal') > 0 => wal'[Intact(wal')].seq <= seq
    <3>1. SUFFICES ASSUME Len(wal') > 0 PROVE wal'[Len(wal')].seq <= seq
      BY <2>3
    <3>2. n > 0 /\ wal'[Len(wal')] = R[n]
      BY <2>3, <3>1
    <3>3. n \in 1 .. n
      BY <2>1, <3>2
    <3> QED BY <1>3, <2>1, <3>2, <3>3
  <2>5. Len(wal') \in Nat
    BY <2>3, SeqLast, Zenon
  <2>6. /\ Fits(g, wal', Intact(wal'), history) /\ Reach(g, wal', Intact(wal')) = Len(history)
        /\ Survives(g, wal', Intact(wal'), Len(wal'), Len(history))
    BY <1>1, <2>3, <2>4, <2>5, FullB, Zenon DEF g
  <2>7. DiskB'
    BY <1>2, <1>5, <1>7, <2>6, Zenon DEF DiskB
  <2>8. ThreadB'
    BY <1>2, <1>3, <1>5, <2>4, <2>6 DEF ThreadB, Running
  <2> QED BY <2>7, <2>8 DEF BInv
<1> QED BY <1>2, <1>6, <1>7

(* The machine fails: what is left of the log still has what was synced. *)
LEMMA PowerB ==
  ASSUME WellOrdered
  PROVE  Sane /\ BInv /\ PowerFails => BInv'
<1> SUFFICES ASSUME Sane, BInv, PowerFails PROVE BInv'
  OBVIOUS
<1> DEFINE f == Newest
           n == Intact(wal)
<1>1. /\ wal \in Seq(Record) /\ history \in Seq(Nat) /\ f \in File
      /\ Len(wal) \in Nat /\ Len(history) \in Nat /\ n \in 0 .. Len(wal)
  BY FactsB
<1>2. /\ durable \in Nat /\ durable <= Len(wal) /\ synced \in Nat
      /\ Fits(f, wal, n, history) /\ Survives(f, wal, n, durable, synced)
  BY DEF Sane, TypeInv, BInv, DiskB
<1>3. PICK m \in durable .. Len(wal) :
        /\ wal' = SubSeq(wal, 1, m) \/ wal' = Append(SubSeq(wal, 1, m), Torn)
        /\ durable' = Len(wal')
  BY DEF PowerFails
<1>4. /\ pc' = "down" /\ floor' = synced /\ UNCHANGED <<snap, prev, history, synced>>
      /\ Newest' = f
  BY DEF PowerFails, Gone, Newest
<1> HIDE DEF f, n
<1>5. m \in 0 .. Len(wal) /\ m \in Nat /\ durable <= m
  BY <1>1, <1>2
<1> DEFINE cut == SubSeq(wal, 1, m)
           p == Lesser(m, n)
<1>6. cut \in Seq(Record) /\ Len(cut) = m /\ \A k \in 1 .. m : cut[k] = wal[k]
  BY <1>1, <1>5, SeqFirst
<1>7. Intact(cut) = p
  BY <1>1, <1>5, IntactCut DEF n
<1>8. p \in 0 .. n /\ p \in 0 .. m /\ p <= m
  BY <1>1, <1>5 DEF Lesser
<1>9. wal' = cut \/ wal' = Append(cut, Torn)
  BY <1>3
<1> HIDE DEF cut
<1>10. /\ wal' \in Seq(Record) /\ Intact(wal') = p /\ \A k \in 1 .. m : wal'[k] = wal[k]
       /\ \/ wal' = cut /\ Len(wal') = m
          \/ Len(wal') = m + 1 /\ wal'[m + 1] = Torn
  <2>1. CASE wal' = cut
    BY <1>6, <1>7, <2>1, Zenon
  <2>2. CASE wal' = Append(cut, Torn)
    <3>1. Torn \in Record
      BY RecordIs
    <3>2. Intact(wal') = p
      BY <1>6, <1>7, <2>2, <3>1, IntactAppend, Zenon
    <3>3. /\ wal' \in Seq(Record) /\ Len(wal') = m + 1 /\ wal'[m + 1] = Torn
          /\ \A k \in 1 .. m : wal'[k] = cut[k]
      BY <1>6, <2>2, <3>1, SeqAppend
    <3> QED BY <1>6, <3>2, <3>3, Zenon
  <2> QED BY <1>9, <2>1, <2>2, Zenon
<1> HIDE DEF p
<1>11. Fits(f, wal, p, history) /\ Reach(f, wal, p) \in Nat
  BY <1>1, <1>2, <1>8, FitsCut, Zenon
<1>12. Fits(f, wal', p, history) /\ Reach(f, wal', p) = Reach(f, wal, p)
  <2>1. p \in 0 .. Len(wal) /\ p <= Len(wal') /\ \A k \in 1 .. p : wal'[k] = wal[k]
    BY <1>1, <1>5, <1>8, <1>10
  <2>2. Len(history) <= Len(history) /\ \A i \in 1 .. Len(history) : history[i] = history[i]
    BY <1>1
  <2> QED BY <1>1, <1>10, <1>11, <2>1, <2>2, FitsAlike, Zenon
<1>13. ASSUME Read(wal', p, Len(wal')) PROVE Reach(f, wal', p) >= synced
  <2>1. Read(wal, n, durable) /\ Lesser(durable, n) \in 0 .. p
    <3>1. CASE m <= n
      BY <1>1, <1>2, <1>5, <3>1 DEF Read, Lesser, p
    <3>2. CASE m > n
      <4>1. p = n
        BY <1>1, <1>5, <3>2 DEF Lesser, p
      <4>2. m = n + 1 /\ wal' = cut /\ wal'[n + 1] = Torn
        BY <1>1, <1>5, <1>10, <1>13, <3>2, <4>1 DEF Read
      <4>3. wal[n + 1] = Torn
        BY <1>1, <1>10, <4>2
      <4> QED BY <1>1, <1>2, <1>5, <4>1, <4>2, <4>3 DEF Read, Lesser
    <3> QED BY <1>1, <1>5, <3>1, <3>2
  <2>2. Reach(f, wal, Lesser(durable, n)) >= synced
    BY <1>2, <2>1 DEF Survives
  <2>3. p \in 0 .. Len(wal)
    BY <1>1, <1>8
  <2>4. /\ Reach(f, wal, Lesser(durable, n)) <= Reach(f, wal, p)
        /\ Reach(f, wal, Lesser(durable, n)) \in Nat
    BY <1>1, <2>1, <2>3, FitsCut
  <2> QED BY <1>2, <1>11, <1>12, <2>2, <2>4
<1>14. Lesser(Len(wal'), p) = p
  BY <1>5, <1>8, <1>10 DEF Lesser
<1>15. DiskB'
  BY <1>3, <1>4, <1>10, <1>12, <1>13, <1>14, Zenon DEF DiskB, Survives
<1>16. OnlyTailLost' => Read(wal', p, Len(wal'))
  BY <1>10, TailIs, Zenon DEF OnlyTailLost
<1>17. ThreadB'
  BY <1>4, <1>10, <1>13, <1>16 DEF ThreadB, Running
<1> QED BY <1>15, <1>17 DEF BInv

(* A start, refused or not. *)
LEMMA RestartB ==
  ASSUME WellOrdered
  PROVE  Sane /\ FilesInv /\ NoDamage /\ BInv /\ Restart => BInv'
<1> SUFFICES ASSUME Sane, FilesInv, NoDamage, BInv, Restart PROVE BInv'
  OBVIOUS
<1> DEFINE f == Newest
           n == Intact(wal)
<1>1. /\ wal \in Seq(Record) /\ f \in File /\ Len(wal) \in Nat /\ n \in 0 .. Len(wal)
      /\ f.last_seq \in Nat /\ synced \in Nat /\ durable \in Nat
  BY FactsB, Fields DEF Sane, TypeInv
<1>2. UNCHANGED <<wal, durable, snap, prev>> /\ Newest' = f
  BY RestartIs DEF disk, Newest
<1>3. CASE pc' = "refused" /\ UNCHANGED <<memory, ghosts>>
  <2>1. DiskB'
    BY <1>2, <1>3, QuietB, Zenon DEF BInv, ghosts
  <2>2. ThreadB'
    BY <1>3 DEF ThreadB, Running
  <2> QED BY <2>1, <2>2 DEF BInv
<1>4. CASE Started
  <2>1. Chosen = f
    BY ChosenIs
  <2>2. /\ pc' = "up" /\ history' = Rebuild(f, wal) /\ synced' = Lesser(synced, Len(history'))
        /\ seq' = Larger(read_wal(wal).last_seq, f.last_seq)
    BY <1>4, <2>1 DEF Started
  <2> HIDE DEF f, n
  <2>3. Len(history') = Reach(f, wal, n) /\ Fits(f, wal, n, history') /\ history' \in Seq(Nat)
    BY <1>1, <2>2, RebuildIs DEF n
  <2>4. Survives(f, wal, n, durable, synced')
    <3>1. SUFFICES ASSUME Read(wal, n, durable) PROVE Reach(f, wal, Lesser(durable, n)) >= synced'
      BY DEF Survives
    <3>2. Reach(f, wal, Lesser(durable, n)) >= synced
      BY <3>1 DEF BInv, DiskB, Survives, f, n
    <3>3. Lesser(durable, n) \in 0 .. n
      BY <1>1 DEF Lesser
    <3>4. Reach(f, wal, Lesser(durable, n)) \in Nat
      BY <1>1, <3>3, FitsCut
    <3>5. synced' <= synced /\ synced' \in Nat
      BY <1>1, <2>2, <2>3, SeqLast DEF Lesser
    <3> QED BY <1>1, <3>2, <3>4, <3>5
  <2>5. DiskB'
    BY <1>2, <2>3, <2>4, Zenon DEF DiskB, n
  <2>6. f.last_seq <= seq' /\ (n > 0 => wal[n].seq <= seq')
    <3>1. /\ read_wal(wal).last_seq = IF n = 0 THEN 0 ELSE wal[n].seq
          /\ n > 0 => wal[n].seq \in Nat
      BY <1>1, ReadIs, Records DEF n
    <3> QED BY <1>1, <2>2, <3>1 DEF Larger
  <2>7. ThreadB'
    BY <1>2, <2>2, <2>3, <2>6 DEF ThreadB, Running, n
  <2> QED BY <2>5, <2>7 DEF BInv
<1> QED BY <1>3, <1>4, RestartIs

(* The invariant for as long as no snapshot is damaged. *)
AnyInv == NoDamage => BInv

(* Every step keeps it. *)
LEMMA AnyStep ==
  ASSUME WellOrdered
  PROVE  Sane /\ FilesInv /\ AnyInv /\ [Next]_vars => AnyInv'
<1> SUFFICES ASSUME Sane, FilesInv, AnyInv, [Next]_vars, NoDamage' PROVE BInv'
  BY DEF AnyInv
<1>1. NoDamage /\ ~Damage
  BY FaultsBefore
<1>2. BInv
  BY <1>1 DEF AnyInv
<1> QED BY <1>1, <1>2, AppendB, AppendFailsB, CrashB, SimpleB, WriteSnapshotB, TruncateB, PowerB,
           RestartB, Zenon DEF Next

(* A start after any faults but a damaged snapshot. *)
LEMMA RecoversB ==
  ASSUME WellOrdered, Sane, FilesInv, NoDamage, BInv, Restart, pc' = "up", OnlyTailLost
  PROVE  Recovered
<1>1. Started /\ pc = "down"
  BY RestartIs
<1>2. Chosen = Newest
  BY ChosenIs
<1>3. book' = Rebuild(Newest, wal)
  BY <1>1, <1>2 DEF Started
<1>4. wal \in Seq(Record) /\ history \in Seq(Nat) /\ Newest \in File
  BY FactsB, Zenon
<1>5. Fits(Newest, wal, Intact(wal), history) /\ Reach(Newest, wal, Intact(wal)) >= floor
  BY <1>1 DEF BInv, DiskB, ThreadB
<1>6. /\ IsPrefixOf(Rebuild(Newest, wal), history)
      /\ Len(Rebuild(Newest, wal)) = Reach(Newest, wal, Intact(wal))
  BY <1>4, <1>5, FitsPrefix
<1> QED BY <1>3, <1>5, <1>6 DEF Recovered
-----------------------------------------------------------------------------
(* The theorems.  What was assumed above of the numbers, here and in
   RecoveryProofs, is in the library. *)
INSTANCE WellFoundedInduction

(* Every set of numbers has a least one. *)
LEMMA NatWellOrdered == WellOrdered
<1> SUFFICES ASSUME NEW T \in SUBSET Nat, T # {} PROVE \E i \in T : \A j \in T : i <= j
  BY DEF WellOrdered
<1> DEFINE Less == {ss \in Nat \X Nat : ss[1] < ss[2]}
<1>1. IsWellFoundedOn(Less, Nat)
  BY NatLessThanWellFounded, Zenon DEF OpToRel
<1> HIDE DEF Less
<1>2. \E i \in T : \A j \in T : ~(<<j, i>> \in Less)
  BY <1>1, WFMin, Zenon
<1>3. \A i, j \in Nat : ~(<<j, i>> \in Less) => i <= j
  BY DEF Less
<1> QED BY <1>2, <1>3, Zenon

(* Sane holds in every state. *)
LEMMA AlwaysSane == Spec => []Sane
<1>1. Sane /\ [Next]_vars => Sane'
  BY SaneStep, NatWellOrdered
<1> QED BY <1>1, InitSane, PTL DEF Spec

(* The book never holds a command that neither the log nor a snapshot has,
   whatever fails: a start after it finds a beginning of the history and the
   matching thread applies nothing whose append did not return. *)
THEOREM BookNeverAhead == Spec => []NeverAhead
<1>1. Sane => NeverAhead
  <2>1. SUFFICES ASSUME Sane, Running PROVE IsPrefixOf(book, history)
    BY DEF NeverAhead
  <2>2. history \in Seq(Nat) /\ Len(history) \in Nat
        /\ pc \in {"up", "logged", "snapshot", "truncate"}
    BY <2>1, SeqLast DEF Sane, TypeInv, Running
  <2>3. \E n \in 0 .. Len(history) : book = SubSeq(history, 1, n)
    <3>1. CASE pc = "logged"
      <4>1. history # <<>> /\ book = SubSeq(history, 1, Len(history) - 1)
        BY <2>1, <3>1 DEF Sane, BookInv
      <4>2. Len(history) - 1 \in 0 .. Len(history)
        BY <2>2, <4>1, SeqLast
      <4> QED BY <4>1, <4>2
    <3>2. CASE pc # "logged"
      <4>1. book = history
        BY <2>1, <2>2, <3>2 DEF Sane, BookInv
      <4>2. SubSeq(history, 1, Len(history)) = history /\ Len(history) \in 0 .. Len(history)
        BY <2>2
      <4> QED BY <4>1, <4>2, Zenon
    <3> QED BY <3>1, <3>2
  <2>4. PICK n \in 0 .. Len(history) : book = SubSeq(history, 1, n)
    BY <2>3
  <2>5. Len(book) = n
    BY <2>2, <2>4, SeqFirst
  <2> QED BY <2>2, <2>4, <2>5 DEF IsPrefixOf
<1> QED BY <1>1, AlwaysSane, PTL

(* SafeInv holds in every state. *)
LEMMA AlwaysSafe == Spec => []SafeInv
<1>1. Init => SafeInv
  BY InitA, NatWellOrdered DEF SafeInv
<1>2. Sane /\ FilesInv /\ SafeInv /\ [Next]_vars => SafeInv'
  BY SafeStep, NatWellOrdered, Zenon
<1> QED BY <1>1, <1>2, AlwaysSane, AlwaysFiles, PTL DEF Spec

(* The gateway starts again whatever happens to its process: the log its own
   appends and truncations leave never has a gap. *)
THEOREM NeverRefusesItsOwnLog == Spec => []NeverRefused
<1>1. SafeInv => NeverRefused
  BY DEF SafeInv, LogSafe, AInv, ThreadA, NeverRefused, OnlyProcessFaults
<1> QED BY <1>1, AlwaysSafe, PTL

(* A start from .prev gives what a start from the newest snapshot gives: no
   truncation drops a record that only the newest snapshot covers. *)
THEOREM PrevAlwaysSuffices == Spec => []PrevSuffices
<1>1. Sane /\ SafeInv => PrevSuffices
  <2>1. SUFFICES ASSUME Sane, SafeInv, OnlyProcessFaults, snap.ok, prev.ok
                 PROVE  Rebuild(prev, wal) = Rebuild(snap, wal)
    BY DEF PrevSuffices
  <2>2. AInv /\ snap \in File /\ prev \in File
    BY <2>1, Zenon DEF SafeInv, LogSafe, OnlyProcessFaults, Sane, TypeInv
  <2>3. Whole(snap, wal, history) /\ Whole(prev, wal, history)
    BY <2>1, <2>2 DEF AInv, DiskA, Complete
  <2> QED BY <2>1, <2>2, <2>3, WholeIsRebuilt, NatWellOrdered, Zenon
<1> QED BY <1>1, AlwaysSane, AlwaysSafe, PTL

(* A process that is killed loses nothing: after crashes, stops and failed
   snapshots and truncations, a start finds every command whose record was
   written, in order. *)
THEOREM ProcessCrashLosesNothing == Spec => RecoversWhatWasLogged
<1>1. Sane /\ FilesInv /\ SafeInv /\ [Next]_vars
        => (OnlyProcessFaults /\ pc = "down" /\ pc' = "up" => Recovered)
  <2>1. SUFFICES ASSUME Sane, FilesInv, SafeInv, [Next]_vars, OnlyProcessFaults, pc = "down",
                        pc' = "up"
                 PROVE  Recovered
    OBVIOUS
  <2>2. LogSafe /\ NoDamage
    BY <2>1 DEF LogSafe, NoDamage, OnlyProcessFaults, ProcessFaults
  <2> QED BY <2>1, <2>2, OnlyRestart, RecoversA, NatWellOrdered, Zenon DEF SafeInv
<1>2. Sane /\ FilesInv /\ SafeInv /\ [Next]_vars
        => [OnlyProcessFaults /\ pc = "down" /\ pc' = "up" => Recovered]_vars
  BY <1>1, Zenon
<1> QED BY <1>2, AlwaysSane, AlwaysFiles, AlwaysSafe, PTL DEF Spec, RecoversWhatWasLogged

(* AnyInv holds in every state. *)
LEMMA AlwaysAny == Spec => []AnyInv
<1>1. Init => AnyInv
  BY InitB, NatWellOrdered DEF AnyInv
<1>2. Sane /\ FilesInv /\ AnyInv /\ [Next]_vars => AnyInv'
  BY AnyStep, NatWellOrdered
<1> QED BY <1>1, <1>2, AlwaysSane, AlwaysFiles, PTL DEF Spec

(* Whatever fails, a start that reads all of the log but a torn end, from a
   snapshot that can be read, finds a beginning of the commands written, with
   all that an fsync or a snapshot covered when the machine failed, and all
   that was written when only the process did. *)
THEOREM DurableIsRecovered == Spec => RecoversWhatIsDurable
<1>1. Sane /\ FilesInv /\ SafeInv /\ AnyInv /\ [Next]_vars
        => (pc = "down" /\ pc' = "up" /\ OnlyTailLost /\ SnapshotsUsable => Recovered)
  <2>1. SUFFICES ASSUME Sane, FilesInv, SafeInv, AnyInv, [Next]_vars,
                        pc = "down", pc' = "up", OnlyTailLost, SnapshotsUsable
                 PROVE  Recovered
    OBVIOUS
  <2>2. Restart
    BY <2>1, OnlyRestart
  <2>3. CASE NoDamage
    BY <2>1, <2>2, <2>3, RecoversB, NatWellOrdered, Zenon DEF AnyInv
  <2>4. CASE ~NoDamage
    <3>1. LogSafe /\ (snap.ok \/ prev.ok)
      BY <2>1, <2>4 DEF SnapshotsUsable, NoDamage, LogSafe
    <3> QED BY <2>1, <2>2, <3>1, RecoversA, NatWellOrdered, Zenon DEF SafeInv
  <2> QED BY <2>3, <2>4
<1>2. Sane /\ FilesInv /\ SafeInv /\ AnyInv /\ [Next]_vars
        => [pc = "down" /\ pc' = "up" /\ OnlyTailLost /\ SnapshotsUsable => Recovered]_vars
  BY <1>1
<1> QED BY <1>2, AlwaysSane, AlwaysFiles, AlwaysSafe, AlwaysAny, PTL DEF Spec, RecoversWhatIsDurable
=============================================================================
