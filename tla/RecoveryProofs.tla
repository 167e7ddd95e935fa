--------------------------- MODULE RecoveryProofs ---------------------------
(***************************************************************************)
(* What a start finds, for every snapshot interval and group commit and    *)
(* any number of commands and faults.                                      *)
(*                                                                         *)
(* A start from a file f and the records of the log that can be read gives *)
(* what f holds and then the records f has not (Reach, Fits).  While       *)
(* nothing has torn or cut the log (AInv) a start from either snapshot     *)
(* gives the whole history.  That needs the numbers of the records: the    *)
(* thread's own is never behind the log or the snapshot, and a truncation  *)
(* cuts behind both snapshots.  What is left when the machine itself fails *)
(* is in DurabilityProofs.                                                 *)
(***************************************************************************)
EXTENDS Recovery, TLAPS

(* Every set of numbers has a least one.  The lemmas that look for the first
   record that cannot be read, or go through a log record by record, assume it by
   name: the library's theorems on well-founded orders, from which it follows,
   are only brought in where the theorems are (DurabilityProofs). *)
WellOrdered == \A T \in SUBSET Nat : T # {} => \E i \in T : \A j \in T : i <= j

(* A snapshot file, or what is left of one. *)
File == [last_seq : Nat, book : Seq(Nat), ok : BOOLEAN]

(* The first n records are without a tear or a gap, and read_wal stops there. *)
Good(log, n) ==
  \A i \in 1 .. n : log[i] # Torn /\ (i > 1 => log[i].seq = log[i - 1].seq + 1)
Stops(log, n) ==
  n < Len(log) => log[n + 1] = Torn \/ (n > 0 /\ log[n + 1].seq # log[n].seq + 1)

(* How many of the first n records a start from f has no use for, how many
   commands f has, and how many a start finds in both. *)
Skip(f, log, n) ==
  IF n = 0 \/ ~f.ok THEN 0 ELSE Lesser(n, Larger(0, f.last_seq - log[1].seq + 1))
Held(f) == IF f.ok THEN Len(f.book) ELSE 0
Reach(f, log, n) == Held(f) + (n - Skip(f, log, n))

(* What f and the first n records hold is a beginning of the history. *)
Fits(f, log, n, hist) ==
  /\ Reach(f, log, n) <= Len(hist)
  /\ \A i \in 1 .. Held(f) : f.book[i] = hist[i]
  /\ \A j \in 1 .. n - Skip(f, log, n) : log[Skip(f, log, n) + j].cmd = hist[Held(f) + j]
-----------------------------------------------------------------------------
(* Sequences: one more element. *)
LEMMA SeqAppend ==
  ASSUME NEW S, NEW s \in Seq(S), NEW e \in S
  PROVE  /\ Append(s, e) \in Seq(S) /\ Len(s) \in Nat /\ Len(Append(s, e)) = Len(s) + 1
         /\ Append(s, e)[Len(s) + 1] = e
         /\ \A k \in 1 .. Len(s) : Append(s, e)[k] = s[k] /\ s[k] \in S
  OBVIOUS

(* A beginning. *)
LEMMA SeqFirst ==
  ASSUME NEW S, NEW s \in Seq(S), NEW n \in 0 .. Len(s)
  PROVE  /\ SubSeq(s, 1, n) \in Seq(S) /\ Len(SubSeq(s, 1, n)) = n
         /\ \A k \in 1 .. n : SubSeq(s, 1, n)[k] = s[k] /\ s[k] \in S
  OBVIOUS

(* What is left after the first a elements. *)
LEMMA SeqRest ==
  ASSUME NEW S, NEW s \in Seq(S), NEW a \in Nat
  PROVE  LET n == Len(s) IN
         /\ SubSeq(s, a + 1, n) \in Seq(S)
         /\ Len(SubSeq(s, a + 1, n)) = IF a <= n THEN n - a ELSE 0
         /\ \A k \in 1 .. n - a : SubSeq(s, a + 1, n)[k] = s[a + k] /\ s[a + k] \in S
  OBVIOUS

(* Two sequences are the same. *)
LEMMA SeqSame ==
  ASSUME NEW S, NEW s \in Seq(S), NEW t \in Seq(S), Len(s) = Len(t),
         \A k \in 1 .. Len(s) : s[k] = t[k]
  PROVE  s = t
  OBVIOUS

(* Two sequences end to end. *)
LEMMA SeqJoin ==
  ASSUME NEW S, NEW s \in Seq(S), NEW t \in Seq(S)
  PROVE  /\ s \o t \in Seq(S) /\ Len(s) \in Nat /\ Len(t) \in Nat /\ Len(s \o t) = Len(s) + Len(t)
         /\ \A k \in 1 .. Len(s) : (s \o t)[k] = s[k]
         /\ \A k \in 1 .. Len(t) : (s \o t)[Len(s) + k] = t[k]
  OBVIOUS

(* The records of a log. *)
LEMMA Records ==
  ASSUME NEW log \in Seq(Record)
  PROVE  /\ Len(log) \in Nat
         /\ \A k \in 1 .. Len(log) : log[k] \in Record /\ log[k].seq \in Nat /\ log[k].cmd \in Nat
<1>1. Len(log) \in Nat /\ \A k \in 1 .. Len(log) : log[k] \in Record
  OBVIOUS
<1> QED BY <1>1 DEF Record

(* The same, for a set that is known to be one of numbers. *)
LEMMA LeastExists ==
  ASSUME WellOrdered, NEW T, T \subseteq Nat, T # {}
  PROVE  \E i \in T : \A j \in T : i <= j
  BY DEF WellOrdered
-----------------------------------------------------------------------------
(* read_wal stops at one place only. *)
LEMMA IntactIs ==
  ASSUME NEW log \in Seq(Record), NEW n \in 0 .. Len(log), Good(log, n), Stops(log, n)
  PROVE  Intact(log) = n
<1>1. Len(log) \in Nat
  OBVIOUS
<1>2. ASSUME NEW k \in 0 .. Len(log), Good(log, k), Stops(log, k) PROVE k = n
  <2>1. ASSUME k < n PROVE FALSE
    <3>1. k + 1 \in 1 .. n /\ k < Len(log) /\ (k > 0 => k + 1 > 1 /\ k + 1 - 1 = k)
      BY <1>1, <2>1
    <3> QED BY <1>1, <1>2, <3>1 DEF Good, Stops
  <2>2. ASSUME n < k PROVE FALSE
    <3>1. n + 1 \in 1 .. k /\ n < Len(log) /\ (n > 0 => n + 1 > 1 /\ n + 1 - 1 = n)
      BY <1>1, <2>2
    <3> QED BY <1>1, <1>2, <3>1 DEF Good, Stops
  <2> QED BY <1>1, <2>1, <2>2
<1> QED BY <1>2, Zenon DEF Intact, Good, Stops

(* There is such a place. *)
LEMMA IntactExists ==
  ASSUME WellOrdered, NEW log \in Seq(Record)
  PROVE  /\ Intact(log) \in 0 .. Len(log) /\ Len(log) \in Nat
         /\ Good(log, Intact(log)) /\ Stops(log, Intact(log))
<1> DEFINE Bad == {n \in 1 .. Len(log) : ~Good(log, n)}
<1>1. Len(log) \in Nat
  OBVIOUS
<1>2. \E n \in 0 .. Len(log) : Good(log, n) /\ Stops(log, n)
  <2>1. CASE Bad = {}
    <3>1. Good(log, Len(log))
      <4>1. CASE Len(log) = 0
        BY <4>1 DEF Good
      <4>2. CASE Len(log) # 0
        BY <1>1, <2>1, <4>2
      <4> QED BY <4>1, <4>2
    <3>2. Stops(log, Len(log)) /\ Len(log) \in 0 .. Len(log)
      BY <1>1 DEF Stops
    <3> QED BY <3>1, <3>2
  <2>2. CASE Bad # {}
    <3>1. PICK n \in Bad : \A k \in Bad : n <= k
      <4>1. Bad \subseteq Nat
        OBVIOUS
      <4> HIDE DEF Bad
      <4> QED BY <2>2, <4>1, LeastExists, Zenon
    <3>2. n \in 1 .. Len(log) /\ ~Good(log, n)
      BY <3>1
    <3>3. Good(log, n - 1)
      <4>1. CASE n = 1
        BY <4>1 DEF Good
      <4>2. CASE n # 1
        <5>1. n - 1 \in 1 .. Len(log) /\ ~(n <= n - 1)
          BY <1>1, <3>2, <4>2
        <5> QED BY <3>1, <5>1
      <4> QED BY <4>1, <4>2
    <3>4. Stops(log, n - 1)
      <4>1. n - 1 + 1 = n /\ (n - 1 > 0 <=> n > 1)
        BY <3>2
      <4>2. \A i \in 1 .. n : i \in 1 .. n - 1 \/ i = n
        BY <3>2
      <4>3. log[n] = Torn \/ (n > 1 /\ log[n].seq # log[n - 1].seq + 1)
        BY <3>2, <3>3, <4>2 DEF Good
      <4> QED BY <4>1, <4>3 DEF Stops
    <3>5. n - 1 \in 0 .. Len(log)
      BY <1>1, <3>2
    <3> QED BY <3>3, <3>4, <3>5
  <2> QED BY <2>1, <2>2
<1>3. PICK n \in 0 .. Len(log) : Good(log, n) /\ Stops(log, n)
  BY <1>2
<1> QED BY <1>1, <1>3, IntactIs

(* Two logs that begin alike are intact as far. *)
LEMMA GoodAlike ==
  ASSUME NEW log, NEW other, NEW n \in Nat, \A i \in 1 .. n : other[i] = log[i]
  PROVE  Good(log, n) <=> Good(other, n)
<1>1. \A i \in 1 .. n : i > 1 => i - 1 \in 1 .. n
  OBVIOUS
<1> QED BY <1>1 DEF Good

(* One more record is read if nothing is lost before it and it follows. *)
LEMMA IntactAppend ==
  ASSUME WellOrdered, NEW log \in Seq(Record), NEW r \in Record
  PROVE  LET n == Len(log)
             follows == r # Torn /\ (n = 0 \/ r.seq = log[n].seq + 1)
         IN  Intact(Append(log, r)) = IF Intact(log) = n /\ follows THEN n + 1 ELSE Intact(log)
<1> DEFINE n == Len(log)
           follows == r # Torn /\ (n = 0 \/ r.seq = log[n].seq + 1)
           new == Append(log, r)
           k == Intact(log)
<1>1. /\ n \in Nat /\ k \in 0 .. n /\ Good(log, k) /\ Stops(log, k)
  BY IntactExists
<1>2. new \in Seq(Record) /\ Len(new) = n + 1 /\ new[n + 1] = r /\ \A i \in 1 .. n : new[i] = log[i]
  BY SeqAppend
<1> HIDE DEF new, k, n
<1>3. Good(new, k)
  <2>1. k \in Nat /\ \A i \in 1 .. k : new[i] = log[i]
    BY <1>1, <1>2
  <2> QED BY <1>1, <2>1, GoodAlike
<1>4. CASE k = n /\ follows
  <2>1. Good(new, n + 1)
    <3>1. SUFFICES ASSUME NEW i \in 1 .. n + 1
                   PROVE  new[i] # Torn /\ (i > 1 => new[i].seq = new[i - 1].seq + 1)
      BY DEF Good
    <3>2. CASE i \in 1 .. n
      BY <1>3, <1>4, <3>2 DEF Good
    <3>3. CASE i = n + 1
      <4>1. i > 1 => i - 1 = n /\ n \in 1 .. n /\ n # 0
        BY <1>1, <3>3
      <4> QED BY <1>2, <1>4, <3>3, <4>1
    <3> QED BY <1>1, <3>2, <3>3
  <2>2. Stops(new, n + 1) /\ n + 1 \in 0 .. Len(new)
    BY <1>1, <1>2 DEF Stops
  <2> QED BY <1>2, <1>4, <2>1, <2>2, IntactIs, Zenon DEF k, n, new
<1>5. CASE ~(k = n /\ follows)
  <2>1. Stops(new, k)
    <3>1. CASE k < n
      <4>1. k + 1 \in 1 .. n /\ (k > 0 => k \in 1 .. n)
        BY <1>1, <3>1
      <4> QED BY <1>1, <1>2, <3>1, <4>1 DEF Stops, n
    <3>2. CASE k = n
      <4>1. n # 0 => n \in 1 .. n /\ n > 0
        BY <1>1
      <4> QED BY <1>2, <1>5, <3>2, <4>1 DEF Stops
    <3> QED BY <1>1, <3>1, <3>2
  <2>2. k \in 0 .. Len(new)
    BY <1>1, <1>2
  <2> QED BY <1>2, <1>3, <1>5, <2>1, <2>2, IntactIs, Zenon DEF k, n, new
<1> QED BY <1>4, <1>5 DEF k, n, new

(* What a cut leaves of it. *)
LEMMA IntactCut ==
  ASSUME WellOrdered, NEW log \in Seq(Record), NEW n \in 0 .. Len(log)
  PROVE  Intact(SubSeq(log, 1, n)) = Lesser(n, Intact(log))
<1> DEFINE new == SubSeq(log, 1, n)
           k == Intact(log)
           m == Lesser(n, k)
<1>1. Len(log) \in Nat /\ k \in 0 .. Len(log) /\ Good(log, k) /\ Stops(log, k)
  BY IntactExists
<1>2. new \in Seq(Record) /\ Len(new) = n /\ \A i \in 1 .. n : new[i] = log[i]
  BY SeqFirst
<1> HIDE DEF new, k
<1>3. m \in Nat /\ m <= n /\ m <= k /\ (m = n \/ m = k)
  BY <1>1 DEF Lesser
<1> HIDE DEF m
<1>4. Good(log, m)
  BY <1>1, <1>3 DEF Good
<1>5. Good(new, m)
  <2>1. \A i \in 1 .. m : new[i] = log[i]
    BY <1>2, <1>3
  <2> QED BY <1>3, <1>4, <2>1, GoodAlike
<1>6. Stops(new, m)
  <2>1. SUFFICES ASSUME m < n PROVE new[m + 1] = Torn \/ (m > 0 /\ new[m + 1].seq # new[m].seq + 1)
    BY <1>2 DEF Stops
  <2>2. m = k /\ m + 1 \in 1 .. n /\ (m > 0 => m \in 1 .. n) /\ m < Len(log)
    BY <1>1, <1>3, <2>1
  <2> QED BY <1>1, <1>2, <2>2 DEF Stops
<1>7. m \in 0 .. Len(new)
  BY <1>2, <1>3
<1> QED BY <1>2, <1>5, <1>6, <1>7, IntactIs, Zenon DEF new, m, k

(* The numbers of the intact records follow one another. *)
LEMMA Numbered ==
  ASSUME WellOrdered, NEW log \in Seq(Record), NEW n \in 0 .. Len(log), Good(log, n),
         NEW i \in 1 .. n
  PROVE  log[i].seq = log[1].seq + (i - 1)
<1> DEFINE Bad == {k \in 1 .. n : log[k].seq # log[1].seq + (k - 1)}
<1>1. Len(log) \in Nat /\ \A k \in 1 .. Len(log) : log[k].seq \in Nat
  BY Records
<1>2. SUFFICES ASSUME Bad # {} PROVE FALSE
  OBVIOUS
<1>3. PICK k \in Bad : \A j \in Bad : k <= j
  <2>1. Bad \subseteq Nat
    OBVIOUS
  <2> HIDE DEF Bad
  <2> QED BY <1>2, <2>1, LeastExists, Zenon
<1>4. k \in 1 .. n /\ log[k].seq # log[1].seq + (k - 1)
  BY <1>3
<1>5. k # 1
  BY <1>1, <1>4
<1>6. k - 1 \in 1 .. n /\ k > 1 /\ k - 1 \notin Bad
  BY <1>3, <1>4, <1>5
<1>7. log[k - 1].seq = log[1].seq + (k - 1 - 1)
  BY <1>6
<1>8. log[k].seq = log[k - 1].seq + 1
  BY <1>4, <1>6 DEF Good
<1>9. k \in 1 .. Len(log) /\ k - 1 \in 1 .. Len(log) /\ 1 \in 1 .. Len(log)
  BY <1>1, <1>4, <1>6
<1> QED BY <1>1, <1>4, <1>7, <1>8, <1>9
-----------------------------------------------------------------------------
(* The fields of a file. *)
LEMMA Fields ==
  ASSUME NEW f \in File
  PROVE  /\ f.last_seq \in Nat /\ f.book \in Seq(Nat) /\ f.ok \in BOOLEAN
         /\ Len(f.book) \in Nat /\ Held(f) \in Nat
<1>1. f.last_seq \in Nat /\ f.book \in Seq(Nat) /\ f.ok \in BOOLEAN
  BY DEF File
<1>2. Len(f.book) \in Nat
  BY <1>1
<1> QED BY <1>1, <1>2 DEF Held

(* How much is skipped: up to some place, the same for every n. *)
LEMMA SkipIs ==
  ASSUME NEW f \in File, NEW log \in Seq(Record)
  PROVE  \E x \in Nat : \A n \in 0 .. Len(log) : Skip(f, log, n) = Lesser(n, x)
<1>1. Len(log) \in Nat /\ (Len(log) > 0 => log[1].seq \in Nat)
  BY Records
<1>2. CASE f.ok /\ Len(log) > 0
  <2> DEFINE x == Larger(0, f.last_seq - log[1].seq + 1)
  <2>1. x \in Nat
    BY <1>1, <1>2, Fields DEF Larger
  <2> HIDE DEF x
  <2>2. \A n \in 0 .. Len(log) : Skip(f, log, n) = Lesser(n, x)
    BY <1>1, <1>2, <2>1 DEF Skip, Lesser, x
  <2> QED BY <2>1, <2>2
<1>3. CASE ~(f.ok /\ Len(log) > 0)
  <2>1. \A n \in 0 .. Len(log) : Skip(f, log, n) = Lesser(n, 0)
    BY <1>1, <1>3 DEF Skip, Lesser
  <2> QED BY <2>1
<1> QED BY <1>2, <1>3

(* A start from f finds no more in a beginning of the log than in the whole. *)
LEMMA FitsCut ==
  ASSUME NEW f \in File, NEW log \in Seq(Record), NEW n \in 0 .. Len(log), NEW m \in 0 .. n
  PROVE  /\ Skip(f, log, n) \in 0 .. n /\ Reach(f, log, n) \in Nat /\ Reach(f, log, m) \in Nat
         /\ Held(f) <= Reach(f, log, m) /\ Reach(f, log, m) <= Reach(f, log, n)
         /\ \A hist : Len(hist) \in Nat /\ Fits(f, log, n, hist) => Fits(f, log, m, hist)
<1>1. Len(log) \in Nat /\ m \in 0 .. Len(log) /\ Held(f) \in Nat
  BY Records, Fields
<1>2. PICK x \in Nat : \A k \in 0 .. Len(log) : Skip(f, log, k) = Lesser(k, x)
  BY SkipIs
<1>3. Skip(f, log, n) = Lesser(n, x) /\ Skip(f, log, m) = Lesser(m, x)
  BY <1>1, <1>2
<1>4. /\ Skip(f, log, n) \in 0 .. n /\ Reach(f, log, n) \in Nat /\ Reach(f, log, m) \in Nat
      /\ Held(f) <= Reach(f, log, m) /\ Reach(f, log, m) <= Reach(f, log, n)
  BY <1>1, <1>3 DEF Reach, Lesser
<1>5. ASSUME NEW j \in 1 .. m - Skip(f, log, m)
      PROVE  Skip(f, log, m) = Skip(f, log, n) /\ j \in 1 .. n - Skip(f, log, n)
  BY <1>1, <1>3 DEF Lesser
<1>6. ASSUME NEW hist, Len(hist) \in Nat, Fits(f, log, n, hist) PROVE Fits(f, log, m, hist)
  BY <1>4, <1>5, <1>6 DEF Fits
<1> QED BY <1>4, <1>6

(* Only the first n records matter, and the history may grow. *)
LEMMA FitsAlike ==
  ASSUME NEW f \in File, NEW log \in Seq(Record), NEW other \in Seq(Record),
         NEW n \in 0 .. Len(log), n <= Len(other), \A i \in 1 .. n : other[i] = log[i]
  PROVE  /\ Skip(f, other, n) = Skip(f, log, n) /\ Reach(f, other, n) = Reach(f, log, n)
         /\ \A hist, more : /\ Fits(f, log, n, hist) /\ Len(hist) \in Nat /\ Len(more) \in Nat
                            /\ Len(hist) <= Len(more)
                            /\ \A i \in 1 .. Len(hist) : more[i] = hist[i]
                            => Fits(f, other, n, more)
<1>1. Len(log) \in Nat /\ Held(f) \in Nat
  BY Records, Fields
<1>2. Skip(f, other, n) = Skip(f, log, n)
  <2>1. n # 0 => other[1] = log[1]
    BY <1>1
  <2> QED BY <2>1 DEF Skip
<1>3. Reach(f, other, n) = Reach(f, log, n)
  BY <1>2 DEF Reach
<1>4. Skip(f, log, n) \in 0 .. n
  BY <1>1, FitsCut
<1>5. ASSUME NEW hist, NEW more, Fits(f, log, n, hist), Len(hist) \in Nat, Len(more) \in Nat,
             Len(hist) <= Len(more), \A i \in 1 .. Len(hist) : more[i] = hist[i]
      PROVE  Fits(f, other, n, more)
  <2> DEFINE s == Skip(f, log, n)
             h == Held(f)
  <2>1. h + (n - s) <= Len(hist) /\ s \in 0 .. n /\ h \in Nat
    BY <1>1, <1>4, <1>5 DEF Fits, Reach
  <2>2. /\ \A i \in 1 .. h : f.book[i] = hist[i]
        /\ \A j \in 1 .. n - s : log[s + j].cmd = hist[h + j]
    BY <1>5 DEF Fits
  <2> HIDE DEF s, h
  <2>3. ASSUME NEW i \in 1 .. h PROVE f.book[i] = more[i]
    <3>1. i \in 1 .. Len(hist)
      BY <1>5, <2>1
    <3> QED BY <1>5, <2>2, <3>1
  <2>4. ASSUME NEW j \in 1 .. n - s PROVE other[s + j].cmd = more[h + j]
    <3>1. h + j \in 1 .. Len(hist) /\ s + j \in 1 .. n
      BY <1>1, <1>5, <2>1
    <3> QED BY <1>5, <2>2, <3>1
  <2>5. h + (n - s) <= Len(more)
    BY <1>1, <1>5, <2>1
  <2> QED BY <1>2, <1>3, <2>3, <2>4, <2>5 DEF Fits, Reach, s, h
<1> QED BY <1>2, <1>3, <1>5

(* What truncate_before keeps: all but the first a records. *)
LEMMA AboveIs ==
  ASSUME NEW R \in Seq(Record), NEW k \in Nat
  PROVE  LET n == Len(R)
         IN  \E a \in 0 .. n :
               /\ Above(R, k) \in Seq(Record) /\ Len(Above(R, k)) = n - a
               /\ \A i \in 1 .. n - a : Above(R, k)[i] = R[a + i]
               /\ n > 0 => a = Lesser(n, Larger(0, k - R[1].seq + 1))
<1> DEFINE n == Len(R)
           first == IF n = 0 THEN 0 ELSE R[1].seq
           b == Larger(0, k - first + 1)
           a == Lesser(n, b)
<1>1. n \in Nat /\ first \in Nat
  BY Records
<1>2. b \in Nat /\ Larger(1, k - first + 2) = b + 1
  <2> HIDE DEF first
  <2> QED BY <1>1 DEF Larger
<1>3. Above(R, k) = SubSeq(R, b + 1, n)
  BY <1>2, Zenon DEF Above
<1> HIDE DEF b, n
<1>4. a \in 0 .. n /\ (IF b <= n THEN n - b ELSE 0) = n - a
  BY <1>1, <1>2 DEF Lesser
<1>5. /\ SubSeq(R, b + 1, n) \in Seq(Record)
      /\ Len(SubSeq(R, b + 1, n)) = IF b <= n THEN n - b ELSE 0
      /\ \A i \in 1 .. n - b : SubSeq(R, b + 1, n)[i] = R[b + i]
  BY <1>2, SeqRest, Zenon DEF n
<1>6. \A i \in 1 .. n - a : b = a /\ i \in 1 .. n - b
  BY <1>1, <1>2 DEF Lesser
<1>7. n > 0 => a = Lesser(n, Larger(0, k - R[1].seq + 1))
  BY DEF b
<1> HIDE DEF a
<1>8. /\ Above(R, k) \in Seq(Record) /\ Len(Above(R, k)) = n - a
      /\ \A i \in 1 .. n - a : Above(R, k)[i] = R[a + i]
  BY <1>3, <1>4, <1>5, <1>6, Zenon
<1> QED BY <1>4, <1>7, <1>8 DEF n

(* The intact records, as read_wal returns them. *)
LEMMA ReadIs ==
  ASSUME WellOrdered, NEW log \in Seq(Record)
  PROVE  LET R == read_wal(log).records
             n == Intact(log)
         IN  /\ R \in Seq(Record) /\ Len(R) = n /\ n \in 0 .. Len(log)
             /\ \A i \in 1 .. n : R[i] = log[i]
             /\ read_wal(log).last_seq = IF n = 0 THEN 0 ELSE log[n].seq
             /\ read_wal(log).sequence_gap = (n < Len(log) /\ log[n + 1] # Torn)
<1>1. Intact(log) \in 0 .. Len(log)
  BY IntactExists
<1>2. /\ read_wal(log).records = SubSeq(log, 1, Intact(log))
      /\ read_wal(log).last_seq = IF Intact(log) = 0 THEN 0 ELSE log[Intact(log)].seq
      /\ read_wal(log).sequence_gap = (Intact(log) < Len(log) /\ log[Intact(log) + 1] # Torn)
  BY Zenon DEF read_wal
<1>3. /\ SubSeq(log, 1, Intact(log)) \in Seq(Record)
      /\ Len(SubSeq(log, 1, Intact(log))) = Intact(log)
      /\ \A i \in 1 .. Intact(log) : SubSeq(log, 1, Intact(log))[i] = log[i]
  BY <1>1, SeqFirst
<1> QED BY <1>1, <1>2, <1>3, Zenon

(* The commands of some records. *)
LEMMA CmdsAre ==
  ASSUME NEW R \in Seq(Record)
  PROVE  /\ CmdsOf(R) \in Seq(Nat) /\ Len(CmdsOf(R)) = Len(R)
         /\ \A i \in 1 .. Len(R) : CmdsOf(R)[i] = R[i].cmd
<1>1. Len(R) \in Nat /\ \A i \in 1 .. Len(R) : R[i].cmd \in Nat
  BY Records
<1> QED BY <1>1 DEF CmdsOf

(* What a start from f rebuilds. *)
LEMMA RebuildIs ==
  ASSUME WellOrdered, NEW f \in File, NEW log \in Seq(Record)
  PROVE  LET n == Intact(log)
             new == Rebuild(f, log)
         IN  new \in Seq(Nat) /\ Len(new) = Reach(f, log, n) /\ Fits(f, log, n, new)
<1> DEFINE n == Intact(log)
           R == read_wal(log).records
           new == Rebuild(f, log)
           h == Held(f)
           a == Skip(f, log, n)
<1>1. R \in Seq(Record) /\ Len(R) = n /\ n \in 0 .. Len(log) /\ \A i \in 1 .. n : R[i] = log[i]
  BY ReadIs
<1>2. f.last_seq \in Nat /\ f.book \in Seq(Nat) /\ Len(f.book) \in Nat /\ h \in Nat
  BY Fields
<1> HIDE DEF R, n
<1>3. n \in Nat /\ a \in 0 .. n
  BY <1>1, Records, FitsCut
<1>4. CASE f.ok
  <2> DEFINE T == Above(R, f.last_seq)
             cmds == CmdsOf(T)
  <2>1. PICK x \in 0 .. n :
          /\ T \in Seq(Record) /\ Len(T) = n - x
          /\ \A i \in 1 .. n - x : T[i] = R[x + i]
          /\ n > 0 => x = Lesser(n, Larger(0, f.last_seq - R[1].seq + 1))
    BY <1>1, <1>2, AboveIs, Zenon
  <2>2. x = a
    <3>1. CASE n = 0
      BY <2>1, <3>1 DEF Skip
    <3>2. CASE n # 0
      <4>1. n > 0 /\ R[1] = log[1]
        BY <1>1, <1>3, <3>2
      <4> QED BY <1>4, <2>1, <3>2, <4>1 DEF Skip
    <3> QED BY <3>1, <3>2
  <2> HIDE DEF T, a
  <2>3. cmds \in Seq(Nat) /\ Len(cmds) = n - a /\ \A i \in 1 .. n - a : cmds[i] = log[a + i].cmd
    <3>1. cmds \in Seq(Nat) /\ Len(cmds) = Len(T) /\ \A i \in 1 .. Len(T) : cmds[i] = T[i].cmd
      BY <2>1, CmdsAre, Zenon
    <3>2. \A i \in 1 .. n - a : a + i \in 1 .. n
      BY <1>3
    <3> HIDE DEF cmds
    <3> QED BY <1>1, <2>1, <2>2, <3>1, <3>2
  <2>4. new = f.book \o cmds /\ h = Len(f.book)
    BY <1>4, Zenon DEF Rebuild, R, T, Held
  <2> HIDE DEF cmds, h, new
  <2>5. /\ new \in Seq(Nat) /\ Len(new) = h + (n - a)
        /\ \A k \in 1 .. h : new[k] = f.book[k]
        /\ \A k \in 1 .. n - a : new[h + k] = cmds[k]
    <3>1. PICK b \in Seq(Nat) : b = f.book
      BY <1>2
    <3>2. PICK c \in Seq(Nat) : c = cmds
      BY <2>3
    <3>3. /\ b \o c \in Seq(Nat) /\ Len(b \o c) = Len(b) + Len(c)
          /\ \A k \in 1 .. Len(b) : (b \o c)[k] = b[k]
          /\ \A k \in 1 .. Len(c) : (b \o c)[Len(b) + k] = c[k]
      BY SeqJoin
    <3> QED BY <2>3, <2>4, <3>1, <3>2, <3>3, Zenon
  <2>6. h + (n - a) <= Len(new)
    BY <1>2, <1>3, <2>5
  <2> QED BY <2>3, <2>5, <2>6, Zenon DEF Reach, Fits, h, a, n, new
<1>5. CASE ~f.ok
  <2>1. new = CmdsOf(R) /\ h = 0 /\ a = 0
    BY <1>5 DEF Rebuild, R, Held, Skip
  <2> HIDE DEF new, h, a
  <2>2. new \in Seq(Nat) /\ Len(new) = n /\ \A i \in 1 .. n : new[i] = log[i].cmd
    BY <1>1, <2>1, CmdsAre, Zenon
  <2>3. /\ Len(new) = h + (n - a) /\ h + (n - a) <= Len(new)
        /\ \A k \in 1 .. h : new[k] = f.book[k]
        /\ \A k \in 1 .. n - a : log[a + k].cmd = new[h + k]
    BY <1>3, <2>1, <2>2
  <2> QED BY <2>2, <2>3, Zenon DEF Reach, Fits, h, a, n, new
<1> QED BY <1>4, <1>5 DEF n, new

(* A start finds a beginning of the history, all of it if it finds as much. *)
LEMMA FitsPrefix ==
  ASSUME WellOrdered, NEW f \in File, NEW log \in Seq(Record), NEW hist \in Seq(Nat),
         Fits(f, log, Intact(log), hist)
  PROVE  /\ IsPrefixOf(Rebuild(f, log), hist) /\ Len(Rebuild(f, log)) = Reach(f, log, Intact(log))
         /\ Reach(f, log, Intact(log)) = Len(hist) => Rebuild(f, log) = hist
<1> DEFINE n == Intact(log)
           new == Rebuild(f, log)
           h == Held(f)
           a == Skip(f, log, n)
<1>1. new \in Seq(Nat) /\ Len(new) = Reach(f, log, n) /\ Fits(f, log, n, new)
  BY RebuildIs
<1>2. n \in 0 .. Len(log) /\ Len(log) \in Nat /\ h \in Nat /\ Len(hist) \in Nat
  BY IntactExists, Fields
<1>3. a \in 0 .. n
  BY <1>2, FitsCut
<1>4. /\ h + (n - a) <= Len(hist) /\ Len(new) = h + (n - a)
      /\ \A i \in 1 .. h : f.book[i] = hist[i] /\ f.book[i] = new[i]
      /\ \A j \in 1 .. n - a : log[a + j].cmd = hist[h + j] /\ log[a + j].cmd = new[h + j]
  BY <1>1, Zenon DEF Fits, Reach
<1> HIDE DEF n, new, h, a
<1>5. ASSUME NEW i \in 1 .. Len(new) PROVE new[i] = hist[i]
  <2>1. CASE i <= h
    BY <1>2, <1>4, <2>1
  <2>2. CASE i > h
    <3>1. i - h \in 1 .. n - a /\ h + (i - h) = i
      BY <1>2, <1>3, <1>4, <2>2
    <3> QED BY <1>4, <3>1, Zenon
  <2> QED BY <1>2, <1>3, <1>4, <2>1, <2>2
<1>6. Len(new) \in 0 .. Len(hist)
  BY <1>2, <1>3, <1>4
<1>7. /\ SubSeq(hist, 1, Len(new)) \in Seq(Nat) /\ Len(SubSeq(hist, 1, Len(new))) = Len(new)
      /\ \A i \in 1 .. Len(new) : SubSeq(hist, 1, Len(new))[i] = hist[i]
  BY <1>6, SeqFirst
<1>8. new = SubSeq(hist, 1, Len(new))
  BY <1>1, <1>5, <1>7, SeqSame
<1>9. Len(new) = Len(hist) => new = hist
  BY <1>1, <1>5, SeqSame
<1> QED BY <1>1, <1>6, <1>8, <1>9 DEF IsPrefixOf, n, new

(* A record that follows carries f and the log on with the history. *)
LEMMA FitsGrow ==
  ASSUME WellOrdered, NEW f \in File, NEW log \in Seq(Record), Good(log, Len(log)),
         NEW r \in Record, Len(log) = 0 \/ r.seq = log[Len(log)].seq + 1,
         f.ok => f.last_seq < r.seq,
         NEW hist \in Seq(Nat), Fits(f, log, Len(log), hist), Reach(f, log, Len(log)) = Len(hist)
  PROVE  LET new == Append(log, r)
             more == Append(hist, r.cmd)
         IN  Fits(f, new, Len(log) + 1, more) /\ Reach(f, new, Len(log) + 1) = Len(more)
<1> DEFINE new == Append(log, r)
           more == Append(hist, r.cmd)
           n == Len(log)
           a == Skip(f, log, n)
           h == Held(f)
<1>1. /\ f.last_seq \in Nat /\ h \in Nat /\ r.seq \in Nat /\ r.cmd \in Nat /\ n \in Nat
      /\ \A i \in 1 .. n : log[i].seq \in Nat
  BY Fields, Records, Zenon DEF Record
<1>2. new \in Seq(Record) /\ Len(new) = n + 1 /\ new[n + 1] = r /\ \A i \in 1 .. n : new[i] = log[i]
  BY SeqAppend
<1>3. /\ more \in Seq(Nat) /\ Len(hist) \in Nat /\ Len(more) = Len(hist) + 1
      /\ more[Len(hist) + 1] = r.cmd /\ \A i \in 1 .. Len(hist) : more[i] = hist[i]
  BY <1>1, SeqAppend
<1>4. a \in 0 .. n
  BY <1>1, FitsCut
<1>5. /\ h + (n - a) = Len(hist) /\ \A i \in 1 .. h : f.book[i] = hist[i]
      /\ \A j \in 1 .. n - a : log[a + j].cmd = hist[h + j]
  BY DEF Fits, Reach
<1>6. Skip(f, new, n + 1) = a
  <2> HIDE DEF new
  <2>1. CASE ~f.ok
    BY <2>1 DEF Skip
  <2>2. CASE f.ok /\ n = 0
    <3>1. new[1] = r
      BY <1>2, <2>2
    <3> QED BY <1>1, <2>2, <3>1 DEF Skip, Lesser, Larger
  <2>3. CASE f.ok /\ n # 0
    <3>1. 1 \in 1 .. n /\ n \in 1 .. n /\ n \in 0 .. Len(log)
      BY <1>1, <2>3
    <3>2. log[n].seq = log[1].seq + (n - 1)
      BY <3>1, Numbered
    <3>3. f.last_seq \in Nat /\ n \in Nat /\ n # 0
      BY <1>1, <2>3, Zenon
    <3>4. PICK q \in Nat : q = log[1].seq
      BY <1>1, <3>1, Zenon
    <3>5. f.last_seq < (q + (n - 1)) + 1
      BY <2>3, <3>2, <3>4, Zenon
    <3>6. PICK y \in Int : y = f.last_seq - q + 1
      BY <3>3
    <3>7. n + 1 # 0 /\ Lesser(n + 1, Larger(0, y)) = Lesser(n, Larger(0, y))
      BY <3>3, <3>5, <3>6 DEF Lesser, Larger
    <3> QED BY <1>2, <2>3, <3>1, <3>4, <3>6, <3>7, Zenon DEF Skip
  <2> QED BY <2>1, <2>2, <2>3
<1> HIDE DEF new, more, n, a, h
<1>12. PICK m \in Nat : m = Len(hist) /\ m = h + (n - a)
  BY <1>3, <1>5, Zenon
<1>13. n \in Nat /\ h \in Nat /\ a \in 0 .. n
  BY <1>1, <1>4, Zenon
<1>14. h + ((n + 1) - a) = m + 1 /\ \A i \in 1 .. h : i \in 1 .. m
  <2>1. m = h + (n - a)
    BY <1>12, Zenon
  <2> QED BY <1>13, <2>1
<1>7. ASSUME NEW i \in 1 .. h PROVE f.book[i] = more[i]
  <2>1. i \in 1 .. Len(hist)
    BY <1>12, <1>14, Zenon
  <2> QED BY <1>3, <1>5, <2>1, Zenon
<1>8. \A j \in 1 .. (n + 1) - a : new[a + j].cmd = more[h + j]
  <2> TAKE j \in 1 .. (n + 1) - a
  <2>1. CASE j \in 1 .. n - a
    <3>1. m = h + (n - a)
      BY <1>12, Zenon
    <3>2. a + j \in 1 .. n /\ h + j \in 1 .. m
      BY <1>13, <2>1, <3>1
    <3>3. h + j \in 1 .. Len(hist)
      BY <1>12, <3>2, Zenon
    <3> QED BY <1>2, <1>3, <1>5, <2>1, <3>2, <3>3, Zenon
  <2>2. CASE j = n + 1 - a
    <3>1. m = h + (n - a)
      BY <1>12, Zenon
    <3>2. a + j = n + 1 /\ h + j = m + 1
      BY <1>13, <2>2, <3>1
    <3>3. h + j = Len(hist) + 1
      BY <1>12, <3>2, Zenon
    <3> QED BY <1>2, <1>3, <3>2, <3>3, Zenon
  <2> QED BY <1>13, <2>1, <2>2
<1>9. Len(more) = m + 1
  BY <1>3, <1>12, Zenon
<1>10. Reach(f, new, n + 1) = Len(more)
  <2>1. Reach(f, new, n + 1) = h + ((n + 1) - Skip(f, new, n + 1))
    BY Zenon DEF Reach, h
  <2> QED BY <1>6, <1>9, <1>14, <2>1, Zenon
<1>11. Fits(f, new, n + 1, more)
  <2>1. Held(f) = h /\ Reach(f, new, n + 1) <= Len(more)
    <3>1. m + 1 <= m + 1
      OBVIOUS
    <3> QED BY <1>9, <1>10, <3>1, Zenon DEF h
  <2>2. \A i \in 1 .. Held(f) : f.book[i] = more[i]
    BY <1>7, <2>1, Zenon
  <2>3. \A j \in 1 .. (n + 1) - Skip(f, new, n + 1) :
          new[Skip(f, new, n + 1) + j].cmd = more[Held(f) + j]
    BY <1>6, <1>8, <2>1, Zenon
  <2> QED BY <2>1, <2>2, <2>3, Zenon DEF Fits
<1> QED BY <1>10, <1>11, Zenon DEF new, more, n

(* A snapshot that has everything needs nothing of the log. *)
LEMMA FitsAlone ==
  ASSUME WellOrdered, NEW f \in File, f.ok, NEW log \in Seq(Record), NEW n \in 0 .. Len(log),
         Good(log, n),
         n > 0 => log[n].seq <= f.last_seq
  PROVE  Reach(f, log, n) = Len(f.book) /\ Fits(f, log, n, f.book)
<1>1. /\ f.last_seq \in Nat /\ Len(f.book) \in Nat /\ Len(log) \in Nat
      /\ \A i \in 1 .. Len(log) : log[i].seq \in Nat
  BY Fields, Records
<1>2. Skip(f, log, n) = n
  <2>1. CASE n = 0
    BY <2>1 DEF Skip
  <2>2. CASE n # 0
    <3>1. n \in 1 .. n /\ 1 \in 1 .. Len(log)
      BY <1>1, <2>2
    <3>2. log[n].seq = log[1].seq + (n - 1)
      BY <3>1, Numbered
    <3>3. log[1].seq \in Nat /\ log[1].seq + (n - 1) <= f.last_seq
      BY <1>1, <2>2, <3>1, <3>2
    <3> QED BY <1>1, <2>2, <3>3 DEF Skip, Lesser, Larger
  <2> QED BY <2>1, <2>2
<1>3. Held(f) = Len(f.book) /\ n - n = 0
  BY DEF Held
<1>4. Reach(f, log, n) = Len(f.book)
  BY <1>1, <1>2, <1>3 DEF Reach
<1> QED BY <1>1, <1>2, <1>3, <1>4 DEF Fits

(* What truncate_before leaves of an intact log. *)
LEMMA AboveIntact ==
  ASSUME WellOrdered, NEW log \in Seq(Record), NEW n \in Nat, n = Len(log), Good(log, n),
         NEW k \in Nat
  PROVE  LET new == Above(log, k)
         IN  /\ new \in Seq(Record) /\ Good(new, Len(new)) /\ Intact(new) = Len(new)
             /\ Len(new) > 0 => n > 0 /\ new[Len(new)] = log[n]
             /\ n > 0 /\ log[n].seq > k => Len(new) > 0
<1> DEFINE new == Above(log, k)
<1>1. PICK a \in 0 .. n :
        /\ new \in Seq(Record) /\ Len(new) = n - a
        /\ \A i \in 1 .. n - a : new[i] = log[a + i]
        /\ n > 0 => a = Lesser(n, Larger(0, k - log[1].seq + 1))
  BY AboveIs, Zenon
<1> HIDE DEF new
<1>2. Good(new, Len(new))
  <2>1. SUFFICES ASSUME NEW i \in 1 .. n - a
                 PROVE  new[i] # Torn /\ (i > 1 => new[i].seq = new[i - 1].seq + 1)
    BY <1>1 DEF Good
  <2>2. /\ a + i \in 1 .. n /\ (i > 1 => i - 1 \in 1 .. n - a /\ a + i > 1)
        /\ a + (i - 1) = a + i - 1
    BY <2>1
  <2> QED BY <1>1, <2>2, SMTT(30) DEF Good
<1>3. Stops(new, Len(new)) /\ Len(new) \in 0 .. Len(new)
  BY <1>1 DEF Stops
<1>4. Intact(new) = Len(new)
  BY <1>1, <1>2, <1>3, IntactIs
<1>5. Len(new) > 0 => n > 0 /\ new[Len(new)] = log[n]
  BY <1>1
<1>6. ASSUME n > 0, log[n].seq > k PROVE Len(new) > 0
  <2>1. n \in 1 .. n /\ 1 \in 1 .. n /\ n \in 0 .. Len(log)
    BY <1>6
  <2>2. log[n].seq = log[1].seq + (n - 1)
    BY <2>1, Numbered
  <2>3. log[1].seq \in Nat
    BY <2>1, Records
  <2> QED BY <1>1, <1>6, <2>2, <2>3 DEF Lesser, Larger
<1> QED BY <1>1, <1>2, <1>4, <1>5, <1>6 DEF new

(* Leaving out what is numbered up to k of n records that start at q, and then
   what is numbered up to l, leaves out what is numbered up to l. *)
CutsAgree(n, k, l, q) ==
  LET a == Lesser(n, Larger(0, k - q + 1))
      s == Lesser(n, Larger(0, l - q + 1))
  IN  /\ a = n => s = n
      /\ Lesser(n - a, Larger(0, l - (q + a) + 1)) = s - a

(* Which it does when k is no larger than l. *)
LEMMA CutTwice == \A n, k, l, q \in Nat : k <= l => CutsAgree(n, k, l, q)
BY DEF CutsAgree, Lesser, Larger

(* There is nothing to leave out of nothing. *)
LEMMA CutNothing ==
  ASSUME NEW a \in 0 .. 0, NEW s \in 0 .. 0
  PROVE  0 - a = 0 /\ s - a = 0
<1>1. a = 0 /\ s = 0
  OBVIOUS
<1> QED BY <1>1

(* A snapshot no older than where the log is cut off loses nothing by it. *)
LEMMA FitsTruncated ==
  ASSUME WellOrdered, NEW f \in File, f.ok, NEW log \in Seq(Record), NEW n \in Nat, n = Len(log),
         Good(log, n), NEW k \in Nat, k <= f.last_seq
  PROVE  LET new == Above(log, k)
         IN  /\ Reach(f, new, Len(new)) = Reach(f, log, n)
             /\ \A hist : Fits(f, log, n, hist) => Fits(f, new, Len(new), hist)
<1> DEFINE new == Above(log, k)
           s == Skip(f, log, n)
           h == Held(f)
<1>1. PICK a \in 0 .. n :
        /\ new \in Seq(Record) /\ Len(new) = n - a
        /\ \A i \in 1 .. n - a : new[i] = log[a + i]
        /\ n > 0 => a = Lesser(n, Larger(0, k - log[1].seq + 1))
  BY AboveIs, Zenon
<1>2. f.last_seq \in Nat /\ h \in Nat /\ s \in 0 .. n
  <2>1. n \in 0 .. Len(log) /\ 0 \in 0 .. n
    OBVIOUS
  <2> QED BY <2>1, Fields, FitsCut, Zenon
<1> HIDE DEF new, s, h
<1>8. a \in 0 .. n
  BY <1>1, Zenon
<1>3. Skip(f, new, n - a) = s - a
  <2>1. CASE n = 0
    <3>1. n - a = 0 /\ s - a = 0
      BY <1>8, <1>2, <2>1, CutNothing, Zenon
    <3> QED BY <3>1, Zenon DEF Skip
  <2>2. CASE n # 0
    <3>1. 1 \in 1 .. Len(log) /\ n > 0 /\ n \in 0 .. Len(log) /\ 1 \in 1 .. n
      BY <2>2
    <3>2. log[1].seq \in Nat
      BY <3>1, Records, Zenon
    <3>6. /\ a = Lesser(n, Larger(0, k - log[1].seq + 1))
          /\ s = Lesser(n, Larger(0, f.last_seq - log[1].seq + 1))
      BY <1>1, <2>2, <3>1, Zenon DEF Skip, s
    <3>3. CutsAgree(n, k, f.last_seq, log[1].seq)
      BY <1>2, <3>2, CutTwice, Zenon
    <3>7. /\ a = n => s = n
          /\ Lesser(n - a, Larger(0, f.last_seq - (log[1].seq + a) + 1)) = s - a
      BY <3>3, <3>6, Zenon DEF CutsAgree
    <3>8. CASE a = n
      <4>1. n - n = 0
        OBVIOUS
      <4>2. n - a = 0 /\ s - a = 0
        BY <3>7, <3>8, <4>1, Zenon
      <4> QED BY <4>2, Zenon DEF Skip
    <3>9. CASE a # n
      <4>1. a + 1 \in 1 .. n /\ 1 \in 1 .. n - a /\ n - a # 0 /\ (a + 1) - 1 = a
        BY <3>9
      <4>2. log[a + 1].seq = log[1].seq + ((a + 1) - 1)
        BY <3>1, <4>1, Numbered, Zenon
      <4>3. new[1].seq = log[1].seq + a
        BY <1>1, <4>1, <4>2, Zenon
      <4> QED BY <3>7, <4>1, <4>3, Zenon DEF Skip
    <3> QED BY <3>8, <3>9
  <2> QED BY <2>1, <2>2
<1>4. s - a \in 0 .. n - a
  <2>1. Len(new) = n - a /\ new \in Seq(Record)
    BY <1>1, Zenon
  <2>2. n - a \in 0 .. Len(new) /\ 0 \in 0 .. n - a
    BY <2>1
  <2> QED BY <1>3, <2>1, <2>2, FitsCut, Zenon
<1>5. (n - a) - (s - a) = n - s
  BY <1>2, <1>8
<1>6. Reach(f, new, Len(new)) = Reach(f, log, n)
  BY <1>1, <1>3, <1>5, Zenon DEF Reach, s
<1>7. ASSUME NEW hist, Fits(f, log, n, hist) PROVE Fits(f, new, Len(new), hist)
  <2>1. /\ Reach(f, log, n) <= Len(hist) /\ \A i \in 1 .. h : f.book[i] = hist[i]
        /\ \A j \in 1 .. n - s : log[s + j].cmd = hist[h + j]
    BY <1>7, Zenon DEF Fits, s, h
  <2>2. ASSUME NEW j \in 1 .. (n - a) - (s - a) PROVE new[(s - a) + j].cmd = hist[h + j]
    <3>1. (s - a) + j \in 1 .. n - a /\ a + ((s - a) + j) = s + j /\ j \in 1 .. n - s
      BY <1>2, <1>4, <1>8
    <3> QED BY <1>1, <2>1, <3>1, Zenon
  <2> QED BY <1>1, <1>3, <1>6, <2>1, <2>2, Zenon DEF Fits, h
<1> QED BY <1>6, <1>7, Zenon DEF new
-----------------------------------------------------------------------------
(* What every variable ranges over, whatever fails. *)
TypeInv ==
  /\ wal \in Seq(Record) /\ history \in Seq(Nat) /\ book \in Seq(Nat)
  /\ snap \in File /\ prev \in File
  /\ durable \in Nat /\ durable <= Len(wal)
  /\ sent \in Nat /\ seq \in Nat /\ since_sync \in Nat /\ synced \in Nat /\ floor \in Nat
  /\ last_snapshot_seq \in Nat /\ next_snapshot_at \in Nat
  /\ pc \in {"up", "logged", "snapshot", "truncate", "down", "refused"}

(* The book has everything in the history but, between the append and the rest
   of apply, the command of the last record. *)
BookInv ==
  /\ pc \in {"up", "snapshot", "truncate"} => book = history
  /\ pc = "logged" =>
       /\ wal # <<>> /\ history # <<>>
       /\ book = SubSeq(history, 1, Len(history) - 1)
       /\ wal[Len(wal)].cmd = history[Len(history)]

Sane == TypeInv /\ BookInv

(* The records that are written. *)
LEMMA RecordIs ==
  /\ \A s, c \in Nat : LET r == [seq |-> s, cmd |-> c]
                       IN  r \in Record /\ r.seq = s /\ r.cmd = c /\ (s > 0 => r # Torn)
  /\ Torn \in Record /\ Torn.seq = 0
<1>1. ASSUME NEW s \in Nat, NEW c \in Nat
      PROVE  LET r == [seq |-> s, cmd |-> c]
             IN  r \in Record /\ r.seq = s /\ r.cmd = c /\ (s > 0 => r # Torn)
  BY DEF Record, Torn
<1>2. Torn \in Record /\ Torn.seq = 0
  BY DEF Record, Torn
<1> QED BY <1>1, <1>2

(* No file, a file that is written and a file that goes bad. *)
LEMMA FilesAre ==
  /\ NoFile \in File /\ NoFile.ok = FALSE /\ NoFile.last_seq = 0 /\ Held(NoFile) = 0
  /\ \A k \in Nat, b \in Seq(Nat) : LET f == [last_seq |-> k, book |-> b, ok |-> TRUE]
                                    IN  f \in File /\ f.ok /\ f.last_seq = k /\ f.book = b
  /\ \A f \in File : LET g == [f EXCEPT !.ok = FALSE]
                     IN  g \in File /\ g.ok = FALSE /\ g.last_seq = f.last_seq
<1>1. <<>> \in Seq(Nat) /\ 0 \in Nat
  OBVIOUS
<1>2. NoFile \in File /\ NoFile.ok = FALSE /\ NoFile.last_seq = 0 /\ Held(NoFile) = 0
  BY <1>1 DEF NoFile, File, Held
<1>3. ASSUME NEW k \in Nat, NEW b \in Seq(Nat)
      PROVE  LET f == [last_seq |-> k, book |-> b, ok |-> TRUE]
             IN  f \in File /\ f.ok /\ f.last_seq = k /\ f.book = b
  BY DEF File
<1>4. ASSUME NEW f \in File
      PROVE  LET g == [f EXCEPT !.ok = FALSE]
             IN  g \in File /\ g.ok = FALSE /\ g.last_seq = f.last_seq
  BY Zenon DEF File
<1> QED BY <1>2, <1>3, <1>4

(* A sequence that is not empty has a last element. *)
LEMMA SeqLast ==
  ASSUME NEW S, NEW s \in Seq(S)
  PROVE  /\ Len(s) \in Nat /\ (s = <<>> <=> Len(s) = 0)
         /\ s # <<>> => Len(s) > 0 /\ Len(s) \in 1 .. Len(s) /\ s[Len(s)] \in S
         /\ <<>> \in Seq(S)
  OBVIOUS

(* Appending the last element to the rest gives the sequence. *)
LEMMA SeqFront ==
  ASSUME NEW S, NEW s \in Seq(S), s # <<>>
  PROVE  Append(SubSeq(s, 1, Len(s) - 1), s[Len(s)]) = s
  OBVIOUS

(* It holds at the start. *)
LEMMA InitSane == Init => Sane
<1> SUFFICES ASSUME Init PROVE Sane
  OBVIOUS
<1>1. <<>> \in Seq(Record) /\ <<>> \in Seq(Nat) /\ Len(<<>>) = 0
  OBVIOUS
<1>2. NoFile \in File
  BY FilesAre
<1>3. TypeInv
  BY <1>1, <1>2 DEF Init, TypeInv
<1>4. BookInv
  BY DEF Init, BookInv
<1> QED BY <1>3, <1>4 DEF Sane

(* Appending a record. *)
LEMMA SaneAppend == Sane /\ WalAppend => Sane'
<1> SUFFICES ASSUME Sane, WalAppend PROVE Sane'
  OBVIOUS
<1> DEFINE r == [seq |-> seq + 1, cmd |-> sent + 1]
<1>1. /\ seq + 1 \in Nat /\ sent + 1 \in Nat /\ since_sync + 1 \in Nat
      /\ wal \in Seq(Record) /\ history \in Seq(Nat) /\ durable \in Nat /\ durable <= Len(wal)
      /\ synced \in Nat /\ book = history
  BY DEF Sane, TypeInv, BookInv, WalAppend
<1>2. r \in Record /\ r.cmd = sent + 1
  BY <1>1, RecordIs
<1>3. wal' = Append(wal, r) /\ history' = Append(history, sent + 1)
  BY DEF WalAppend
<1> HIDE DEF r
<1>4. /\ wal' \in Seq(Record) /\ Len(wal) \in Nat /\ Len(wal') = Len(wal) + 1
      /\ wal'[Len(wal) + 1] = r
  BY <1>1, <1>2, <1>3, SeqAppend
<1>5. /\ history' \in Seq(Nat) /\ Len(history) \in Nat /\ Len(history') = Len(history) + 1
      /\ history'[Len(history) + 1] = sent + 1
      /\ \A k \in 1 .. Len(history) : history'[k] = history[k]
  BY <1>1, <1>3, SeqAppend
<1>16. PICK w \in Nat : w = Len(wal) /\ w + 1 = Len(wal')
  BY <1>4, Zenon
<1>17. PICK m \in Nat : m = Len(history) /\ m + 1 = Len(history')
  BY <1>5, Zenon
<1>6. since_sync' \in Nat /\ durable' \in {durable, w + 1} /\ synced' \in {synced, m + 1}
  <2>1. since_sync' \in {0, since_sync + 1} /\ durable' \in {durable, Len(wal')}
        /\ synced' \in {synced, Len(history')}
    BY Zenon DEF WalAppend, Sync, NoSync
  <2>2. since_sync' \in Nat
    <3>1. 0 \in Nat /\ since_sync + 1 \in Nat
      BY <1>1
    <3> QED BY <2>1, <3>1, Zenon
  <2> QED BY <1>16, <1>17, <2>1, <2>2, Zenon
<1>7. durable' \in Nat /\ durable' <= w + 1 /\ synced' \in Nat
  <2>1. durable \in Nat /\ durable <= w /\ synced \in Nat
    BY <1>1, <1>16, Zenon
  <2> QED BY <1>6, <2>1
<1>8. TypeInv'
  <2>1. /\ wal' \in Seq(Record) /\ history' \in Seq(Nat)
        /\ durable' \in Nat /\ durable' <= Len(wal')
        /\ since_sync' \in Nat /\ synced' \in Nat
    BY <1>4, <1>5, <1>6, <1>7, <1>16, Zenon
  <2>2. /\ sent' = sent + 1 /\ seq' = seq + 1 /\ pc' = "logged"
        /\ UNCHANGED <<book, snap, prev, last_snapshot_seq, next_snapshot_at, floor>>
    BY Zenon DEF WalAppend
  <2>3. /\ book \in Seq(Nat) /\ snap \in File /\ prev \in File /\ floor \in Nat
        /\ last_snapshot_seq \in Nat /\ next_snapshot_at \in Nat
    BY Zenon DEF Sane, TypeInv
  <2> QED BY <1>1, <2>1, <2>2, <2>3, Zenon DEF TypeInv
<1>9. Len(history') - 1 = Len(history) /\ Len(history) \in 0 .. Len(history')
  BY <1>5
<1>10. /\ SubSeq(history', 1, Len(history)) \in Seq(Nat)
       /\ Len(SubSeq(history', 1, Len(history))) = Len(history)
       /\ \A k \in 1 .. Len(history) : SubSeq(history', 1, Len(history))[k] = history[k]
  BY <1>5, <1>9, SeqFirst
<1>11. SubSeq(history', 1, Len(history') - 1) = history
  BY <1>1, <1>9, <1>10, SeqSame
<1>12. wal' # <<>> /\ history' # <<>>
  BY <1>4, <1>5, SeqLast
<1>13. wal'[Len(wal')].cmd = history'[Len(history')]
  BY <1>2, <1>4, <1>5
<1>14. pc' = "logged" /\ book' = book
  BY DEF WalAppend
<1>15. BookInv'
  BY <1>1, <1>11, <1>12, <1>13, <1>14 DEF BookInv
<1> QED BY <1>8, <1>15 DEF Sane

(* The rest of apply. *)
LEMMA SaneApplied == Sane /\ Applied => Sane'
<1> SUFFICES ASSUME Sane, Applied PROVE Sane'
  OBVIOUS
<1>1. /\ wal # <<>> /\ history # <<>> /\ book = SubSeq(history, 1, Len(history) - 1)
      /\ wal[Len(wal)].cmd = history[Len(history)]
  BY DEF Sane, BookInv, Applied
<1>2. history \in Seq(Nat) /\ book' = Append(book, history[Len(history)])
  BY <1>1 DEF Sane, TypeInv, Applied
<1>3. book' = history
  BY <1>1, <1>2, SeqFront
<1>4. /\ pc' = "up" /\ history' = history
      /\ UNCHANGED <<disk, seq, since_sync, is_open, last_snapshot_seq, next_snapshot_at, bounds>>
      /\ UNCHANGED ghosts
  BY DEF Applied, ghosts
<1>5. TypeInv'
  BY <1>2, <1>3, <1>4 DEF Sane, TypeInv, disk, bounds, ghosts
<1>6. BookInv'
  BY <1>3, <1>4 DEF BookInv
<1> QED BY <1>5, <1>6 DEF Sane

(* An append that fails. *)
LEMMA SaneAppendFails == Sane /\ AppendFails => Sane'
<1> SUFFICES ASSUME Sane, AppendFails PROVE Sane'
  OBVIOUS
<1>1. wal \in Seq(Record) /\ seq \in Nat /\ sent \in Nat /\ durable \in Nat /\ durable <= Len(wal)
  BY DEF Sane, TypeInv
<1>2. wal' \in {wal, Append(wal, Torn)} /\ seq' \in {seq, seq + 1} /\ sent' = sent + 1
  BY DEF AppendFails
<1>3. wal' \in Seq(Record) /\ Len(wal) \in Nat /\ Len(wal') \in Nat /\ Len(wal) <= Len(wal')
  BY <1>1, <1>2, RecordIs, SeqAppend
<1>4. TypeInv'
  BY <1>1, <1>2, <1>3 DEF Sane, TypeInv, AppendFails, ghosts
<1>5. BookInv'
  BY DEF Sane, BookInv, AppendFails, ghosts
<1> QED BY <1>4, <1>5 DEF Sane

(* The end of a batch. *)
LEMMA SaneEndBatch == Sane /\ EndBatch => Sane'
<1> SUFFICES ASSUME Sane, EndBatch PROVE Sane'
  OBVIOUS
<1>1. /\ wal \in Seq(Record) /\ history \in Seq(Nat) /\ snap \in File /\ prev \in File
      /\ durable \in Nat /\ durable <= Len(wal) /\ synced \in Nat /\ since_sync \in Nat
      /\ book = history
  BY DEF Sane, TypeInv, BookInv, EndBatch
<1>2. Len(wal) \in Nat /\ Len(history) \in Nat /\ NoFile \in File
  BY <1>1, SeqLast, FilesAre
<1>3. since_sync' \in Nat /\ durable' \in {durable, Len(wal)} /\ synced' \in {synced, Len(history)}
  BY <1>1 DEF EndBatch, Sync, NoSync
<1>4. snap' \in File /\ prev' \in File /\ pc' \in {"up", "snapshot"}
  BY <1>1, <1>2 DEF EndBatch
<1>5. /\ UNCHANGED <<wal, book, seq, is_open, last_snapshot_seq, next_snapshot_at, sent, faults,
                     history, floor>>
  BY DEF EndBatch, bounds
<1>6. TypeInv'
  BY <1>1, <1>2, <1>3, <1>4, <1>5 DEF Sane, TypeInv
<1>7. BookInv'
  BY <1>1, <1>4, <1>5 DEF BookInv
<1> QED BY <1>6, <1>7 DEF Sane

(* A snapshot is written, or is not. *)
LEMMA SaneSnapshot == Sane /\ (WriteSnapshot \/ WriteSnapshotFails) => Sane'
<1> SUFFICES ASSUME Sane, WriteSnapshot \/ WriteSnapshotFails PROVE Sane'
  OBVIOUS
<1>1. /\ seq \in Nat /\ book \in Seq(Nat) /\ book = history /\ Len(book) \in Nat
  BY SeqLast DEF Sane, TypeInv, BookInv, WriteSnapshot, WriteSnapshotFails
<1>2. [last_seq |-> seq, book |-> book, ok |-> TRUE] \in File
  BY <1>1, FilesAre
<1>3. CASE WriteSnapshot
  BY <1>1, <1>2, <1>3 DEF WriteSnapshot, Sane, TypeInv, BookInv, memory, bounds
<1>4. CASE WriteSnapshotFails
  BY <1>1, <1>4 DEF WriteSnapshotFails, Sane, TypeInv, BookInv, disk, memory, ghosts
<1> QED BY <1>3, <1>4

(* The log is cut off, or closed. *)
LEMMA SaneTruncate ==
  ASSUME WellOrdered
  PROVE  Sane /\ Truncate => Sane'
<1> SUFFICES ASSUME Sane, Truncate PROVE Sane'
  OBVIOUS
<1>1. /\ wal \in Seq(Record) /\ history \in Seq(Nat) /\ durable \in Nat /\ durable <= Len(wal)
      /\ synced \in Nat /\ since_sync \in Nat /\ seq \in Nat /\ last_snapshot_seq \in Nat
      /\ book = history
  BY DEF Sane, TypeInv, BookInv, Truncate
<1>2. Len(wal) \in Nat /\ Len(history) \in Nat /\ seq + EveryN \in Nat
  BY <1>1, SeqLast, EveryNAssumption
<1>3. read_wal(wal).records \in Seq(Record)
  BY <1>1, ReadIs
<1>4. Above(read_wal(wal).records, last_snapshot_seq) \in Seq(Record)
  BY <1>1, <1>3, AboveIs, Zenon
<1>5. /\ \/ wal' = Above(read_wal(wal).records, last_snapshot_seq) /\ durable' = Len(wal')
         \/ wal' = wal /\ durable' \in {durable, Len(wal)}
      /\ synced' \in {synced, Len(history)} /\ since_sync' \in {0, since_sync}
  BY DEF Truncate, Sync
<1>6. wal' \in Seq(Record) /\ durable' \in Nat /\ durable' <= Len(wal')
  <2>1. CASE wal' = Above(read_wal(wal).records, last_snapshot_seq) /\ durable' = Len(wal')
    <3>1. wal' \in Seq(Record)
      BY <1>4, <2>1
    <3>2. Len(wal') \in Nat
      BY <3>1, SeqLast
    <3> QED BY <2>1, <3>1, <3>2
  <2>2. CASE wal' = wal /\ durable' \in {durable, Len(wal)}
    BY <1>1, <1>2, <2>2
  <2> QED BY <1>5, <2>1, <2>2
<1>7. /\ pc' = "up" /\ last_snapshot_seq' = seq /\ next_snapshot_at' = seq + EveryN
      /\ UNCHANGED <<snap, prev, book, seq, sent, history, floor>>
  BY DEF Truncate
<1>8. TypeInv'
  BY <1>1, <1>2, <1>5, <1>6, <1>7 DEF Sane, TypeInv
<1>9. BookInv'
  BY <1>1, <1>7 DEF BookInv
<1> QED BY <1>8, <1>9 DEF Sane

(* The process or the machine goes. *)
LEMMA SaneGone == Sane /\ (Crash \/ CrashInAppend \/ PowerFails \/ Stop) => Sane'
<1> SUFFICES ASSUME Sane, Crash \/ CrashInAppend \/ PowerFails \/ Stop PROVE Sane'
  OBVIOUS
<1>1. /\ wal \in Seq(Record) /\ history \in Seq(Nat) /\ durable \in Nat /\ durable <= Len(wal)
      /\ synced \in Nat /\ sent \in Nat
  BY DEF Sane, TypeInv
<1>2. Len(wal) \in Nat /\ Len(history) \in Nat /\ <<>> \in Seq(Nat) /\ Torn \in Record
  BY <1>1, SeqLast, RecordIs
<1>3. Gone /\ pc' = "down" /\ UNCHANGED <<snap, prev, history>>
  BY DEF Crash, CrashInAppend, PowerFails, Stop, Gone, disk
<1>4. wal' \in Seq(Record) /\ durable' \in Nat /\ durable' <= Len(wal')
  <2>1. CASE Crash \/ Stop
    BY <1>1, <1>2, <2>1 DEF Crash, Stop, disk
  <2>2. CASE CrashInAppend
    <3>1. wal' = Append(wal, Torn) /\ durable' = durable
      BY <2>2 DEF CrashInAppend
    <3>2. wal' \in Seq(Record) /\ Len(wal') = Len(wal) + 1
      BY <1>1, <1>2, <3>1, SeqAppend
    <3> QED BY <1>1, <1>2, <3>1, <3>2
  <2>3. CASE PowerFails
    <3>1. PICK n \in durable .. Len(wal) :
            /\ \/ wal' = SubSeq(wal, 1, n)
               \/ wal' = Append(SubSeq(wal, 1, n), Torn)
            /\ durable' = Len(wal')
      BY <2>3 DEF PowerFails
    <3>2. n \in 0 .. Len(wal)
      BY <1>1
    <3>3. SubSeq(wal, 1, n) \in Seq(Record)
      BY <1>1, <3>2, SeqFirst, Zenon
    <3>4. wal' \in Seq(Record)
      BY <1>2, <3>1, <3>3, SeqAppend
    <3>5. Len(wal') \in Nat
      BY <3>4, SeqLast
    <3> QED BY <3>1, <3>4, <3>5
  <2> QED BY <2>1, <2>2, <2>3
<1>5. sent' \in Nat /\ synced' \in Nat /\ floor' \in Nat
  BY <1>1, <1>2 DEF Crash, CrashInAppend, PowerFails, Stop
<1>6. TypeInv'
  BY <1>2, <1>3, <1>4, <1>5 DEF Sane, TypeInv, Gone
<1>7. BookInv'
  BY <1>3 DEF BookInv
<1> QED BY <1>6, <1>7 DEF Sane

(* A file goes bad. *)
LEMMA SaneDamage == Sane /\ Damage => Sane'
<1> SUFFICES ASSUME Sane, Damage PROVE Sane'
  OBVIOUS
<1>1. snap' \in File /\ prev' \in File
  BY FilesAre DEF Sane, TypeInv, Damage
<1>2. TypeInv'
  BY <1>1 DEF Sane, TypeInv, Damage, memory, ghosts
<1>3. BookInv'
  BY DEF Sane, BookInv, Damage, memory, ghosts
<1> QED BY <1>2, <1>3 DEF Sane

(* The file a start reads. *)
Chosen == IF snap.ok \/ prev = NoFile THEN snap ELSE prev

(* A start that is not refused. *)
Started ==
  /\ pc' = "up" /\ is_open' = TRUE /\ since_sync' = 0
  /\ book' = Rebuild(Chosen, wal)
  /\ seq' = Larger(read_wal(wal).last_seq, Chosen.last_seq)
  /\ last_snapshot_seq' = IF Chosen.ok THEN Chosen.last_seq ELSE 0
  /\ next_snapshot_at' = IF Chosen.ok THEN Chosen.last_seq + EveryN ELSE 0
  /\ history' = book' /\ synced' = Lesser(synced, Len(book')) /\ floor' = 0

(* What Restart does. *)
LEMMA RestartIs ==
  Restart => /\ pc = "down" /\ UNCHANGED <<disk, bounds>>
             /\ IF read_wal(wal).sequence_gap THEN pc' = "refused" /\ UNCHANGED <<memory, ghosts>>
                                              ELSE Started
  BY Zenon DEF Restart, Started, Chosen

(* A start. *)
LEMMA SaneRestart ==
  ASSUME WellOrdered
  PROVE  Sane /\ Restart => Sane'
<1> SUFFICES ASSUME Sane, Restart PROVE Sane'
  OBVIOUS
<1>1. /\ wal \in Seq(Record) /\ snap \in File /\ prev \in File /\ synced \in Nat /\ Chosen \in File
  BY DEF Sane, TypeInv, Chosen
<1>2. UNCHANGED <<disk, bounds>>
  BY RestartIs
<1>3. CASE pc' = "refused" /\ UNCHANGED <<memory, ghosts>>
  BY <1>2, <1>3 DEF Sane, TypeInv, BookInv, disk, bounds, memory, ghosts
<1>4. CASE Started
  <2>1. Rebuild(Chosen, wal) \in Seq(Nat)
    BY <1>1, RebuildIs
  <2>2. /\ pc' = "up" /\ since_sync' = 0 /\ floor' = 0
        /\ book' \in Seq(Nat) /\ history' = book' /\ Len(book') \in Nat
    BY <1>4, <2>1, SeqLast DEF Started
  <2>3. Chosen.last_seq \in Nat /\ Chosen.last_seq + EveryN \in Nat
    BY <1>1, Fields, EveryNAssumption
  <2>4. read_wal(wal).last_seq \in Nat
    <3>1. /\ Intact(wal) \in 0 .. Len(wal) /\ Len(wal) \in Nat
          /\ read_wal(wal).last_seq = IF Intact(wal) = 0 THEN 0 ELSE wal[Intact(wal)].seq
          /\ \A k \in 1 .. Len(wal) : wal[k].seq \in Nat
      BY <1>1, ReadIs, Records
    <3> QED BY <3>1
  <2>5. seq' \in Nat /\ last_snapshot_seq' \in Nat /\ next_snapshot_at' \in Nat /\ synced' \in Nat
    <3>1. seq' = Larger(read_wal(wal).last_seq, Chosen.last_seq)
          /\ synced' = Lesser(synced, Len(book'))
      BY <1>4 DEF Started
    <3>2. last_snapshot_seq' \in Nat /\ next_snapshot_at' \in Nat
      BY <1>4, <2>3 DEF Started
    <3> QED BY <1>1, <2>2, <2>3, <2>4, <3>1, <3>2 DEF Larger, Lesser
  <2>6. TypeInv'
    BY <1>2, <2>2, <2>5 DEF Sane, TypeInv, disk, bounds
  <2>7. BookInv'
    BY <2>2 DEF BookInv
  <2> QED BY <2>6, <2>7 DEF Sane
<1> QED BY <1>3, <1>4, RestartIs

(* Every step keeps it. *)
LEMMA SaneStep ==
  ASSUME WellOrdered
  PROVE  Sane /\ [Next]_vars => Sane'
<1> SUFFICES ASSUME Sane, [Next]_vars PROVE Sane'
  OBVIOUS
<1>1. CASE UNCHANGED vars
  BY <1>1 DEF Sane, TypeInv, BookInv, vars, disk, memory, bounds, ghosts
<1> QED BY <1>1, SaneAppend, SaneApplied, SaneAppendFails, SaneEndBatch, SaneSnapshot,
           SaneTruncate, SaneGone, SaneDamage, SaneRestart DEF Next

-----------------------------------------------------------------------------
(* No snapshot was damaged; then a file is there whole or not at all. *)
NoDamage == "damage" \notin faults.kinds
FilesInv == NoDamage => (snap = NoFile \/ snap.ok) /\ (prev = NoFile \/ prev.ok)

(* Nothing has torn or cut the log. *)
LogSafe == faults.kinds \subseteq ProcessFaults \cup {"damage"}

(* A fault is never forgotten. *)
LEMMA FaultsGrow == [Next]_vars => faults.kinds \subseteq faults'.kinds
<1>1. ASSUME NEW kind, Fault(kind) PROVE faults.kinds \subseteq faults'.kinds
  BY <1>1 DEF Fault
<1>2. ASSUME UNCHANGED faults PROVE faults.kinds \subseteq faults'.kinds
  BY <1>2
<1>3. SUFFICES ASSUME [Next]_vars PROVE (\E kind : Fault(kind)) \/ UNCHANGED faults
  BY <1>1, <1>2, Zenon
<1>4. CASE WalAppend \/ Applied \/ EndBatch \/ WriteSnapshot \/ Restart \/ UNCHANGED vars
  BY <1>4 DEF WalAppend, Applied, EndBatch, WriteSnapshot, Restart, vars, bounds
<1>5. CASE AppendFails \/ WriteSnapshotFails \/ Truncate
  BY <1>5 DEF AppendFails, WriteSnapshotFails, Truncate
<1>6. CASE Crash \/ CrashInAppend \/ PowerFails \/ Damage \/ Stop
  BY <1>6 DEF Crash, CrashInAppend, PowerFails, Damage, Stop
<1> QED BY <1>3, <1>4, <1>5, <1>6 DEF Next

(* What the faults so far allow, they allowed before; and what a step adds. *)
LEMMA FaultsBefore ==
  ASSUME [Next]_vars
  PROVE  /\ NoDamage' => NoDamage /\ ~Damage
         /\ LogSafe' => /\ LogSafe /\ ~CrashInAppend /\ ~PowerFails
                        /\ AppendFails => UNCHANGED <<wal, seq, faults>>
<1>1. faults.kinds \subseteq faults'.kinds
  BY FaultsGrow
<1>2. \A kind : Fault(kind) => kind \in faults'.kinds
  BY DEF Fault
<1>3. NoDamage' => NoDamage /\ ~Damage
  BY <1>1, <1>2 DEF NoDamage, Damage
<1>4. \A kind : LogSafe' /\ Fault(kind) => kind \in ProcessFaults \cup {"damage"}
  BY <1>2 DEF LogSafe
<1>5. LogSafe' => ~Fault("torn") /\ ~Fault("power") /\ ~Fault("append")
  BY <1>4 DEF ProcessFaults
<1>6. LogSafe' => LogSafe
  BY <1>1 DEF LogSafe
<1>7. CrashInAppend => Fault("torn")
  BY DEF CrashInAppend
<1>8. PowerFails => Fault("power")
  BY DEF PowerFails
<1>9. AppendFails => Fault("append") \/ UNCHANGED <<wal, seq, faults>>
  BY DEF AppendFails
<1> QED BY <1>3, <1>5, <1>6, <1>7, <1>8, <1>9

(* FilesInv is inductive. *)
LEMMA FilesStep == FilesInv /\ [Next]_vars => FilesInv'
<1> SUFFICES ASSUME FilesInv, [Next]_vars, NoDamage'
             PROVE  (snap' = NoFile \/ snap'.ok) /\ (prev' = NoFile \/ prev'.ok)
  BY DEF FilesInv
<1>1. (snap = NoFile \/ snap.ok) /\ (prev = NoFile \/ prev.ok) /\ ~Damage
  BY FaultsBefore DEF FilesInv
<1>2. CASE UNCHANGED <<snap, prev>>
  BY <1>1, <1>2
<1>3. CASE EndBatch
  BY <1>1, <1>3, Zenon DEF EndBatch
<1>4. CASE WriteSnapshot
  BY <1>1, <1>4, Zenon DEF WriteSnapshot
<1>5. UNCHANGED <<snap, prev>> \/ EndBatch \/ WriteSnapshot
  BY <1>1 DEF Next, vars, disk, WalAppend, Applied, AppendFails, WriteSnapshotFails, Truncate,
     Crash, CrashInAppend, PowerFails, Stop, Restart
<1> QED BY <1>2, <1>3, <1>4, <1>5

(* FilesInv holds in every state. *)
LEMMA AlwaysFiles == Spec => []FilesInv
<1>1. Init => FilesInv
  BY Zenon DEF Init, FilesInv
<1> QED BY <1>1, FilesStep, PTL DEF Spec
-----------------------------------------------------------------------------
(* While nothing has torn or cut the log: it is read to the end, and a start
   from any file that can be read, or from none if there has not been one,
   finds the whole history. *)
Whole(f, log, hist) == Fits(f, log, Len(log), hist) /\ Reach(f, log, Len(log)) = Len(hist)
End(log) == IF Len(log) = 0 THEN 0 ELSE log[Len(log)].seq
Complete(f, log, hist) == f.last_seq <= End(log) /\ (f.ok => Whole(f, log, hist))

DiskA ==
  /\ Intact(wal) = Len(wal)
  /\ Complete(snap, wal, history) /\ Complete(prev, wal, history)
  /\ NoDamage /\ snap = NoFile /\ prev = NoFile => Whole(NoFile, wal, history)

(* The snapshot the next truncation will leave as .prev is not older than where
   it cuts the log, and the record it cuts at is not the last. *)
Newest == IF snap = NoFile THEN prev ELSE snap
Behind(f, k) == f.ok => f.last_seq >= k

ThreadA ==
  /\ pc # "refused"
  /\ pc = "down" => floor = Len(history)
  /\ Running => seq = End(wal)
  /\ Running /\ last_snapshot_seq > 0 => next_snapshot_at = last_snapshot_seq + EveryN
  /\ pc \in {"up", "logged"} => Behind(Newest, last_snapshot_seq)
  /\ pc \in {"snapshot", "truncate"} =>
       EveryN > 0 /\ seq >= next_snapshot_at /\ Behind(prev, last_snapshot_seq)
  /\ pc = "snapshot" => snap = NoFile
  /\ pc = "truncate" => snap.last_seq = seq

AInv == DiskA /\ ThreadA

(* An intact log. *)
LEMMA IntactGood ==
  ASSUME WellOrdered, NEW log \in Seq(Record), Intact(log) = Len(log)
  PROVE  /\ Len(log) \in Nat /\ Len(log) \in 0 .. Len(log) /\ Good(log, Len(log))
              /\ End(log) \in Nat
         /\ read_wal(log).records = log /\ read_wal(log).last_seq = End(log)
         /\ ~read_wal(log).sequence_gap
<1>1. Len(log) \in Nat /\ Good(log, Len(log)) /\ \A k \in 1 .. Len(log) : log[k].seq \in Nat
  BY IntactExists, Records
<1>2. /\ read_wal(log).records \in Seq(Record) /\ Len(read_wal(log).records) = Len(log)
      /\ \A i \in 1 .. Len(log) : read_wal(log).records[i] = log[i]
      /\ read_wal(log).last_seq = IF Len(log) = 0 THEN 0 ELSE log[Len(log)].seq
      /\ read_wal(log).sequence_gap = (Len(log) < Len(log) /\ log[Len(log) + 1] # Torn)
  BY ReadIs
<1>3. read_wal(log).records = log
  BY <1>2, SeqSame
<1>4. ~(Len(log) < Len(log))
  BY <1>1
<1>5. End(log) \in Nat /\ Len(log) \in 0 .. Len(log)
  BY <1>1 DEF End
<1>6. ~read_wal(log).sequence_gap
  BY <1>2, <1>4, Zenon
<1>7. read_wal(log).last_seq = End(log)
  BY <1>2, Zenon DEF End
<1> QED BY <1>1, <1>3, <1>5, <1>6, <1>7

(* It holds at the start. *)
LEMMA InitA ==
  ASSUME WellOrdered
  PROVE  Init => AInv
<1> SUFFICES ASSUME Init PROVE AInv
  OBVIOUS
<1>1. /\ wal = <<>> /\ history = <<>> /\ snap = NoFile /\ prev = NoFile /\ pc = "up" /\ seq = 0
      /\ last_snapshot_seq = 0
  BY DEF Init
<1>2. wal \in Seq(Record) /\ Len(wal) = 0 /\ Len(history) = 0
  BY <1>1
<1>3. Intact(wal) \in 0 .. Len(wal)
  BY <1>2, IntactExists, Zenon
<1>4. Intact(wal) = 0
  BY <1>2, <1>3
<1>5. NoFile.last_seq = 0 /\ NoFile.ok = FALSE /\ End(wal) = 0 /\ Held(NoFile) = 0
  BY <1>2, FilesAre DEF End
<1>6. Whole(NoFile, wal, history)
  BY <1>2, <1>5 DEF Whole, Fits, Reach, Skip
<1>7. DiskA
  BY <1>1, <1>2, <1>4, <1>5, <1>6 DEF DiskA, Complete
<1>8. ThreadA
  BY <1>1, <1>5 DEF ThreadA, Running, Newest, Behind
<1> QED BY <1>7, <1>8 DEF AInv

(* An append carries every complete start on with the history. *)
LEMMA AppendA ==
  ASSUME WellOrdered
  PROVE  Sane /\ AInv /\ WalAppend => AInv'
<1> SUFFICES ASSUME Sane, AInv, WalAppend PROVE AInv'
  OBVIOUS
<1> DEFINE r == [seq |-> seq + 1, cmd |-> sent + 1]
<1>1. /\ wal \in Seq(Record) /\ history \in Seq(Nat) /\ snap \in File /\ prev \in File
      /\ seq \in Nat /\ sent \in Nat
  BY DEF Sane, TypeInv
<1>2. /\ pc = "up" /\ seq' = seq + 1 /\ pc' = "logged"
      /\ wal' = Append(wal, r) /\ history' = Append(history, sent + 1)
      /\ UNCHANGED <<snap, prev, last_snapshot_seq, next_snapshot_at, faults>>
  BY DEF WalAppend
<1>3. /\ Intact(wal) = Len(wal) /\ seq = End(wal)
      /\ Complete(snap, wal, history) /\ Complete(prev, wal, history)
      /\ NoDamage /\ snap = NoFile /\ prev = NoFile => Whole(NoFile, wal, history)
      /\ last_snapshot_seq > 0 => next_snapshot_at = last_snapshot_seq + EveryN
      /\ Behind(Newest, last_snapshot_seq)
  BY <1>2 DEF AInv, DiskA, ThreadA, Running
<1>4. r \in Record /\ r.cmd = sent + 1 /\ r.seq = seq + 1 /\ r # Torn
  BY <1>1, RecordIs
<1> HIDE DEF r
<1>5. Len(wal) \in Nat /\ Good(wal, Len(wal))
  BY <1>1, <1>3, IntactGood
<1>6. Len(wal) = 0 \/ r.seq = wal[Len(wal)].seq + 1
  BY <1>3, <1>4 DEF End
<1>7. Len(wal') = Len(wal) + 1 /\ wal'[Len(wal) + 1] = r
  BY <1>1, <1>2, <1>4, SeqAppend
<1>8. Intact(wal') = Len(wal')
  BY <1>1, <1>2, <1>3, <1>4, <1>6, <1>7, IntactAppend
<1>9. End(wal') = seq + 1
  BY <1>4, <1>5, <1>7 DEF End
<1>10. ASSUME NEW f \in File, f.last_seq <= seq, Whole(f, wal, history)
       PROVE  Whole(f, wal', history')
  <2>1. f.last_seq < r.seq
    BY <1>1, <1>4, <1>10, Fields
  <2>2. Fits(f, wal, Len(wal), history) /\ Reach(f, wal, Len(wal)) = Len(history)
    BY <1>10, Zenon DEF Whole
  <2>3. /\ Fits(f, Append(wal, r), Len(wal) + 1, Append(history, r.cmd))
        /\ Reach(f, Append(wal, r), Len(wal) + 1) = Len(Append(history, r.cmd))
    BY <1>1, <1>4, <1>5, <1>6, <2>1, <2>2, FitsGrow
  <2> QED BY <1>2, <1>4, <1>7, <2>3, Zenon DEF Whole
<1>11. ASSUME NEW f \in File, Complete(f, wal, history) PROVE Complete(f, wal', history')
  <2>1. f.last_seq \in Nat /\ f.last_seq <= seq /\ (f.ok => Whole(f, wal, history))
    BY <1>3, <1>11, Fields DEF Complete
  <2>2. f.last_seq <= End(wal')
    BY <1>1, <1>9, <2>1
  <2> QED BY <1>10, <2>1, <2>2 DEF Complete
<1>12. Whole(NoFile, wal, history) => Whole(NoFile, wal', history')
  BY <1>1, <1>10, FilesAre
<1>13. DiskA'
  BY <1>1, <1>2, <1>3, <1>8, <1>11, <1>12, Zenon DEF DiskA, NoDamage
<1>14. ThreadA'
  BY <1>2, <1>3, <1>9 DEF ThreadA, Running, Newest
<1> QED BY <1>13, <1>14 DEF AInv

(* A step that leaves the log, the history and the files alone. *)
LEMMA QuietA ==
  ASSUME DiskA, UNCHANGED <<wal, history, snap, prev>>, NoDamage' => NoDamage
  PROVE  DiskA'
  BY DEF DiskA

(* The rest of apply, an append on a closed log, and the ways a process ends. *)
LEMMA SimpleA ==
  ASSUME AInv, NoDamage' => NoDamage,
         \/ Applied \/ (AppendFails /\ UNCHANGED <<wal, seq, faults>>)
         \/ Crash \/ Stop \/ UNCHANGED vars
  PROVE  AInv'
<1>1. UNCHANGED <<wal, history, snap, prev>>
  BY DEF Applied, AppendFails, Crash, Stop, vars, disk, ghosts
<1>2. DiskA'
  BY <1>1, QuietA DEF AInv
<1>3. CASE Applied
  BY <1>1, <1>2, <1>3, Zenon DEF AInv, ThreadA, Applied, Running, Newest, ghosts
<1>4. CASE AppendFails /\ UNCHANGED <<wal, seq, faults>>
  BY <1>1, <1>2, <1>4 DEF AInv, ThreadA, AppendFails, Running, Newest, ghosts
<1>5. CASE Crash \/ Stop
  <2>1. pc' = "down" /\ floor' = Len(history)
    BY <1>5 DEF Crash, Stop, Gone
  <2> QED BY <1>1, <1>2, <2>1 DEF AInv, ThreadA, Running
<1>6. CASE UNCHANGED vars
  BY <1>1, <1>2, <1>6 DEF AInv, ThreadA, vars, memory, ghosts, Running, Newest
<1> QED BY <1>3, <1>4, <1>5, <1>6

(* The end of a batch: the newest snapshot becomes .prev. *)
LEMMA EndBatchA ==
  ASSUME WellOrdered
  PROVE  Sane /\ AInv /\ EndBatch => AInv'
<1> SUFFICES ASSUME Sane, AInv, EndBatch PROVE AInv'
  OBVIOUS
<1>1. /\ pc = "up" /\ seq = End(wal) /\ Behind(Newest, last_snapshot_seq)
      /\ UNCHANGED <<wal, history, seq, last_snapshot_seq, next_snapshot_at, faults, floor>>
  BY DEF AInv, ThreadA, Running, EndBatch, bounds
<1>2. CASE ~SnapshotDue
  <2>1. UNCHANGED <<snap, prev, pc>>
    BY <1>2, Zenon DEF EndBatch
  <2>2. DiskA'
    BY <1>1, <2>1, QuietA DEF AInv, NoDamage
  <2> QED BY <1>1, <2>1, <2>2 DEF AInv, ThreadA, Running, Newest
<1>3. CASE SnapshotDue
  <2>1. prev' = Newest /\ snap' = NoFile /\ pc' = "snapshot"
    BY <1>3 DEF EndBatch, Newest
  <2>2. EveryN > 0 /\ seq >= next_snapshot_at
    BY <1>3 DEF SnapshotDue
  <2>3. End(wal) \in Nat
    BY IntactGood DEF Sane, TypeInv, AInv, DiskA
  <2>4. Complete(NoFile, wal, history)
    BY <2>3, FilesAre DEF Complete
  <2>5. Complete(Newest, wal, history)
    BY DEF AInv, DiskA, Newest
  <2>6. Newest = NoFile => snap = NoFile /\ prev = NoFile
    BY Zenon DEF Newest
  <2>7. DiskA'
    BY <1>1, <2>1, <2>4, <2>5, <2>6 DEF AInv, DiskA, NoDamage
  <2>8. ThreadA'
    BY <1>1, <2>1, <2>2, Zenon DEF AInv, ThreadA, Running
  <2> QED BY <2>7, <2>8 DEF AInv
<1> QED BY <1>2, <1>3

(* The new snapshot has the whole history. *)
LEMMA WriteSnapshotA ==
  ASSUME WellOrdered
  PROVE  Sane /\ AInv /\ WriteSnapshot => AInv'
<1> SUFFICES ASSUME Sane, AInv, WriteSnapshot PROVE AInv'
  OBVIOUS
<1> DEFINE f == [last_seq |-> seq, book |-> history, ok |-> TRUE]
<1>1. wal \in Seq(Record) /\ history \in Seq(Nat) /\ seq \in Nat /\ book = history
  BY DEF Sane, TypeInv, BookInv, WriteSnapshot
<1>2. f \in File /\ f.ok = TRUE /\ f.last_seq = seq /\ f.book = history /\ f # NoFile
  BY <1>1, FilesAre
<1>3. snap' = f
  BY <1>1, Zenon DEF WriteSnapshot
<1> HIDE DEF f
<1>4. /\ pc = "snapshot" /\ pc' = "truncate"
      /\ UNCHANGED <<wal, history, prev, seq, last_snapshot_seq, next_snapshot_at, faults, floor>>
  BY Zenon DEF WriteSnapshot, memory, bounds
<1>5. /\ Intact(wal) = Len(wal) /\ seq = End(wal) /\ Complete(prev, wal, history)
  BY <1>4 DEF AInv, DiskA, ThreadA, Running
<1>6. Len(wal) \in Nat /\ Len(wal) \in 0 .. Len(wal) /\ Good(wal, Len(wal))
  BY <1>1, <1>5, IntactGood, Zenon
<1>7. Len(wal) > 0 => wal[Len(wal)].seq <= f.last_seq
  BY <1>1, <1>2, <1>5, <1>6 DEF End
<1>8. Reach(f, wal, Len(wal)) = Len(f.book) /\ Fits(f, wal, Len(wal), f.book)
  BY <1>1, <1>2, <1>6, <1>7, FitsAlone, Zenon
<1>9. Complete(f, wal, history)
  BY <1>1, <1>2, <1>5, <1>8 DEF Complete, Whole
<1>10. DiskA'
  BY <1>2, <1>3, <1>4, <1>5, <1>9, Zenon DEF DiskA
<1>11. ThreadA'
  BY <1>2, <1>3, <1>4 DEF AInv, ThreadA, Running
<1> QED BY <1>10, <1>11 DEF AInv

(* A snapshot that is not written. *)
LEMMA WriteFailsA ==
  ASSUME AInv, WriteSnapshotFails, NoDamage' => NoDamage
  PROVE  AInv'
<1>1. /\ pc = "snapshot" /\ pc' = "up"
      /\ UNCHANGED <<wal, history, snap, prev, seq, last_snapshot_seq, next_snapshot_at, floor>>
  BY DEF WriteSnapshotFails, disk, memory, ghosts
<1>2. DiskA'
  BY <1>1, QuietA, Zenon DEF AInv
<1>3. ThreadA'
  BY <1>1 DEF AInv, ThreadA, Running, Newest
<1> QED BY <1>2, <1>3 DEF AInv

(* The truncation cuts behind both snapshots and before the last record. *)
LEMMA TruncateA ==
  ASSUME WellOrdered, Sane, AInv, Truncate, NoDamage' => NoDamage
  PROVE  AInv'
<1> DEFINE k == last_snapshot_seq
           new == Above(wal, k)
<1>1. /\ wal \in Seq(Record) /\ snap \in File /\ prev \in File /\ seq \in Nat /\ k \in Nat
      /\ next_snapshot_at \in Nat /\ snap.last_seq \in Nat /\ prev.last_seq \in Nat
  BY Fields DEF Sane, TypeInv
<1>2. /\ pc = "truncate" /\ pc' = "up" /\ last_snapshot_seq' = seq
      /\ next_snapshot_at' = seq + EveryN /\ UNCHANGED <<snap, prev, seq, history, floor>>
  BY Zenon DEF Truncate
<1>3. /\ Intact(wal) = Len(wal) /\ seq = End(wal) /\ snap.last_seq = seq /\ Behind(prev, k)
      /\ Complete(snap, wal, history) /\ Complete(prev, wal, history)
      /\ EveryN > 0 /\ seq >= next_snapshot_at /\ (k > 0 => next_snapshot_at = k + EveryN)
  BY <1>2 DEF AInv, DiskA, ThreadA, Running
<1>4. /\ Len(wal) \in Nat /\ Good(wal, Len(wal)) /\ read_wal(wal).records = wal
  BY <1>1, <1>3, IntactGood, Zenon
<1>5. wal' = wal \/ (k > 0 /\ wal' = new)
  BY <1>4 DEF Truncate
<1> HIDE DEF k, new
<1>6. DiskA' /\ End(wal') = End(wal)
  <2>1. CASE wal' = wal
    BY <1>2, <2>1, QuietA, Zenon DEF AInv
  <2>2. CASE k > 0 /\ wal' = new
    <3>1. seq > k
      BY <1>1, <1>3, <2>2, EveryNAssumption
    <3>2. Len(wal) > 0 /\ wal[Len(wal)].seq = seq
      BY <1>1, <1>3, <1>4, <3>1 DEF End
    <3>3. /\ new \in Seq(Record) /\ Intact(new) = Len(new)
          /\ Len(new) > 0 => new[Len(new)] = wal[Len(wal)]
          /\ Len(wal) > 0 /\ wal[Len(wal)].seq > k => Len(new) > 0
      BY <1>1, <1>4, AboveIntact DEF new
    <3>4. Len(new) > 0 /\ End(new) = End(wal)
      BY <3>1, <3>2, <3>3, SeqLast DEF End
    <3>5. ASSUME NEW f \in File, Complete(f, wal, history), Behind(f, k)
          PROVE  Complete(f, new, history)
      <4>1. CASE ~f.ok
        BY <3>4, <3>5, <4>1 DEF Complete
      <4>2. CASE f.ok
        <5>1. k <= f.last_seq
          BY <1>1, <3>5, <4>2, Fields DEF Behind
        <5>2. Fits(f, wal, Len(wal), history) /\ Reach(f, wal, Len(wal)) = Len(history)
          BY <3>5, <4>2, Zenon DEF Complete, Whole
        <5>3. /\ Reach(f, new, Len(new)) = Reach(f, wal, Len(wal))
              /\ Fits(f, wal, Len(wal), history) => Fits(f, new, Len(new), history)
          BY <1>1, <1>4, <4>2, <5>1, FitsTruncated DEF new
        <5>4. Whole(f, new, history)
          BY <5>2, <5>3 DEF Whole
        <5> QED BY <3>4, <3>5, <5>4 DEF Complete
      <4> QED BY <4>1, <4>2
    <3>6. Behind(snap, k) /\ snap # NoFile
      BY <1>1, <1>3, <2>2, <3>1, FilesAre DEF Behind
    <3>7. Complete(snap, new, history) /\ Complete(prev, new, history)
      BY <1>1, <1>3, <3>5, <3>6
    <3> QED BY <1>2, <2>2, <3>3, <3>4, <3>6, <3>7, Zenon DEF DiskA
  <2> QED BY <1>5, <2>1, <2>2
<1>7. Behind(Newest, seq)
  <2>1. CASE snap = NoFile
    <3>1. seq = 0
      BY <1>3, <2>1, FilesAre
    <3> QED BY <1>1, <2>1, <3>1 DEF Behind, Newest
  <2>2. CASE snap # NoFile
    BY <1>1, <1>3, <2>2 DEF Behind, Newest
  <2> QED BY <2>1, <2>2
<1>8. ThreadA'
  BY <1>2, <1>3, <1>6, <1>7 DEF ThreadA, Running, Newest
<1> QED BY <1>6, <1>8 DEF AInv

(* A file that goes bad is no longer read. *)
LEMMA DamageA == Sane /\ AInv /\ Damage => AInv'
<1> SUFFICES ASSUME Sane, AInv, Damage PROVE AInv'
  OBVIOUS
<1>1. snap \in File /\ prev \in File /\ last_snapshot_seq \in Nat
  BY DEF Sane, TypeInv
<1>2. /\ UNCHANGED <<wal, pc, seq, last_snapshot_seq, next_snapshot_at, history, floor>>
      /\ "damage" \in faults'.kinds
  BY DEF Damage, memory, ghosts, Fault
<1>3. /\ snap'.last_seq = snap.last_seq /\ prev'.last_seq = prev.last_seq
      /\ snap'.last_seq \in Nat /\ prev'.last_seq \in Nat
      /\ snap' = snap \/ (snap.ok /\ snap'.ok = FALSE /\ prev' = prev)
      /\ prev' = prev \/ (prev'.ok = FALSE /\ snap' = snap)
  <2>1. snap.last_seq \in Nat /\ prev.last_seq \in Nat
    BY <1>1, Fields
  <2>2. CASE snap.ok /\ snap' = [snap EXCEPT !.ok = FALSE] /\ UNCHANGED prev
    <3>1. snap'.ok = FALSE /\ snap'.last_seq = snap.last_seq
      BY <1>1, <2>2, FilesAre
    <3> QED BY <2>1, <2>2, <3>1
  <2>3. CASE prev.ok /\ prev' = [prev EXCEPT !.ok = FALSE] /\ UNCHANGED snap
    <3>1. prev'.ok = FALSE /\ prev'.last_seq = prev.last_seq
      BY <1>1, <2>3, FilesAre
    <3> QED BY <2>1, <2>3, <3>1
  <2> QED BY <2>2, <2>3, Zenon DEF Damage
<1>4. ASSUME NEW f, NEW g, Complete(f, wal, history), g.last_seq = f.last_seq, g = f \/ g.ok = FALSE
      PROVE  Complete(g, wal, history)
  BY <1>4 DEF Complete
<1>5. Complete(snap', wal, history) /\ Complete(prev', wal, history)
  BY <1>3, <1>4, Zenon DEF AInv, DiskA
<1>6. DiskA'
  BY <1>2, <1>5 DEF AInv, DiskA, NoDamage
<1>7. pc \in {"up", "logged"} => Behind(Newest', last_snapshot_seq)
  <2>1. SUFFICES ASSUME pc \in {"up", "logged"} PROVE Behind(Newest', last_snapshot_seq)
    OBVIOUS
  <2>2. Behind(Newest, last_snapshot_seq)
    BY <2>1, Zenon DEF AInv, ThreadA
  <2>3. CASE snap' = snap
    BY <1>3, <2>2, <2>3 DEF Behind, Newest
  <2>4. CASE snap.ok /\ snap'.ok = FALSE /\ prev' = prev
    <3>1. snap # NoFile
      BY <2>4, FilesAre, Zenon
    <3>2. snap'.last_seq >= last_snapshot_seq
      BY <1>3, <2>2, <2>4, <3>1 DEF Behind, Newest
    <3>3. CASE snap' = NoFile
      <4>1. last_snapshot_seq = 0
        BY <1>1, <3>2, <3>3, FilesAre
      <4> QED BY <1>3, <3>3, <4>1 DEF Behind, Newest
    <3>4. CASE snap' # NoFile
      BY <2>4, <3>4 DEF Behind, Newest
    <3> QED BY <3>3, <3>4
  <2> QED BY <1>3, <2>3, <2>4, Zenon
<1>8. pc \in {"snapshot", "truncate"} => Behind(prev', last_snapshot_seq)
  BY <1>3 DEF AInv, ThreadA, Behind
<1>9. pc = "snapshot" => snap' = NoFile
  BY <1>3, FilesAre, Zenon DEF AInv, ThreadA
<1>10. ThreadA'
  BY <1>2, <1>3, <1>7, <1>8, <1>9, Zenon DEF AInv, ThreadA, Running
<1> QED BY <1>6, <1>10 DEF AInv

(* The file a start reads: if there is none it can read, there is none. *)
LEMMA ChosenIs ==
  ASSUME Sane
  PROVE  /\ Chosen \in File /\ Chosen \in {snap, prev}
         /\ ~Chosen.ok => ~snap.ok /\ ~prev.ok
         /\ FilesInv /\ NoDamage =>
              Chosen = Newest /\ (~Chosen.ok => snap = NoFile /\ prev = NoFile)
<1>1. snap \in File /\ prev \in File /\ NoFile.ok = FALSE
  BY FilesAre DEF Sane, TypeInv
<1>2. Chosen \in {snap, prev}
  BY DEF Chosen
<1>3. ~Chosen.ok => ~snap.ok /\ ~prev.ok
  BY <1>1 DEF Chosen
<1>4. FilesInv /\ NoDamage => Chosen = Newest /\ (~Chosen.ok => snap = NoFile /\ prev = NoFile)
  BY <1>1, <1>3 DEF Chosen, FilesInv, Newest
<1> QED BY <1>1, <1>2, <1>3, <1>4

(* A start from the file it chooses finds the history. *)
LEMMA WholeIsRebuilt ==
  ASSUME WellOrdered, Sane, AInv, NEW f \in File, Whole(f, wal, history)
  PROVE  Rebuild(f, wal) = history
<1>1. wal \in Seq(Record) /\ history \in Seq(Nat) /\ Intact(wal) = Len(wal)
  BY DEF Sane, TypeInv, AInv, DiskA
<1>2. Fits(f, wal, Intact(wal), history) /\ Reach(f, wal, Intact(wal)) = Len(history)
  BY <1>1 DEF Whole
<1> QED BY <1>1, <1>2, FitsPrefix, Zenon

(* A start is not refused, and leaves everything complete. *)
LEMMA RestartA ==
  ASSUME WellOrdered
  PROVE  Sane /\ FilesInv /\ AInv /\ Restart => AInv' /\ Started
<1> SUFFICES ASSUME Sane, FilesInv, AInv, Restart PROVE AInv' /\ Started
  OBVIOUS
<1>1. /\ wal \in Seq(Record) /\ Intact(wal) = Len(wal) /\ snap \in File /\ prev \in File
      /\ Complete(snap, wal, history) /\ Complete(prev, wal, history)
  BY DEF Sane, TypeInv, AInv, DiskA
<1>2. ~read_wal(wal).sequence_gap /\ read_wal(wal).last_seq = End(wal) /\ End(wal) \in Nat
  BY <1>1, IntactGood
<1>3. Started /\ UNCHANGED <<wal, snap, prev, faults>>
  BY <1>2, RestartIs DEF disk, bounds
<1>4. /\ Chosen \in File /\ Chosen \in {snap, prev} /\ Chosen.last_seq \in Nat
      /\ ~Chosen.ok => ~snap.ok /\ ~prev.ok
  BY ChosenIs, Fields
<1>5. Complete(Chosen, wal, history)
  BY <1>1, <1>4
<1>6. history' = Rebuild(Chosen, wal) /\ pc' = "up"
  BY <1>3 DEF Started
<1>7. DiskA'
  <2>1. CASE Chosen.ok
    <3>1. history' = history
      BY <1>4, <1>5, <1>6, <2>1, WholeIsRebuilt DEF Complete
    <3>2. NoDamage' => NoDamage
      BY <1>3 DEF NoDamage
    <3> QED BY <1>3, <3>1, <3>2, QuietA DEF AInv
  <2>2. CASE ~Chosen.ok
    <3>1. Complete(snap, wal, history') /\ Complete(prev, wal, history')
      BY <1>1, <1>4, <2>2 DEF Complete
    <3>2. ASSUME snap = NoFile, prev = NoFile PROVE Whole(NoFile, wal, history')
      <4>1. Chosen = NoFile /\ NoFile \in File
        BY <1>4, <3>2, Zenon
      <4>2. /\ Len(Rebuild(NoFile, wal)) = Reach(NoFile, wal, Intact(wal))
            /\ Fits(NoFile, wal, Intact(wal), Rebuild(NoFile, wal))
        BY <1>1, <4>1, RebuildIs
      <4> QED BY <1>1, <1>6, <4>1, <4>2 DEF Whole
    <3> QED BY <1>1, <1>3, <3>1, <3>2, Zenon DEF DiskA
  <2> QED BY <2>1, <2>2
<1>8. seq' = End(wal)
  <2>1. seq' = Larger(End(wal), Chosen.last_seq)
    BY <1>2, <1>3 DEF Started
  <2>2. Chosen.last_seq <= End(wal)
    BY <1>5 DEF Complete
  <2> QED BY <1>2, <1>4, <2>1, <2>2, Zenon DEF Larger
<1>9. /\ last_snapshot_seq' = IF Chosen.ok THEN Chosen.last_seq ELSE 0
      /\ next_snapshot_at' = IF Chosen.ok THEN Chosen.last_seq + EveryN ELSE 0
  BY <1>3 DEF Started
<1>10. last_snapshot_seq' > 0 => next_snapshot_at' = last_snapshot_seq' + EveryN
  BY <1>4, <1>9
<1>11. Behind(Newest, last_snapshot_seq')
  <2>1. SUFFICES ASSUME Newest.ok PROVE Newest.last_seq >= last_snapshot_seq'
    BY DEF Behind
  <2>2. Newest = Chosen
    BY <2>1, FilesAre DEF Newest, Chosen
  <2> QED BY <1>4, <1>9, <2>1, <2>2
<1>12. ThreadA'
  BY <1>3, <1>6, <1>8, <1>10, <1>11 DEF ThreadA, Running, Newest
<1> QED BY <1>3, <1>7, <1>12 DEF AInv

(* The invariant for as long as nothing tears or cuts the log. *)
SafeInv == LogSafe => AInv

(* Every step keeps it. *)
LEMMA SafeStep ==
  ASSUME WellOrdered
  PROVE  Sane /\ FilesInv /\ SafeInv /\ [Next]_vars => SafeInv'
<1> SUFFICES ASSUME Sane, FilesInv, SafeInv, [Next]_vars, LogSafe' PROVE AInv'
  BY DEF SafeInv
<1>1. /\ LogSafe /\ ~CrashInAppend /\ ~PowerFails
      /\ AppendFails => UNCHANGED <<wal, seq, faults>>
  BY FaultsBefore
<1>2. AInv
  BY <1>1 DEF SafeInv
<1>3. CASE Damage
  BY <1>2, <1>3, DamageA, Zenon
<1>4. CASE ~Damage
  <2>1. NoDamage' => NoDamage
    BY FaultsBefore, Zenon
  <2> QED BY <1>1, <1>2, <1>4, <2>1, AppendA, SimpleA, EndBatchA, WriteSnapshotA, WriteFailsA,
             TruncateA, RestartA, Zenon DEF Next
<1> QED BY <1>3, <1>4

(* Only a start brings the process up. *)
LEMMA OnlyRestart ==
  ASSUME [Next]_vars, pc = "down", pc' = "up"
  PROVE  Restart
  BY DEF Next, vars, WalAppend, Applied, AppendFails, EndBatch, WriteSnapshot, WriteSnapshotFails,
         Truncate, Crash, Running, CrashInAppend, PowerFails, Gone, Damage, Stop

(* A start from an intact log and a file that can be read, or none at all. *)
LEMMA RecoversA ==
  ASSUME WellOrdered, Sane, FilesInv, AInv, Restart, NoDamage \/ snap.ok \/ prev.ok
  PROVE  Recovered
<1>1. Started /\ pc = "down"
  BY RestartA, RestartIs, Zenon
<1>2. /\ Chosen \in File /\ Chosen \in {snap, prev} /\ (~Chosen.ok => ~snap.ok /\ ~prev.ok)
      /\ NoDamage => (~Chosen.ok => snap = NoFile /\ prev = NoFile)
  BY ChosenIs
<1>3. Whole(Chosen, wal, history)
  <2>1. CASE Chosen.ok
    BY <1>2, <2>1, Zenon DEF AInv, DiskA, Complete
  <2>2. CASE ~Chosen.ok
    BY <1>2, <2>2, Zenon DEF AInv, DiskA
  <2> QED BY <2>1, <2>2, Zenon
<1>4. book' = history
  BY <1>1, <1>2, <1>3, WholeIsRebuilt, Zenon DEF Started
<1>5. floor = Len(history) /\ history \in Seq(Nat)
  BY <1>1 DEF AInv, ThreadA, Sane, TypeInv
<1>6. Len(history) \in Nat /\ SubSeq(history, 1, Len(history)) = history
  BY <1>5
<1> QED BY <1>4, <1>5, <1>6 DEF Recovered, IsPrefixOf
=============================================================================
