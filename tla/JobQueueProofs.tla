--------------------------- MODULE JobQueueProofs ---------------------------
(***************************************************************************)
(* Proofs about module JobQueue.  Whatever becomes of the lease, attempts  *)
(* are counted, so that a job is set aside only after three failed runs.   *)
(* A lease that is extended in time (~MayStall) admits one worker, which   *)
(* leaves at most the entry it is busy with in the processing list, so     *)
(* that a crash loses no job; when the lease may run out, no job is lost   *)
(* that is enqueued once (MaxEnqueues <= 1), for no two messages are equal.*)
(***************************************************************************)
EXTENDS JobQueue, SequenceTheorems, WellFoundedInduction, NaturalsInduction, TLAPS

\* The attempts of an entry are failed runs of its job, also of one in a run.
Paid(list) == \A i \in DOMAIN list : list[i].attempts <= failures[list[i].job]

Counted ==
  /\ Paid(jobs) /\ Paid(processing)
  /\ \A w \in Workers :
       worker[w].phase \in {"running", "finished"} =>
         /\ worker[w].raw \in Runnable
         /\ worker[w].raw.attempts <= failures[worker[w].raw.job]
         /\ worker[w].phase = "finished" /\ worker[w].failed =>
              /\ worker[w].raw.attempts < failures[worker[w].raw.job]
              /\ worker[w].raw.job \notin Malformed

CountInv == QueueTypeOK /\ Counted /\ DeadAfterThreeFailures

\* A worker past its wait holds the lease.
Leased == \A w \in Workers : worker[w].phase \in Live => lease = w

\* What the worker that holds the lease leaves in the lists.
Tidy ==
  \A w \in Workers :
    /\ worker[w].phase = "polling" => processing = <<>>
    /\ worker[w].phase \in {"running", "finished"} =>
         /\ processing = <<worker[w].raw>>
         /\ ~worker[w].covers => Holds(jobs, worker[w].raw.job)
    /\ worker[w].phase = "finished" /\ ~worker[w].failed /\ worker[w].covers =>
         ~owed[worker[w].raw.job]

QueueInv == ~MayStall /\ CountInv /\ Leased /\ Tidy /\ NoJobLost

\* A job that is enqueued once is not enqueued again behind the back of a run.
EnqueuedOnce ==
  /\ \A j \in Jobs : Holds(jobs, j) \/ Holds(processing, j) => enqueued[j] # 0
  /\ \A w \in Workers :
       worker[w].phase \in {"running", "finished"} =>
         /\ worker[w].covers /\ enqueued[worker[w].raw.job] # 0
         /\ worker[w].phase = "finished" /\ ~worker[w].failed => ~owed[worker[w].raw.job]

StallInv == MaxEnqueues <= 1 /\ CountInv /\ EnqueuedOnce /\ NoJobLost

-----------------------------------------------------------------------------
(* The lists of Redis.                                                     *)

\* LPUSH: the new entry is first, the others move one place.
LEMMA Prepending ==
  ASSUME NEW S, NEW x \in S, NEW s \in Seq(S)
  PROVE  /\ <<x>> \o s \in Seq(S)
         /\ DOMAIN (<<x>> \o s) = 1..(Len(s) + 1) /\ DOMAIN s = 1..Len(s) /\ Len(s) \in Nat
         /\ (<<x>> \o s)[1] = x
         /\ \A i \in DOMAIN s : i + 1 \in DOMAIN (<<x>> \o s) /\ (<<x>> \o s)[i + 1] = s[i]
         /\ \A i \in DOMAIN (<<x>> \o s) : i = 1 \/ (i - 1 \in DOMAIN s /\ (<<x>> \o s)[i] = s[i - 1])
<1>1. <<x>> \in Seq(S) /\ Len(<<x>>) = 1 /\ <<x>>[1] = x
  OBVIOUS
<1>2. /\ <<x>> \o s \in Seq(S) /\ Len(<<x>> \o s) = 1 + Len(s)
      /\ \A i \in 1..(1 + Len(s)) : (<<x>> \o s)[i] = IF i <= 1 THEN <<x>>[i] ELSE s[i - 1]
  BY <1>1, ConcatProperties
<1>3. Len(s) \in Nat /\ DOMAIN s = 1..Len(s) /\ DOMAIN (<<x>> \o s) = 1..Len(<<x>> \o s)
  BY <1>2
<1> QED BY <1>1, <1>2, <1>3

\* RPOPLPUSH takes the last entry and leaves the others in place.
LEMMA TakingLast ==
  ASSUME NEW S, NEW s \in Seq(S), s # <<>>
  PROVE  /\ Front(s) \in Seq(S) /\ Last(s) \in S
         /\ DOMAIN s = 1..Len(s) /\ Len(s) \in Nat \ {0} /\ Last(s) = s[Len(s)]
         /\ DOMAIN Front(s) = 1..(Len(s) - 1)
         /\ \A i \in 1..(Len(s) - 1) : Front(s)[i] = s[i]
<1>1. Len(s) \in Nat \ {0} /\ DOMAIN s = 1..Len(s) /\ \A i \in 1..Len(s) : s[i] \in S
  BY EmptySeq, ElementOfSeq
<1>2. /\ SubSeq(s, 1, Len(s) - 1) \in Seq(S)
      /\ Len(SubSeq(s, 1, Len(s) - 1)) = Len(s) - 1
      /\ \A i \in 1..(Len(s) - 1) : SubSeq(s, 1, Len(s) - 1)[i] = s[i]
  BY <1>1, SubSeqProperties
<1>3. DOMAIN SubSeq(s, 1, Len(s) - 1) = 1..(Len(s) - 1)
  BY <1>2
<1> QED BY <1>1, <1>2, <1>3 DEF Front, Last

\* LREM empties a list that holds only the message.
LEMMA RemovingOnly == ASSUME NEW x PROVE RemoveFirst(<<x>>, x) = <<>>
<1>1. Len(<<x>>) = 1 /\ <<x>>[1] = x
  OBVIOUS
<1>2. SelectInSeq(<<x>>, LAMBDA v : v = x) = 1
  <2>1. {i \in 1..Len(<<x>>) : <<x>>[i] = x} = {1}
    BY <1>1
  <2>2. Min({1}) = 1
    BY DEF Min
  <2> QED BY <2>1, <2>2 DEF SelectInSeq
<1>3. RemoveFirst(<<x>>, x) = RemoveAt(<<x>>, 1)
  BY <1>1, <1>2 DEF RemoveFirst
<1>4. RemoveAt(<<x>>, 1) = <<>> \o <<>>
  BY <1>1, SubSeqEmpty DEF RemoveAt
<1> QED BY <1>3, <1>4

\* Which jobs a list holds, and that what it holds is paid for.
LEMMA PrependingHolds ==
  ASSUME NEW S, NEW x \in S, NEW s \in Seq(S)
  PROVE  /\ \A j : Holds(<<x>> \o s, j) <=> x.job = j \/ Holds(s, j)
         /\ Paid(s) /\ x.attempts <= failures[x.job] => Paid(<<x>> \o s)
<1>1. /\ DOMAIN (<<x>> \o s) = 1..(Len(s) + 1) /\ DOMAIN s = 1..Len(s) /\ Len(s) \in Nat
      /\ (<<x>> \o s)[1] = x
      /\ \A i \in DOMAIN s : i + 1 \in DOMAIN (<<x>> \o s) /\ (<<x>> \o s)[i + 1] = s[i]
      /\ \A i \in DOMAIN (<<x>> \o s) : i = 1 \/ (i - 1 \in DOMAIN s /\ (<<x>> \o s)[i] = s[i - 1])
  BY Prepending
<1>2. 1 \in DOMAIN (<<x>> \o s)
  BY <1>1
<1>3. ASSUME NEW j
      PROVE  Holds(<<x>> \o s, j) <=> x.job = j \/ Holds(s, j)
  BY <1>1, <1>2 DEF Holds
<1>4. Paid(s) /\ x.attempts <= failures[x.job] => Paid(<<x>> \o s)
  BY <1>1, <1>2 DEF Paid
<1> QED BY <1>3, <1>4

\* A list holds its last entry and what the others are, all paid for if it was.
LEMMA TakingHolds ==
  ASSUME NEW s \in Seq(Runnable), s # <<>>
  PROVE  /\ \A j : Holds(s, j) <=> Last(s).job = j \/ Holds(Front(s), j)
         /\ Paid(s) => Paid(Front(s)) /\ Last(s).attempts <= failures[Last(s).job]
<1>1. /\ DOMAIN s = 1..Len(s) /\ Len(s) \in Nat \ {0} /\ Last(s) = s[Len(s)]
      /\ DOMAIN Front(s) = 1..(Len(s) - 1)
      /\ \A i \in 1..(Len(s) - 1) : Front(s)[i] = s[i]
  BY TakingLast
<1>2. \A i \in DOMAIN s : i = Len(s) \/ i \in DOMAIN Front(s)
  BY <1>1
<1>3. DOMAIN Front(s) \subseteq DOMAIN s /\ Len(s) \in DOMAIN s
  BY <1>1
<1>4. ASSUME NEW j
      PROVE  Holds(s, j) <=> Last(s).job = j \/ Holds(Front(s), j)
  BY <1>1, <1>2, <1>3 DEF Holds
<1>5. Paid(s) => Paid(Front(s)) /\ Last(s).attempts <= failures[Last(s).job]
  BY <1>1, <1>3 DEF Paid
<1> QED BY <1>4, <1>5

\* A list of one entry holds that entry, the empty one none.
LEMMA SingleHolds ==
  ASSUME NEW x
  PROVE  /\ \A j : Holds(<<x>>, j) <=> x.job = j
         /\ \A j : ~Holds(<<>>, j)
         /\ Paid(<<>>) /\ (Paid(<<x>>) <=> x.attempts <= failures[x.job])
<1>1. DOMAIN <<x>> = {1} /\ <<x>>[1] = x
  OBVIOUS
<1>2. DOMAIN <<>> = {}
  OBVIOUS
<1> QED BY <1>1, <1>2 DEF Holds, Paid

-----------------------------------------------------------------------------
\* Without its k-th entry a list keeps the others in order.
LEMMA Removing ==
  ASSUME NEW S, NEW s \in Seq(S), NEW k \in 1..Len(s)
  PROVE  /\ RemoveAt(s, k) \in Seq(S)
         /\ DOMAIN RemoveAt(s, k) = 1..(Len(s) - 1)
         /\ \A i \in 1..(Len(s) - 1) : RemoveAt(s, k)[i] = IF i < k THEN s[i] ELSE s[i + 1]
<1>1. PICK n \in Nat : n = Len(s) /\ k \in 1..n
  OBVIOUS
<1>2. PICK left : left = SubSeq(s, 1, k - 1)
  OBVIOUS
<1>3. PICK right : right = SubSeq(s, k + 1, n)
  OBVIOUS
<1>4. 1 \in 1..(n + 1) /\ k - 1 \in 0..n /\ k + 1 \in 1..(n + 1) /\ n \in 0..n
  BY <1>1
<1>5. left \in Seq(S) /\ Len(left) = k - 1 /\ \A i \in 1..(k - 1) : left[i] = s[i]
  <2>1. /\ SubSeq(s, 1, k - 1) \in Seq(S)
        /\ Len(SubSeq(s, 1, k - 1)) = IF 1 <= k - 1 THEN (k - 1) - 1 + 1 ELSE 0
        /\ \A i \in 1..((k - 1) - 1 + 1) : SubSeq(s, 1, k - 1)[i] = s[1 + i - 1]
    BY <1>1, <1>4, SubSeqProperties
  <2>2. 1..((k - 1) - 1 + 1) = 1..(k - 1) /\ \A i \in 1..(k - 1) : 1 + i - 1 = i
    BY <1>1
  <2>3. (IF 1 <= k - 1 THEN (k - 1) - 1 + 1 ELSE 0) = k - 1
    BY <1>1
  <2> QED BY <1>2, <2>1, <2>2, <2>3
<1>6. right \in Seq(S) /\ Len(right) = n - k /\ \A i \in 1..(n - k) : right[i] = s[k + i]
  <2>1. /\ SubSeq(s, k + 1, n) \in Seq(S)
        /\ Len(SubSeq(s, k + 1, n)) = IF k + 1 <= n THEN n - (k + 1) + 1 ELSE 0
        /\ \A i \in 1..(n - (k + 1) + 1) : SubSeq(s, k + 1, n)[i] = s[(k + 1) + i - 1]
    BY <1>1, <1>4, SubSeqProperties
  <2>2. 1..(n - (k + 1) + 1) = 1..(n - k) /\ \A i \in 1..(n - k) : (k + 1) + i - 1 = k + i
    BY <1>1
  <2>3. (IF k + 1 <= n THEN n - (k + 1) + 1 ELSE 0) = n - k
    BY <1>1
  <2> QED BY <1>3, <2>1, <2>2, <2>3
<1>7. PICK r : r = left \o right
  OBVIOUS
<1>8. /\ r \in Seq(S) /\ Len(r) = n - 1
      /\ \A i \in 1..(n - 1) : r[i] = IF i <= k - 1 THEN left[i] ELSE right[i - (k - 1)]
  <2>1. /\ r \in Seq(S) /\ Len(r) = Len(left) + Len(right)
        /\ \A i \in 1..(Len(left) + Len(right)) :
             r[i] = IF i <= Len(left) THEN left[i] ELSE right[i - Len(left)]
    BY <1>5, <1>6, <1>7, ConcatProperties
  <2>2. Len(left) + Len(right) = n - 1
    BY <1>1, <1>5, <1>6
  <2> QED BY <1>5, <2>1, <2>2
<1>9. \A i \in 1..(n - 1) : r[i] = IF i < k THEN s[i] ELSE s[i + 1]
  <2> SUFFICES ASSUME NEW i \in 1..(n - 1) PROVE r[i] = IF i < k THEN s[i] ELSE s[i + 1]
    OBVIOUS
  <2>1. CASE i < k
    <3>1. i \in 1..(k - 1) /\ i <= k - 1
      BY <1>1, <2>1
    <3> QED BY <1>5, <1>8, <2>1, <3>1
  <2>2. CASE ~(i < k)
    <3>1. i - (k - 1) \in 1..(n - k) /\ ~(i <= k - 1) /\ k + (i - (k - 1)) = i + 1
      BY <1>1, <2>2
    <3> QED BY <1>6, <1>8, <2>2, <3>1
  <2> QED BY <2>1, <2>2
<1>10. RemoveAt(s, k) = r
  BY <1>1, <1>2, <1>3, <1>7 DEF RemoveAt
<1>11. DOMAIN r = 1..(n - 1)
  BY <1>8
<1> QED BY <1>1, <1>8, <1>9, <1>10, <1>11

\* LREM takes at most one entry away, an equal one.
LEMMA RemovingOne ==
  ASSUME NEW s \in Seq(Runnable), NEW x
  PROVE  /\ RemoveFirst(s, x) \in Seq(Runnable)
         /\ \A j : Holds(RemoveFirst(s, x), j) => Holds(s, j)
         /\ \A j : Holds(s, j) => x.job = j \/ Holds(RemoveFirst(s, x), j)
         /\ Paid(s) => Paid(RemoveFirst(s, x))
<1> DEFINE I == {i \in 1..Len(s) : s[i] = x}
<1>1. PICK n \in Nat : n = Len(s) /\ DOMAIN s = 1..n
  OBVIOUS
<1>2. CASE I = {}
  <2>1. RemoveFirst(s, x) = s
    BY <1>2 DEF RemoveFirst
  <2> QED BY <2>1
<1>3. CASE I # {}
  <2>1. \E k \in I : \A i \in I : k <= i
    <3>1. I \subseteq Nat
      BY <1>1
    <3>2. PICK k \in I : \A i \in I : ~ (<<i, k>> \in OpToRel(<, Nat))
      BY <1>3, <3>1, NatLessThanWellFounded, WFMin
    <3>3. \A i \in I : ~ (i < k)
      BY <3>1, <3>2 DEF OpToRel
    <3> QED BY <3>1, <3>3
  <2>2. PICK k \in I : k = SelectInSeq(s, LAMBDA v : v = x)
    <3>1. Min(I) \in I
      BY <2>1 DEF Min
    <3> QED BY <1>3, <3>1 DEF SelectInSeq
  <2>3. k \in 1..n /\ s[k] = x
    BY <1>1, <2>2
  <2>4. PICK r : r = RemoveFirst(s, x) /\ r = RemoveAt(s, k)
    BY <1>1, <2>2, <2>3 DEF RemoveFirst
  <2>5. /\ r \in Seq(Runnable) /\ DOMAIN r = 1..(n - 1)
        /\ \A i \in 1..(n - 1) : r[i] = IF i < k THEN s[i] ELSE s[i + 1]
    BY <1>1, <2>3, <2>4, Removing
  <2>6. \A i \in DOMAIN r : \E m \in DOMAIN s : r[i] = s[m]
    <3> SUFFICES ASSUME NEW i \in DOMAIN r PROVE \E m \in DOMAIN s : r[i] = s[m]
      OBVIOUS
    <3>1. i \in 1..n /\ i + 1 \in 1..n
      BY <1>1, <2>5
    <3> QED BY <1>1, <2>5, <3>1
  <2>7. ASSUME NEW m \in DOMAIN s, m # k
        PROVE  \E i \in DOMAIN r : r[i] = s[m]
    <3>1. CASE m < k
      <4>1. m \in 1..(n - 1)
        BY <1>1, <2>3, <3>1
      <4> QED BY <2>5, <3>1, <4>1
    <3>2. CASE m > k
      <4>1. m - 1 \in 1..(n - 1) /\ ~(m - 1 < k) /\ (m - 1) + 1 = m
        BY <1>1, <2>3, <3>2
      <4>2. r[m - 1] = s[m] /\ m - 1 \in DOMAIN r
        BY <2>5, <4>1
      <4> QED BY <4>2
    <3> QED BY <1>1, <2>3, <2>7, <3>1, <3>2
  <2>8. \A j : Holds(r, j) => Holds(s, j)
    BY <2>6 DEF Holds
  <2>9. \A j : Holds(s, j) => x.job = j \/ Holds(r, j)
    BY <2>3, <2>7 DEF Holds
  <2>10. Paid(s) => Paid(r)
    BY <2>6 DEF Paid
  <2> QED BY <2>4, <2>5, <2>8, <2>9, <2>10
<1> QED BY <1>2, <1>3

-----------------------------------------------------------------------------
(* Types.                                                                  *)

\* An entry stays one after another attempt, a runnable one if it may be retried.
LEMMA Entries ==
  /\ Runnable \subseteq Entry
  /\ \A j \in Jobs : [job |-> j, attempts |-> 0] \in Runnable
  /\ \A e \in Runnable : /\ [e EXCEPT !.attempts = @ + 1] \in Entry
                         /\ MayRetry(e) => [e EXCEPT !.attempts = @ + 1] \in Runnable
                         /\ ~MayRetry(e) => e.attempts >= 2
                         /\ [e EXCEPT !.attempts = @ + 1].job = e.job
                         /\ [e EXCEPT !.attempts = @ + 1].attempts = e.attempts + 1
  /\ \A phase \in Phases : At(phase) \in Process
BY DEF Runnable, Entry, Attempts, MayRetry, At, Process

\* A process stays one when a run of it ends or loses its cover.
LEMMA ProcessFields ==
  ASSUME NEW p \in Process
  PROVE  /\ [p EXCEPT !.covers = FALSE] \in Process
         /\ \A failed \in BOOLEAN : [p EXCEPT !.phase = "finished", !.failed = failed] \in Process
         /\ p.phase \in Phases /\ p.covers \in BOOLEAN /\ p.failed \in BOOLEAN
BY DEF Process, Phases

\* How a run of the entry raw ends: retried, set aside after its last failure, or
\* not failed.
Ended(w, raw, again) ==
  /\ raw = worker[w].raw /\ worker[w].phase = "finished"
  /\ raw.job \in Jobs /\ again.job = raw.job /\ again.attempts = raw.attempts + 1
  /\ processing' = RemoveFirst(processing, raw)
  /\ \/ /\ worker[w].failed /\ again \in Runnable
        /\ jobs' = <<again>> \o jobs /\ dead' = dead /\ owed' = owed
     \/ /\ worker[w].failed /\ raw.attempts >= 2
        /\ jobs' = jobs /\ dead' = <<again>> \o dead
        /\ owed' = [owed EXCEPT ![raw.job] = @ /\ ~worker[w].covers]
     \/ /\ ~worker[w].failed
        /\ jobs' = jobs /\ owed' = owed
        /\ dead' = dead \/ (raw.job \in Malformed /\ dead' = <<raw>> \o dead)

\* The transaction that ends a run is one of the three endings.
LEMMA AcknowledgeCases ==
  ASSUME CountInv, NEW w \in Workers, Acknowledge(w)
  PROVE  \E raw \in Runnable, again \in Entry : Ended(w, raw, again)
<1>1. /\ worker[w].raw \in Runnable /\ worker[w].phase = "finished"
      /\ worker[w].failed => worker[w].raw.job \notin Malformed
  BY DEF Acknowledge, CountInv, Counted
<1>2. PICK raw \in Runnable : raw = worker[w].raw
  BY <1>1
<1>3. PICK again \in Entry : /\ again = [raw EXCEPT !.attempts = @ + 1]
                             /\ again.job = raw.job /\ again.attempts = raw.attempts + 1
                             /\ MayRetry(raw) => again \in Runnable
                             /\ ~MayRetry(raw) => raw.attempts >= 2
  BY Entries
<1>4. processing' = RemoveFirst(processing, raw) /\ raw.job \in Jobs
  <2>1. raw.job \in Jobs
    BY <1>2 DEF Runnable
  <2> QED BY <1>2, <2>1 DEF Acknowledge
<1>5. worker[w].failed \in BOOLEAN /\ worker[w].covers \in BOOLEAN /\ owed \in [Jobs -> BOOLEAN]
  BY ProcessFields DEF CountInv, QueueTypeOK
<1>6. owed' = [owed EXCEPT ![raw.job] = @ /\ ~(worker[w].failed /\ ~MayRetry(raw) /\ worker[w].covers)]
  BY <1>2 DEF Acknowledge
<1>7. CASE worker[w].failed /\ MayRetry(raw)
  <2>1. jobs' = <<again>> \o jobs /\ dead' = dead
    BY <1>1, <1>2, <1>3, <1>7 DEF Acknowledge
  <2>2. owed' = owed
    BY <1>4, <1>5, <1>6, <1>7
  <2> QED BY <1>1, <1>2, <1>3, <1>4, <1>7, <2>1, <2>2 DEF Ended
<1>8. CASE worker[w].failed /\ ~MayRetry(raw)
  <2>1. jobs' = jobs /\ dead' = <<again>> \o dead
    BY <1>2, <1>3, <1>8 DEF Acknowledge
  <2>2. owed' = [owed EXCEPT ![raw.job] = @ /\ ~worker[w].covers]
    BY <1>6, <1>8
  <2> QED BY <1>1, <1>2, <1>3, <1>4, <1>8, <2>1, <2>2 DEF Ended
<1>9. CASE ~worker[w].failed
  <2>1. jobs' = jobs /\ (dead' = dead \/ (raw.job \in Malformed /\ dead' = <<raw>> \o dead))
    BY <1>2, <1>9 DEF Acknowledge
  <2>2. owed' = owed
    BY <1>4, <1>5, <1>6, <1>9
  <2> QED BY <1>1, <1>2, <1>3, <1>4, <1>9, <2>1, <2>2 DEF Ended
<1> QED BY <1>7, <1>8, <1>9

\* Every step keeps the shape of the queue.
LEMMA TypeStep ==
  ASSUME CountInv, [QueueNext]_queueVars
  PROVE  QueueTypeOK'
<1> USE Entries, JobQueueAssumption
<1>1. /\ jobs \in Seq(Runnable) /\ processing \in Seq(Runnable) /\ dead \in Seq(Entry)
      /\ lease \in Workers \cup {None, Orphan}
      /\ worker \in [Workers -> Process]
      /\ enqueued \in [Jobs -> 0..MaxEnqueues]
      /\ faults \in 0..MaxFaults
      /\ failures \in [Jobs -> 0..MaxFailures]
      /\ owed \in [Jobs -> BOOLEAN]
  BY DEF CountInv, QueueTypeOK
<1>2. ASSUME NEW j \in Jobs, Enqueue(j)
      PROVE  QueueTypeOK'
  <2>1. jobs' \in Seq(Runnable)
    BY <1>1, <1>2, Prepending DEF Enqueue
  <2>2. worker' \in [Workers -> Process]
    <3>1. ASSUME NEW w \in Workers
          PROVE  [worker[w] EXCEPT !.covers = FALSE] \in Process
      <4>1. worker[w] \in Process
        BY <1>1
      <4> QED BY <4>1, ProcessFields
    <3> QED BY <1>1, <1>2, <3>1 DEF Enqueue
  <2>3. enqueued' \in [Jobs -> 0..MaxEnqueues] /\ owed' \in [Jobs -> BOOLEAN]
    BY <1>1, <1>2 DEF Enqueue
  <2> QED BY <1>1, <1>2, <2>1, <2>2, <2>3 DEF Enqueue, QueueTypeOK
<1>3. ASSUME NEW w \in Workers, Boot(w) \/ Acquire(w) \/ GiveUp(w) \/ Recovered(w) \/ Evicted(w)
      PROVE  QueueTypeOK'
  <2>1. worker' \in [Workers -> Process] /\ lease' \in Workers \cup {None, Orphan}
    BY <1>1, <1>3 DEF Boot, Acquire, GiveUp, Recovered, Evicted, Phases
  <2> QED BY <1>1, <1>3, <2>1 DEF Boot, Acquire, GiveUp, Recovered, Evicted, QueueTypeOK
<1>4. ASSUME NEW w \in Workers, Recover(w)
      PROVE  QueueTypeOK'
  <2>1. processing' \in Seq(Runnable) /\ jobs' \in Seq(Runnable)
    BY <1>1, <1>4, TakingLast, Prepending DEF Recover
  <2> QED BY <1>1, <1>4, <2>1 DEF Recover, QueueTypeOK
<1>5. ASSUME NEW w \in Workers, Take(w)
      PROVE  QueueTypeOK'
  <2>1. Last(jobs) \in Runnable /\ jobs' \in Seq(Runnable)
    BY <1>1, <1>5, TakingLast DEF Take
  <2>2. processing' \in Seq(Runnable)
    BY <1>1, <1>5, <2>1, Prepending DEF Take, Reserved
  <2>3. worker' \in [Workers -> Process]
    BY <1>1, <1>5, <2>1 DEF Take, Process, Phases
  <2> QED BY <1>1, <1>5, <2>1, <2>2, <2>3 DEF Take, QueueTypeOK
<1>6. ASSUME NEW w \in Workers, NEW failed \in BOOLEAN, Finish(w, failed)
      PROVE  QueueTypeOK'
  <2>1. worker[w].raw \in Runnable /\ worker[w].raw.job \in Jobs
    BY <1>6 DEF Finish, CountInv, Counted, Runnable
  <2>2. worker' \in [Workers -> Process]
    <3>1. [worker[w] EXCEPT !.phase = "finished", !.failed = failed] \in Process
      <4>1. worker[w] \in Process
        BY <1>1
      <4> QED BY <4>1, ProcessFields
    <3>2. worker' = [worker EXCEPT ![w] = [worker[w] EXCEPT !.phase = "finished", !.failed = failed]]
      BY <1>1, <1>6 DEF Finish, Process
    <3> QED BY <1>1, <3>1, <3>2
  <2>3. failures' \in [Jobs -> 0..MaxFailures]
    BY <1>1, <1>6, <2>1 DEF Finish
  <2>4. owed' \in [Jobs -> BOOLEAN]
    BY <1>1, <1>6, <2>1 DEF Finish, Process
  <2> QED BY <1>1, <1>6, <2>2, <2>3, <2>4 DEF Finish, QueueTypeOK
<1>7. ASSUME NEW w \in Workers, Acknowledge(w)
      PROVE  QueueTypeOK'
  <2>1. PICK raw \in Runnable, again \in Entry : Ended(w, raw, again)
    BY <1>7, AcknowledgeCases
  <2>2. processing' \in Seq(Runnable) /\ jobs' \in Seq(Runnable)
    <3>1. again \in Runnable => <<again>> \o jobs \in Seq(Runnable)
      BY <1>1, Prepending
    <3>2. RemoveFirst(processing, raw) \in Seq(Runnable)
      BY <1>1, RemovingOne
    <3>3. processing' = RemoveFirst(processing, raw)
      BY <2>1 DEF Ended
    <3>4. jobs' = jobs \/ (again \in Runnable /\ jobs' = <<again>> \o jobs)
      BY <2>1 DEF Ended
    <3> QED BY <1>1, <3>1, <3>2, <3>3, <3>4
  <2>3. raw \in Runnable /\ again \in Entry /\ raw \in Entry
    BY <2>1
  <2>4. dead' \in Seq(Entry)
    <3>1. <<again>> \o dead \in Seq(Entry) /\ <<raw>> \o dead \in Seq(Entry)
      BY <1>1, <2>3, Prepending
    <3> QED BY <1>1, <2>1, <3>1 DEF Ended
  <2>5. worker' \in [Workers -> Process]
    BY <1>1, <1>7 DEF Acknowledge, Phases
  <2>6. owed' \in [Jobs -> BOOLEAN]
    BY <1>1, <2>1, ProcessFields DEF Ended
  <2> QED BY <1>1, <1>7, <2>2, <2>4, <2>5, <2>6 DEF Acknowledge, QueueTypeOK
<1>8. ASSUME NEW w \in Workers, Crash(w) \/ Stop(w)
      PROVE  QueueTypeOK'
  <2>1. worker' \in [Workers -> Process] /\ lease' \in Workers \cup {None, Orphan}
    BY <1>1, <1>8 DEF Crash, Stop, Phases
  <2>2. faults' \in 0..MaxFaults
    BY <1>1, <1>8 DEF Crash, Stop
  <2> QED BY <1>1, <1>8, <2>1, <2>2 DEF Crash, Stop, QueueTypeOK
<1>9. CASE ExpireLease
  BY <1>1, <1>9 DEF ExpireLease, QueueTypeOK
<1>10. CASE Stall
  <2>1. faults' \in 0..MaxFaults
    BY <1>1, <1>10 DEF Stall
  <2> QED BY <1>1, <1>10, <2>1 DEF Stall, QueueTypeOK
<1>11. CASE UNCHANGED queueVars
  BY <1>1, <1>11 DEF queueVars, QueueTypeOK
<1> QED BY <1>2, <1>3, <1>4, <1>5, <1>6, <1>7, <1>8, <1>9, <1>10, <1>11 DEF QueueNext

-----------------------------------------------------------------------------
(* One worker at a time.                                                   *)

\* Every step leaves the lease with the worker that is live.
LEMMA LeasedStep ==
  ASSUME QueueInv, [QueueNext]_queueVars
  PROVE  Leased'
<1>1. /\ worker \in [Workers -> Process] /\ None \notin Workers /\ Orphan \notin Workers
      /\ \A w \in Workers : worker[w].phase \in Live => lease = w
  BY JobQueueAssumption DEF QueueInv, CountInv, QueueTypeOK, Leased
<1>2. ASSUME NEW j \in Jobs, Enqueue(j)
      PROVE  Leased'
  <2>1. \A w \in Workers : worker'[w].phase = worker[w].phase
    BY <1>1, <1>2 DEF Enqueue, Process
  <2> QED BY <1>1, <1>2, <2>1 DEF Enqueue, Leased
<1>3. ASSUME NEW w \in Workers, Boot(w) \/ GiveUp(w) \/ Evicted(w)
      PROVE  Leased'
  <2>1. \A v \in Workers : worker'[v].phase \in Live => worker[v].phase \in Live
    BY <1>1, <1>3 DEF Boot, GiveUp, Evicted, At, Live
  <2> QED BY <1>1, <1>3, <2>1 DEF Boot, GiveUp, Evicted, Leased
<1>4. ASSUME NEW w \in Workers, Acquire(w)
      PROVE  Leased'
  <2>1. \A v \in Workers : worker[v].phase \notin Live
    BY <1>1, <1>4 DEF Acquire, LeaseFree
  <2> QED BY <1>1, <1>4, <2>1 DEF Acquire, Leased
<1>5. ASSUME NEW w \in Workers, NEW failed \in BOOLEAN,
             Recover(w) \/ Recovered(w) \/ Take(w) \/ Finish(w, failed) \/ Acknowledge(w)
      PROVE  Leased'
  <2>1. worker[w].phase \in Live /\ lease' = lease
    BY <1>5 DEF Recover, Recovered, Take, Finish, Acknowledge, Live
  <2>2. \A v \in Workers \ {w} : worker'[v] = worker[v]
    BY <1>1, <1>5 DEF Recover, Recovered, Take, Finish, Acknowledge
  <2> QED BY <1>1, <2>1, <2>2 DEF Leased
<1>6. ASSUME NEW w \in Workers, Crash(w) \/ Stop(w)
      PROVE  Leased'
  <2>1. worker'[w].phase \notin Live /\ \A v \in Workers \ {w} : worker'[v] = worker[v]
    BY <1>1, <1>6 DEF Crash, Stop, At, Live
  <2>2. lease # w => lease' = lease
    BY <1>6 DEF Crash, Stop
  <2>3. lease = w => \A v \in Workers \ {w} : worker[v].phase \notin Live
    BY <1>1
  <2> QED BY <1>1, <2>1, <2>2, <2>3 DEF Leased
<1>7. CASE ExpireLease
  BY <1>1, <1>7 DEF ExpireLease, Leased
<1>8. CASE Stall
  BY <1>8 DEF Stall, QueueInv
<1>9. CASE UNCHANGED queueVars
  BY <1>1, <1>9 DEF queueVars, Leased
<1> QED BY <1>2, <1>3, <1>4, <1>5, <1>6, <1>7, <1>8, <1>9 DEF QueueNext

-----------------------------------------------------------------------------
(* Paid attempts, and entries of the jobs that are owed, with any lease.     *)

\* What a step keeps, whoever else is at work.
Keeps == Counted' /\ DeadAfterThreeFailures' /\ (NoJobLost => NoJobLost')

\* Steps that leave the lists and the history alone and make no worker busy.
LEMMA IdleSteps ==
  ASSUME CountInv, UNCHANGED <<jobs, processing, dead, failures, owed>>,
         \A w \in Workers : \/ worker'[w] = worker[w]
                            \/ worker'[w].phase \in {"down", "waiting", "recovering", "polling"}
  PROVE  Keeps
<1>1. Counted'
  BY DEF CountInv, Counted, Paid
<1>2. (NoJobLost => NoJobLost') /\ DeadAfterThreeFailures'
  BY DEF CountInv, NoJobLost, DeadAfterThreeFailures, Holds
<1> QED BY <1>1, <1>2 DEF Keeps

\* enqueue() adds an unpaid first attempt and makes its job owed.
LEMMA EnqueueStep ==
  ASSUME CountInv, NEW j \in Jobs, Enqueue(j)
  PROVE  /\ Keeps
         /\ \A k : Holds(jobs, k)' <=> k = j \/ Holds(jobs, k)
         /\ UNCHANGED <<processing, dead, failures>> /\ owed' = [owed EXCEPT ![j] = TRUE]
         /\ \A w \in Workers :
              /\ worker'[w].phase = worker[w].phase
              /\ worker'[w].raw = worker[w].raw
              /\ worker'[w].failed = worker[w].failed
              /\ \/ worker'[w].covers = worker[w].covers /\ (worker[w].raw = None \/ worker[w].raw.job # j)
                 \/ ~worker'[w].covers /\ worker[w].raw.job = j
<1>1. /\ worker \in [Workers -> Process] /\ jobs \in Seq(Runnable) /\ owed \in [Jobs -> BOOLEAN]
      /\ failures \in [Jobs -> 0..MaxFailures]
      /\ UNCHANGED <<processing, dead, failures>>
  BY DEF CountInv, QueueTypeOK, Enqueue
<1>2. PICK e \in Runnable : e = [job |-> j, attempts |-> 0]
  BY Entries
<1>3. /\ jobs' = <<e>> \o jobs /\ e.job = j /\ e.attempts = 0
      /\ owed' = [owed EXCEPT ![j] = TRUE]
  BY <1>2 DEF Enqueue
<1>4. \A k : Holds(jobs, k)' <=> k = j \/ Holds(jobs, k)
  <2>1. \A k : Holds(<<e>> \o jobs, k) <=> k = j \/ Holds(jobs, k)
    BY <1>1, <1>3, PrependingHolds
  <2>2. \A k : Holds(jobs, k)' <=> Holds(<<e>> \o jobs, k)
    BY <1>3 DEF Holds
  <2> QED BY <2>1, <2>2
<1>5. Paid(jobs)' /\ Paid(processing)'
  <2>1. e.attempts <= failures[e.job]
    BY <1>1, <1>3, JobQueueAssumption
  <2>2. Paid(<<e>> \o jobs)
    BY <1>1, <2>1, PrependingHolds DEF CountInv, Counted
  <2> QED BY <1>1, <1>3, <2>2 DEF CountInv, Counted, Paid
<1>6. \A w \in Workers : /\ worker'[w].phase = worker[w].phase
                         /\ worker'[w].raw = worker[w].raw
                         /\ worker'[w].failed = worker[w].failed
                         /\ \/ /\ worker'[w].covers = worker[w].covers
                               /\ worker[w].raw = None \/ worker[w].raw.job # j
                            \/ ~worker'[w].covers /\ worker[w].raw.job = j
  BY <1>1 DEF Enqueue, Process
<1>7. Counted'
  BY <1>1, <1>5, <1>6 DEF CountInv, Counted
<1>8. NoJobLost => NoJobLost'
  BY <1>1, <1>3, <1>4 DEF NoJobLost, Holds
<1>9. DeadAfterThreeFailures'
  BY <1>1 DEF CountInv, DeadAfterThreeFailures, Holds
<1> QED BY <1>1, <1>3, <1>4, <1>6, <1>7, <1>8, <1>9 DEF Keeps

\* Recovery moves an entry from the right of one list to the left of the other.
LEMMA RecoverStep ==
  ASSUME CountInv, NEW w \in Workers, Recover(w)
  PROVE  /\ Keeps
         /\ \A k : Holds(jobs, k)' \/ Holds(processing, k)' <=> Holds(jobs, k) \/ Holds(processing, k)
<1>1. /\ jobs \in Seq(Runnable) /\ processing \in Seq(Runnable) /\ processing # <<>>
      /\ jobs' = <<Last(processing)>> \o jobs /\ processing' = Front(processing)
      /\ UNCHANGED <<dead, worker, failures, owed>>
  BY DEF CountInv, QueueTypeOK, Recover
<1>2. PICK e \in Runnable : e = Last(processing)
  BY <1>1, TakingLast
<1>3. /\ \A k : Holds(processing, k) <=> e.job = k \/ Holds(Front(processing), k)
      /\ Paid(Front(processing)) /\ e.attempts <= failures[e.job]
  BY <1>1, <1>2, TakingHolds DEF CountInv, Counted
<1>4. /\ \A k : Holds(<<e>> \o jobs, k) <=> e.job = k \/ Holds(jobs, k)
      /\ Paid(<<e>> \o jobs)
  BY <1>1, <1>3, PrependingHolds DEF CountInv, Counted
<1>5. /\ \A k : Holds(jobs, k)' <=> Holds(<<e>> \o jobs, k)
      /\ \A k : Holds(processing, k)' <=> Holds(Front(processing), k)
      /\ Paid(jobs)' /\ Paid(processing)'
  BY <1>1, <1>2, <1>3, <1>4 DEF Holds, Paid
<1>6. \A k : Holds(jobs, k)' \/ Holds(processing, k)' <=> Holds(jobs, k) \/ Holds(processing, k)
  BY <1>3, <1>4, <1>5
<1>7. Counted'
  BY <1>1, <1>5 DEF CountInv, Counted
<1>8. NoJobLost => NoJobLost'
  BY <1>1, <1>6 DEF NoJobLost, Holds
<1>9. DeadAfterThreeFailures'
  BY <1>1 DEF CountInv, DeadAfterThreeFailures, Holds
<1> QED BY <1>6, <1>7, <1>8, <1>9 DEF Keeps

\* The entry that is taken stays in the processing list.
LEMMA TakeStep ==
  ASSUME CountInv, NEW w \in Workers, Take(w)
  PROVE  /\ Keeps
         /\ \A k : Holds(jobs, k)' \/ Holds(processing, k)' <=> Holds(jobs, k) \/ Holds(processing, k)
         /\ UNCHANGED owed
         /\ \E e \in Runnable :
              /\ Holds(jobs, e.job)
              /\ processing' = <<e>> \o processing
              /\ worker' = [worker EXCEPT ![w] = [phase |-> "running", raw |-> e,
                                                  covers |-> TRUE, failed |-> FALSE]]
<1>1. /\ jobs \in Seq(Runnable) /\ jobs # <<>> /\ processing \in Seq(Runnable)
      /\ worker \in [Workers -> Process]
      /\ jobs' = Front(jobs) /\ UNCHANGED <<dead, failures, owed>>
  BY DEF CountInv, QueueTypeOK, Take
<1>2. PICK e \in Runnable : e = Last(jobs)
  BY <1>1, TakingLast
<1>3. /\ processing' = <<e>> \o processing
      /\ worker' = [worker EXCEPT ![w] = [phase |-> "running", raw |-> e,
                                          covers |-> TRUE, failed |-> FALSE]]
  BY <1>2 DEF Take, Reserved
<1>4. /\ worker'[w] = [phase |-> "running", raw |-> e, covers |-> TRUE, failed |-> FALSE]
      /\ \A v \in Workers \ {w} : worker'[v] = worker[v]
  BY <1>1, <1>3
<1>5. /\ \A k : Holds(jobs, k) <=> e.job = k \/ Holds(Front(jobs), k)
      /\ Paid(Front(jobs)) /\ e.attempts <= failures[e.job]
  BY <1>1, <1>2, TakingHolds DEF CountInv, Counted
<1>6. /\ \A k : Holds(<<e>> \o processing, k) <=> e.job = k \/ Holds(processing, k)
      /\ Paid(<<e>> \o processing)
  BY <1>1, <1>5, PrependingHolds DEF CountInv, Counted
<1>7. /\ \A k : Holds(jobs, k)' <=> Holds(Front(jobs), k)
      /\ \A k : Holds(processing, k)' <=> Holds(<<e>> \o processing, k)
      /\ Paid(jobs)' /\ Paid(processing)'
  BY <1>1, <1>3, <1>5, <1>6 DEF Holds, Paid
<1>8. \A k : Holds(jobs, k)' \/ Holds(processing, k)' <=> Holds(jobs, k) \/ Holds(processing, k)
  BY <1>5, <1>6, <1>7
<1>9. Counted'
  BY <1>1, <1>4, <1>5, <1>7 DEF CountInv, Counted
<1>10. NoJobLost => NoJobLost'
  BY <1>1, <1>8 DEF NoJobLost, Holds
<1>11. DeadAfterThreeFailures'
  BY <1>1 DEF CountInv, DeadAfterThreeFailures, Holds
<1> QED BY <1>1, <1>3, <1>5, <1>8, <1>9, <1>10, <1>11 DEF Keeps

\* A run settles its job if it covers it, or pays for one more attempt.
LEMMA FinishStep ==
  ASSUME CountInv, NEW w \in Workers, NEW failed \in BOOLEAN, Finish(w, failed)
  PROVE  /\ Keeps /\ UNCHANGED <<jobs, processing>>
         /\ worker[w].phase = "running" /\ worker[w].raw \in Runnable
         /\ worker'[w].phase = "finished" /\ worker'[w].raw = worker[w].raw
         /\ worker'[w].failed = failed /\ worker'[w].covers = worker[w].covers
         /\ \A v \in Workers \ {w} : worker'[v] = worker[v]
         /\ \A k \in Jobs : owed'[k] => owed[k]
         /\ ~failed /\ worker[w].covers => ~owed'[worker[w].raw.job]
<1>1. /\ worker \in [Workers -> Process] /\ worker[w].phase = "running"
      /\ failures \in [Jobs -> 0..MaxFailures] /\ owed \in [Jobs -> BOOLEAN]
      /\ worker[w].raw \in Runnable
      /\ UNCHANGED <<jobs, processing, dead>>
  BY DEF CountInv, QueueTypeOK, Finish, Counted
<1>2. PICK raw \in Runnable : raw = worker[w].raw
  BY <1>1
<1>3. raw.job \in Jobs /\ worker[w].covers \in BOOLEAN /\ raw.attempts \in Nat
  <2>1. worker[w].covers \in BOOLEAN
    BY <1>1, ProcessFields
  <2> QED BY <2>1 DEF Runnable, Attempts
<1>4. /\ worker'[w].phase = "finished" /\ worker'[w].raw = raw /\ worker'[w].failed = failed
      /\ worker'[w].covers = worker[w].covers
      /\ \A v \in Workers \ {w} : worker'[v] = worker[v]
  BY <1>1, <1>2 DEF Finish, Process
<1>5. /\ failed => raw.job \notin Malformed
      /\ failures' = IF failed THEN [failures EXCEPT ![raw.job] = @ + 1] ELSE failures
      /\ owed' = [owed EXCEPT ![raw.job] = @ /\ ~(worker[w].covers /\ ~failed)]
  BY <1>2 DEF Finish
<1>6. \A k \in Jobs : failures[k] <= failures'[k] /\ failures[k] \in Nat /\ failures'[k] \in Nat
  BY <1>1, <1>3, <1>5, JobQueueAssumption
<1>7. failed => failures'[raw.job] = failures[raw.job] + 1
  BY <1>1, <1>3, <1>5
<1>8. ASSUME NEW e \in Runnable, e.attempts <= failures[e.job]
      PROVE  e.attempts <= failures'[e.job]
  <2>1. e.job \in Jobs /\ e.attempts \in Nat
    BY DEF Runnable
  <2> QED BY <1>6, <1>8, <2>1
<1>9. Paid(jobs)' /\ Paid(processing)'
  <2>1. jobs \in Seq(Runnable) /\ processing \in Seq(Runnable) /\ Paid(jobs) /\ Paid(processing)
    BY DEF CountInv, QueueTypeOK, Counted
  <2>2. ASSUME NEW list \in Seq(Runnable), NEW i \in DOMAIN list,
               list[i].attempts <= failures[list[i].job]
        PROVE  list[i].attempts <= failures'[list[i].job]
    <3>1. list[i] \in Runnable
      BY <2>2, ElementOfSeq
    <3> QED BY <1>8, <2>2, <3>1
  <2> QED BY <1>1, <2>1, <2>2 DEF Paid
<1>10. Counted'
  <2>1. raw.attempts <= failures[raw.job]
    BY <1>1, <1>2 DEF CountInv, Counted
  <2>2. raw.attempts <= failures'[raw.job] /\ (failed => raw.attempts < failures'[raw.job])
    BY <1>3, <1>6, <1>7, <2>1
  <2> SUFFICES ASSUME NEW v \in Workers, worker'[v].phase \in {"running", "finished"}
               PROVE  /\ worker'[v].raw \in Runnable
                      /\ worker'[v].raw.attempts <= failures'[worker'[v].raw.job]
                      /\ worker'[v].phase = "finished" /\ worker'[v].failed =>
                           /\ worker'[v].raw.attempts < failures'[worker'[v].raw.job]
                           /\ worker'[v].raw.job \notin Malformed
    BY <1>9 DEF Counted
  <2>3. CASE v = w
    BY <1>4, <1>5, <2>2, <2>3
  <2>4. CASE v # w
    <3>1. /\ worker'[v] = worker[v] /\ worker[v].raw \in Runnable
          /\ worker[v].raw.attempts <= failures[worker[v].raw.job]
          /\ worker[v].phase = "finished" /\ worker[v].failed =>
               /\ worker[v].raw.attempts < failures[worker[v].raw.job]
               /\ worker[v].raw.job \notin Malformed
      BY <1>4, <2>4 DEF CountInv, Counted
    <3>2. worker[v].raw.job \in Jobs /\ worker[v].raw.attempts \in Nat
      BY <3>1 DEF Runnable
    <3>3. /\ worker[v].raw.attempts <= failures'[worker[v].raw.job]
          /\ worker[v].raw.attempts < failures[worker[v].raw.job] =>
               worker[v].raw.attempts < failures'[worker[v].raw.job]
      BY <1>6, <3>1, <3>2
    <3> QED BY <3>1, <3>3
  <2> QED BY <2>3, <2>4
<1>11. (\A k \in Jobs : owed'[k] => owed[k]) /\ (~failed /\ worker[w].covers => ~owed'[raw.job])
  BY <1>1, <1>3, <1>5
<1>12. NoJobLost => NoJobLost'
  BY <1>1, <1>11 DEF NoJobLost, Holds
<1>13. DeadAfterThreeFailures'
  <2> SUFFICES ASSUME NEW k \in Jobs \ Malformed, Holds(dead, k) PROVE failures'[k] >= Attempts
    BY <1>1 DEF DeadAfterThreeFailures, Holds
  <2>1. failures[k] >= Attempts
    BY DEF CountInv, DeadAfterThreeFailures
  <2> QED BY <1>6, <2>1 DEF Attempts
<1> QED BY <1>1, <1>2, <1>4, <1>10, <1>11, <1>12, <1>13 DEF Keeps

\* A message that leaves the processing list is retried, or its job is not owed
\* any longer, or the run did not cover it.
LEMMA AcknowledgeStep ==
  ASSUME CountInv, NEW w \in Workers, Acknowledge(w)
  PROVE  /\ Counted' /\ DeadAfterThreeFailures'
         /\ worker[w].phase = "finished" /\ worker[w].raw \in Runnable
         /\ worker'[w].phase = "polling"
         /\ \A v \in Workers \ {w} : worker'[v] = worker[v]
         /\ processing' = RemoveFirst(processing, worker[w].raw)
         /\ \A k \in Jobs : owed'[k] => owed[k]
         /\ \A k : Holds(jobs, k) => Holds(jobs, k)'
         /\ \A k : Holds(jobs, k)' => Holds(jobs, k) \/ k = worker[w].raw.job
         /\ \A k : Holds(processing, k)' => Holds(processing, k)
         /\ \A k : Holds(processing, k) => Holds(processing, k)' \/ k = worker[w].raw.job
         /\ \A k : worker[w].failed /\ k = worker[w].raw.job =>
              Holds(jobs, k)' \/ ~worker[w].covers \/ ~owed'[k]
<1>1. /\ worker \in [Workers -> Process] /\ owed \in [Jobs -> BOOLEAN]
      /\ failures \in [Jobs -> 0..MaxFailures]
      /\ jobs \in Seq(Runnable) /\ processing \in Seq(Runnable) /\ dead \in Seq(Entry)
      /\ failures' = failures
      /\ worker[w].phase = "finished" /\ worker' = [worker EXCEPT ![w] = At("polling")]
  BY DEF CountInv, QueueTypeOK, Acknowledge
<1>2. PICK raw \in Runnable, again \in Entry : Ended(w, raw, again)
  BY AcknowledgeCases
<1>3. /\ worker'[w].phase = "polling"
      /\ \A v \in Workers \ {w} : worker'[v] = worker[v]
  BY <1>1 DEF At
<1>4. /\ processing' = RemoveFirst(processing, raw) /\ raw.job \in Jobs /\ raw.attempts \in Nat
      /\ raw = worker[w].raw
      /\ worker[w].failed => raw.attempts < failures[raw.job] /\ raw.job \notin Malformed
  BY <1>1, <1>2 DEF Ended, CountInv, Counted, Runnable
<1>5. \A k \in Jobs : owed'[k] => owed[k]
  BY <1>1, <1>2 DEF Ended
<1>6. /\ \A k : Holds(jobs, k) => Holds(jobs, k)'
      /\ \A k : Holds(jobs, k)' => Holds(jobs, k) \/ k = raw.job
      /\ Paid(jobs)'
      /\ worker[w].failed => Holds(jobs, raw.job)' \/ ~worker[w].covers \/ ~owed'[raw.job]
  <2>1. CASE jobs' = jobs /\ owed' = [owed EXCEPT ![raw.job] = @ /\ ~worker[w].covers]
    <3>1. ~owed'[raw.job] \/ ~worker[w].covers
      BY <1>1, <1>4, <2>1
    <3> QED BY <1>1, <2>1, <3>1 DEF Holds, CountInv, Counted, Paid
  <2>2. CASE jobs' = jobs /\ ~worker[w].failed
    BY <1>1, <2>2 DEF Holds, CountInv, Counted, Paid
  <2>3. CASE worker[w].failed /\ again \in Runnable /\ jobs' = <<again>> \o jobs
    <3>1. again.job = raw.job /\ again.attempts <= failures[again.job]
      BY <1>1, <1>2, <1>4, <2>3 DEF Ended
    <3>2. /\ \A k : Holds(<<again>> \o jobs, k) <=> again.job = k \/ Holds(jobs, k)
          /\ Paid(<<again>> \o jobs)
      BY <1>1, <2>3, <3>1, PrependingHolds DEF CountInv, Counted
    <3>3. /\ \A k : Holds(jobs, k)' <=> Holds(<<again>> \o jobs, k)
          /\ Paid(jobs)'
      BY <1>1, <2>3, <3>2 DEF Holds, Paid
    <3> QED BY <3>1, <3>2, <3>3
  <2> QED BY <1>2, <2>1, <2>2, <2>3 DEF Ended
<1>7. /\ \A k : Holds(processing, k)' <=> Holds(RemoveFirst(processing, raw), k)
      /\ \A k : Holds(RemoveFirst(processing, raw), k) => Holds(processing, k)
      /\ \A k : Holds(processing, k) => raw.job = k \/ Holds(RemoveFirst(processing, raw), k)
      /\ Paid(processing)'
  <2>1. /\ \A k : Holds(RemoveFirst(processing, raw), k) => Holds(processing, k)
        /\ \A k : Holds(processing, k) => raw.job = k \/ Holds(RemoveFirst(processing, raw), k)
        /\ Paid(RemoveFirst(processing, raw))
    BY <1>1, RemovingOne DEF CountInv, Counted
  <2> QED BY <1>1, <1>4, <2>1 DEF Holds, Paid
<1>8. Counted'
  BY <1>1, <1>3, <1>6, <1>7 DEF CountInv, Counted
<1>9. DeadAfterThreeFailures'
  <2> SUFFICES ASSUME NEW k \in Jobs \ Malformed, Holds(dead, k)' PROVE failures[k] >= Attempts
    BY <1>1 DEF DeadAfterThreeFailures
  <2>1. Holds(dead, k) => failures[k] >= Attempts
    BY DEF CountInv, DeadAfterThreeFailures
  <2>2. CASE dead' = dead
    BY <2>1, <2>2 DEF Holds
  <2>3. CASE worker[w].failed /\ raw.attempts >= 2 /\ dead' = <<again>> \o dead
    <3>1. Holds(<<again>> \o dead, k)
      BY <2>3 DEF Holds
    <3>2. again.job = k \/ Holds(dead, k)
      BY <1>1, <3>1, PrependingHolds
    <3>3. failures[raw.job] >= Attempts /\ again.job = raw.job
      BY <1>1, <1>2, <1>4, <2>3 DEF Attempts, Ended
    <3> QED BY <2>1, <3>2, <3>3
  <2>4. CASE raw.job \in Malformed /\ dead' = <<raw>> \o dead
    <3>1. Holds(<<raw>> \o dead, k) /\ raw \in Entry
      BY <2>4, Entries DEF Holds
    <3>2. raw.job = k \/ Holds(dead, k)
      BY <1>1, <3>1, PrependingHolds
    <3> QED BY <2>1, <2>4, <3>2
  <2> QED BY <1>2, <2>2, <2>3, <2>4 DEF Ended
<1>10. \A k : /\ Holds(processing, k)' => Holds(processing, k)
              /\ Holds(processing, k) => Holds(processing, k)' \/ k = raw.job
  BY <1>7
<1>11. worker[w].phase = "finished" /\ worker[w].raw \in Runnable /\ worker[w].raw = raw
  BY <1>1, <1>2, <1>4
<1>12. /\ \A k : Holds(jobs, k)' => Holds(jobs, k) \/ k = worker[w].raw.job
       /\ processing' = RemoveFirst(processing, worker[w].raw)
  BY <1>4, <1>6
<1>13. /\ \A k : Holds(processing, k)' => Holds(processing, k)
       /\ \A k : Holds(processing, k) => Holds(processing, k)' \/ k = worker[w].raw.job
  BY <1>4, <1>10
<1>14. \A k : worker[w].failed /\ k = worker[w].raw.job =>
         Holds(jobs, k)' \/ ~worker[w].covers \/ ~owed'[k]
  BY <1>6, <1>11
<1>15. \A k : Holds(jobs, k) => Holds(jobs, k)'
  BY <1>6
<1> QED BY <1>3, <1>5, <1>8, <1>9, <1>11, <1>12, <1>13, <1>14, <1>15, Zenon

\* Steps that only move a process between its idle phases, lose or grant a lease.
Idle(w) == Boot(w) \/ Acquire(w) \/ GiveUp(w) \/ Recovered(w) \/ Crash(w) \/ Stop(w) \/ Evicted(w)

\* They leave the lists and the history alone, and who polls found nothing left.
LEMMA IdleCases ==
  ASSUME QueueTypeOK,
         (\E w \in Workers : Idle(w)) \/ ExpireLease \/ Stall \/ UNCHANGED queueVars
  PROVE  /\ UNCHANGED <<jobs, processing, dead, enqueued, failures, owed>>
         /\ \A v \in Workers : \/ worker'[v] = worker[v]
                               \/ worker'[v].phase \in {"down", "waiting", "recovering"}
                               \/ worker'[v].phase = "polling" /\ processing = <<>>
<1>1. worker \in [Workers -> Process]
  BY DEF QueueTypeOK
<1>2. ASSUME NEW w \in Workers, Idle(w)
      PROVE  /\ UNCHANGED <<jobs, processing, dead, enqueued, failures, owed>>
             /\ \A v \in Workers \ {w} : worker'[v] = worker[v]
             /\ \/ worker'[w].phase \in {"down", "waiting", "recovering"}
                \/ worker'[w].phase = "polling" /\ processing = <<>>
  BY <1>1, <1>2
     DEF Idle, Boot, Acquire, GiveUp, Recovered, NothingLeft, Crash, Stop, Evicted, At
<1>3. ASSUME ExpireLease \/ Stall \/ UNCHANGED queueVars
      PROVE  UNCHANGED <<jobs, processing, dead, enqueued, failures, owed>> /\ worker' = worker
  BY <1>3 DEF ExpireLease, Stall, queueVars
<1> QED BY <1>2, <1>3

\* Every step is one of these.
LEMMA QueueSteps ==
  ASSUME [QueueNext]_queueVars
  PROVE  \/ (\E w \in Workers : Idle(w)) \/ ExpireLease \/ Stall \/ UNCHANGED queueVars
         \/ \E j \in Jobs : Enqueue(j)
         \/ \E w \in Workers : Recover(w) \/ Take(w) \/ Acknowledge(w)
         \/ \E w \in Workers, failed \in BOOLEAN : Finish(w, failed)
BY DEF QueueNext, Idle

\* Attempts stay paid for, whatever becomes of the lease.
LEMMA CountStep ==
  ASSUME CountInv, [QueueNext]_queueVars
  PROVE  CountInv'
<1> SUFFICES Counted' /\ DeadAfterThreeFailures'
  BY TypeStep DEF CountInv
<1>1. CASE (\E w \in Workers : Idle(w)) \/ ExpireLease \/ Stall \/ UNCHANGED queueVars
  <2>1. /\ UNCHANGED <<jobs, processing, dead, failures, owed>>
        /\ \A w \in Workers : \/ worker'[w] = worker[w]
                              \/ worker'[w].phase \in {"down", "waiting", "recovering", "polling"}
    BY <1>1, IdleCases DEF CountInv
  <2> QED BY <2>1, IdleSteps DEF Keeps
<1>2. ASSUME NEW j \in Jobs, Enqueue(j)
      PROVE  Counted' /\ DeadAfterThreeFailures'
  BY <1>2, EnqueueStep DEF Keeps
<1>3. ASSUME NEW w \in Workers, NEW failed \in BOOLEAN, Finish(w, failed)
      PROVE  Counted' /\ DeadAfterThreeFailures'
  BY <1>3, FinishStep DEF Keeps
<1>4. ASSUME NEW w \in Workers, Recover(w) \/ Take(w)
      PROVE  Counted' /\ DeadAfterThreeFailures'
  BY <1>4, RecoverStep, TakeStep DEF Keeps
<1>5. ASSUME NEW w \in Workers, Acknowledge(w)
      PROVE  Counted' /\ DeadAfterThreeFailures'
  BY <1>5, AcknowledgeStep
<1> QED BY <1>1, <1>2, <1>3, <1>4, <1>5, QueueSteps

\* Only the end of a run can take the last entry of an owed job away.
LEMMA LosslessSteps ==
  ASSUME CountInv, NoJobLost, [QueueNext]_queueVars, ~ \E w \in Workers : Acknowledge(w)
  PROVE  NoJobLost'
<1>1. CASE (\E w \in Workers : Idle(w)) \/ ExpireLease \/ Stall \/ UNCHANGED queueVars
  <2>1. UNCHANGED <<jobs, processing, owed>>
    BY <1>1, IdleCases DEF CountInv
  <2> QED BY <2>1 DEF NoJobLost, Holds
<1>2. ASSUME NEW j \in Jobs, Enqueue(j)
      PROVE  NoJobLost'
  BY <1>2, EnqueueStep DEF Keeps
<1>3. ASSUME NEW w \in Workers, NEW failed \in BOOLEAN, Finish(w, failed)
      PROVE  NoJobLost'
  BY <1>3, FinishStep DEF Keeps
<1>4. ASSUME NEW w \in Workers, Recover(w) \/ Take(w)
      PROVE  NoJobLost'
  BY <1>4, RecoverStep, TakeStep DEF Keeps
<1> QED BY <1>1, <1>2, <1>3, <1>4, QueueSteps

\* It does not, if the job of a run that did not fail has another entry to be
\* run from whenever it is owed.
LEMMA LosslessEnd ==
  ASSUME CountInv, NoJobLost, NEW w \in Workers, Acknowledge(w),
         owed[worker[w].raw.job] /\ ~(worker[w].failed /\ worker[w].covers) =>
           Holds(jobs, worker[w].raw.job)
  PROVE  NoJobLost'
<1> SUFFICES ASSUME NEW k \in Jobs, owed'[k] PROVE Holds(jobs, k)' \/ Holds(processing, k)'
  BY DEF NoJobLost, Holds
<1>1. owed[k]
  BY AcknowledgeStep
<1>2. CASE Holds(jobs, k)
  BY <1>2, AcknowledgeStep
<1>3. CASE Holds(processing, k) /\ k # worker[w].raw.job
  BY <1>3, AcknowledgeStep
<1>4. CASE k = worker[w].raw.job /\ ~Holds(jobs, k)
  <2>1. worker[w].failed /\ worker[w].covers
    BY <1>1, <1>4
  <2> QED BY <1>4, <2>1, AcknowledgeStep
<1> QED BY <1>1, <1>2, <1>3, <1>4 DEF NoJobLost

-----------------------------------------------------------------------------
(* What the worker that holds the lease leaves in the lists.               *)

\* The other workers of a step of one that holds the lease are not live.
LEMMA Alone ==
  ASSUME QueueInv, NEW w \in Workers, worker[w].phase \in Live
  PROVE  \A v \in Workers \ {w} : worker[v].phase \notin {"polling", "running", "finished"}
BY DEF QueueInv, Leased, Live

\* What is enqueued again behind a run has an entry of its own.
LEMMA TidyEnqueue ==
  ASSUME QueueInv, NEW j \in Jobs, Enqueue(j)
  PROVE  Tidy'
<1> USE DEF QueueInv
<1>1. /\ \A k : Holds(jobs, k)' <=> k = j \/ Holds(jobs, k)
      /\ processing' = processing /\ owed' = [owed EXCEPT ![j] = TRUE]
      /\ \A w \in Workers :
           /\ worker'[w].phase = worker[w].phase
           /\ worker'[w].raw = worker[w].raw
           /\ worker'[w].failed = worker[w].failed
           /\ \/ worker'[w].covers = worker[w].covers /\ (worker[w].raw = None \/ worker[w].raw.job # j)
              \/ ~worker'[w].covers /\ worker[w].raw.job = j
  BY EnqueueStep
<1> SUFFICES ASSUME NEW w \in Workers
             PROVE  /\ worker'[w].phase = "polling" => processing' = <<>>
                    /\ worker'[w].phase \in {"running", "finished"} =>
                         /\ processing' = <<worker'[w].raw>>
                         /\ ~worker'[w].covers => Holds(jobs, worker[w].raw.job)'
                    /\ worker'[w].phase = "finished" /\ ~worker'[w].failed /\ worker'[w].covers =>
                         ~owed'[worker'[w].raw.job]
  <2>1. \A w \in Workers : worker'[w].raw = worker[w].raw
    BY <1>1
  <2> QED BY <2>1 DEF Tidy, Holds
<1>2. owed \in [Jobs -> BOOLEAN]
  BY DEF CountInv, QueueTypeOK
<1>3. worker[w].phase \in {"running", "finished"} =>
        worker[w].raw # None /\ worker[w].raw.job \in Jobs
  BY JobQueueAssumption DEF CountInv, Counted, Runnable, Attempts
<1> QED BY <1>1, <1>2, <1>3 DEF Tidy

\* The entry taken is the only one in the processing list.
LEMMA TidyTake ==
  ASSUME QueueInv, NEW w \in Workers, Take(w)
  PROVE  Tidy'
<1> USE DEF QueueInv
<1>1. /\ processing = <<>> /\ worker[w].phase \in Live /\ worker \in [Workers -> Process]
  BY DEF Take, Tidy, Live, CountInv, QueueTypeOK
<1>2. PICK e \in Runnable :
        /\ processing' = <<e>> \o processing
        /\ worker' = [worker EXCEPT ![w] = [phase |-> "running", raw |-> e,
                                            covers |-> TRUE, failed |-> FALSE]]
  BY TakeStep
<1>3. processing' = <<e>>
  BY <1>1, <1>2
<1>4. /\ worker'[w] = [phase |-> "running", raw |-> e, covers |-> TRUE, failed |-> FALSE]
      /\ \A v \in Workers \ {w} : /\ worker'[v] = worker[v]
                                  /\ worker[v].phase \notin {"polling", "running", "finished"}
  BY <1>1, <1>2, Alone
<1> QED BY <1>3, <1>4 DEF Tidy

\* A run that covers its job and did not fail leaves it settled.
LEMMA TidyFinish ==
  ASSUME QueueInv, NEW w \in Workers, NEW failed \in BOOLEAN, Finish(w, failed)
  PROVE  Tidy'
<1> USE DEF QueueInv
<1>1. /\ UNCHANGED <<jobs, processing>> /\ worker[w].phase = "running"
      /\ worker'[w].phase = "finished" /\ worker'[w].raw = worker[w].raw
      /\ worker'[w].failed = failed /\ worker'[w].covers = worker[w].covers
      /\ \A v \in Workers \ {w} : worker'[v] = worker[v]
      /\ ~failed /\ worker[w].covers => ~owed'[worker[w].raw.job]
  BY FinishStep
<1>2. \A v \in Workers \ {w} : worker[v].phase \notin {"polling", "running", "finished"}
  BY <1>1, Alone DEF Live
<1>3. /\ processing = <<worker[w].raw>>
      /\ ~worker[w].covers => Holds(jobs, worker[w].raw.job)
  BY <1>1 DEF Tidy
<1> QED BY <1>1, <1>2, <1>3 DEF Tidy, Holds

\* The end of a run empties the processing list and loses no job.
LEMMA TidyAcknowledge ==
  ASSUME QueueInv, NEW w \in Workers, Acknowledge(w)
  PROVE  Tidy' /\ NoJobLost'
<1> USE DEF QueueInv
<1>1. /\ worker[w].phase = "finished" /\ worker'[w].phase = "polling"
      /\ \A v \in Workers \ {w} : worker'[v] = worker[v]
      /\ processing' = RemoveFirst(processing, worker[w].raw)
  BY AcknowledgeStep
<1>2. /\ processing = <<worker[w].raw>>
      /\ ~worker[w].covers => Holds(jobs, worker[w].raw.job)
      /\ ~worker[w].failed /\ worker[w].covers => ~owed[worker[w].raw.job]
  BY <1>1 DEF Tidy
<1>3. processing' = <<>>
  BY <1>1, <1>2, RemovingOnly
<1>4. \A v \in Workers \ {w} : worker[v].phase \notin {"polling", "running", "finished"}
  BY <1>1, Alone DEF Live
<1>5. Tidy'
  BY <1>1, <1>3, <1>4 DEF Tidy
<1>6. NoJobLost'
  BY <1>2, LosslessEnd
<1> QED BY <1>5, <1>6

\* Every step of queues whose leases are extended in time keeps the invariant.
LEMMA QueueStep ==
  ASSUME QueueInv, [QueueNext]_queueVars
  PROVE  QueueInv'
<1> USE DEF QueueInv
<1>1. ~MayStall' /\ CountInv' /\ Leased'
  BY CountStep, LeasedStep
<1>2. NoJobLost'
  BY TidyAcknowledge, LosslessSteps
<1>3. CASE (\E w \in Workers : Idle(w)) \/ ExpireLease \/ Stall \/ UNCHANGED queueVars
  <2>1. /\ UNCHANGED <<jobs, processing, owed>>
        /\ \A v \in Workers : \/ worker'[v] = worker[v]
                              \/ worker'[v].phase \in {"down", "waiting", "recovering"}
                              \/ worker'[v].phase = "polling" /\ processing = <<>>
    BY <1>3, IdleCases DEF CountInv
  <2>2. Tidy'
    BY <2>1 DEF Tidy, Holds
  <2> QED BY <1>1, <1>2, <2>2
<1>4. ASSUME NEW j \in Jobs, Enqueue(j)
      PROVE  Tidy'
  BY <1>4, TidyEnqueue
<1>5. ASSUME NEW w \in Workers, NEW failed \in BOOLEAN, Finish(w, failed)
      PROVE  Tidy'
  BY <1>5, TidyFinish
<1>6. ASSUME NEW w \in Workers, Recover(w)
      PROVE  Tidy'
  <2>1. worker[w].phase = "recovering" /\ worker' = worker
    BY <1>6 DEF Recover
  <2>2. \A v \in Workers : worker[v].phase \notin {"polling", "running", "finished"}
    BY <2>1, Alone DEF Live
  <2> QED BY <2>1, <2>2 DEF Tidy
<1>7. ASSUME NEW w \in Workers, Take(w) \/ Acknowledge(w)
      PROVE  Tidy'
  BY <1>7, TidyTake, TidyAcknowledge
<1> QED BY <1>1, <1>2, <1>3, <1>4, <1>5, <1>6, <1>7, QueueSteps

-----------------------------------------------------------------------------
(* Jobs that are enqueued once, with any lease.                            *)

\* A run of such a job covers it for good.
LEMMA EnqueuedOnceStep ==
  ASSUME StallInv, [QueueNext]_queueVars
  PROVE  EnqueuedOnce'
<1> USE DEF StallInv
<1>1. /\ CountInv /\ owed \in [Jobs -> BOOLEAN] /\ worker \in [Workers -> Process]
      /\ enqueued \in [Jobs -> 0..MaxEnqueues] /\ MaxEnqueues \in Nat
      /\ \A w \in Workers : worker[w].phase \in {"running", "finished"} =>
                              worker[w].raw \in Runnable /\ worker[w].raw.job \in Jobs
  BY JobQueueAssumption DEF CountInv, Counted, QueueTypeOK, Runnable
<1>2. CASE (\E w \in Workers : Idle(w)) \/ ExpireLease \/ Stall \/ UNCHANGED queueVars
  <2>1. /\ UNCHANGED <<jobs, processing, enqueued, owed>>
        /\ \A v \in Workers : \/ worker'[v] = worker[v]
                              \/ worker'[v].phase \in {"down", "waiting", "recovering", "polling"}
    BY <1>2, IdleCases DEF CountInv
  <2> QED BY <2>1 DEF EnqueuedOnce, Holds
<1>3. ASSUME NEW j \in Jobs, Enqueue(j)
      PROVE  EnqueuedOnce'
  <2>1. /\ \A k : Holds(jobs, k)' <=> k = j \/ Holds(jobs, k)
        /\ processing' = processing /\ owed' = [owed EXCEPT ![j] = TRUE]
        /\ \A w \in Workers :
             /\ worker'[w].phase = worker[w].phase
             /\ worker'[w].raw = worker[w].raw
             /\ worker'[w].failed = worker[w].failed
             /\ \/ worker'[w].covers = worker[w].covers /\ (worker[w].raw = None \/ worker[w].raw.job # j)
                \/ ~worker'[w].covers /\ worker[w].raw.job = j
    BY <1>1, <1>3, EnqueueStep
  <2>2. /\ enqueued[j] = 0 /\ enqueued'[j] # 0
        /\ \A k \in Jobs \ {j} : enqueued'[k] = enqueued[k]
    BY <1>1, <1>3 DEF Enqueue
  <2>3. \A k \in Jobs : Holds(jobs, k)' \/ Holds(processing, k)' => enqueued'[k] # 0
    <3>1. \A k : Holds(processing, k)' <=> Holds(processing, k)
      BY <2>1 DEF Holds
    <3>2. \A k \in Jobs : Holds(jobs, k) \/ Holds(processing, k) => enqueued[k] # 0
      BY DEF EnqueuedOnce
    <3> QED BY <2>1, <2>2, <3>1, <3>2
  <2>4. ASSUME NEW w \in Workers, worker'[w].phase \in {"running", "finished"}
        PROVE  /\ worker'[w].covers /\ enqueued'[worker'[w].raw.job] # 0
               /\ worker'[w].phase = "finished" /\ ~worker'[w].failed => ~owed'[worker'[w].raw.job]
    <3>1. worker[w].covers /\ enqueued[worker[w].raw.job] # 0 /\ worker[w].raw.job \in Jobs
      BY <1>1, <2>1, <2>4 DEF EnqueuedOnce
    <3>2. worker[w].raw.job # j
      BY <2>2, <3>1
    <3>3. /\ worker'[w].phase = worker[w].phase /\ worker'[w].raw = worker[w].raw
          /\ worker'[w].failed = worker[w].failed /\ worker'[w].covers = worker[w].covers
      BY <2>1, <3>2
    <3>4. owed'[worker[w].raw.job] = owed[worker[w].raw.job]
      BY <1>1, <2>1, <3>1, <3>2
    <3> QED BY <2>2, <2>4, <3>1, <3>2, <3>3, <3>4 DEF EnqueuedOnce
  <2> QED BY <2>3, <2>4 DEF EnqueuedOnce, Holds
<1>4. ASSUME NEW w \in Workers, Recover(w)
      PROVE  EnqueuedOnce'
  <2>1. UNCHANGED <<worker, enqueued, owed>>
    BY <1>4 DEF Recover
  <2>2. \A k : Holds(jobs, k)' \/ Holds(processing, k)' <=> Holds(jobs, k) \/ Holds(processing, k)
    BY <1>1, <1>4, RecoverStep
  <2>3. \A k \in Jobs : Holds(jobs, k)' \/ Holds(processing, k)' => enqueued'[k] # 0
    BY <2>1, <2>2 DEF EnqueuedOnce
  <2> QED BY <2>1, <2>3 DEF EnqueuedOnce, Holds
<1>5. ASSUME NEW w \in Workers, Take(w)
      PROVE  EnqueuedOnce'
  <2>1. PICK e \in Runnable :
          /\ Holds(jobs, e.job)
          /\ worker' = [worker EXCEPT ![w] = [phase |-> "running", raw |-> e,
                                              covers |-> TRUE, failed |-> FALSE]]
    BY <1>1, <1>5, TakeStep
  <2>2. /\ \A k : Holds(jobs, k)' \/ Holds(processing, k)' <=> Holds(jobs, k) \/ Holds(processing, k)
        /\ enqueued' = enqueued /\ owed' = owed
    BY <1>1, <1>5, TakeStep DEF Take
  <2>3. \A k \in Jobs : Holds(jobs, k)' \/ Holds(processing, k)' => enqueued'[k] # 0
    BY <2>2 DEF EnqueuedOnce
  <2>4. enqueued[e.job] # 0
    BY <2>1 DEF EnqueuedOnce, Runnable
  <2>5. /\ worker'[w] = [phase |-> "running", raw |-> e, covers |-> TRUE, failed |-> FALSE]
        /\ \A v \in Workers \ {w} : worker'[v] = worker[v]
    BY <1>1, <2>1
  <2> QED BY <2>2, <2>3, <2>4, <2>5 DEF EnqueuedOnce, Holds
<1>6. ASSUME NEW w \in Workers, NEW failed \in BOOLEAN, Finish(w, failed)
      PROVE  EnqueuedOnce'
  <2>1. /\ UNCHANGED <<jobs, processing>> /\ worker[w].phase = "running"
        /\ worker'[w].phase = "finished" /\ worker'[w].raw = worker[w].raw
        /\ worker'[w].failed = failed /\ worker'[w].covers = worker[w].covers
        /\ \A v \in Workers \ {w} : worker'[v] = worker[v]
        /\ \A k \in Jobs : owed'[k] => owed[k]
        /\ ~failed /\ worker[w].covers => ~owed'[worker[w].raw.job]
    BY <1>1, <1>6, FinishStep
  <2>2. enqueued' = enqueued
    BY <1>6 DEF Finish
  <2>3. ASSUME NEW v \in Workers, worker'[v].phase \in {"running", "finished"}
        PROVE  /\ worker'[v].covers /\ enqueued'[worker'[v].raw.job] # 0
               /\ worker'[v].phase = "finished" /\ ~worker'[v].failed => ~owed'[worker'[v].raw.job]
    BY <1>1, <2>1, <2>2, <2>3 DEF EnqueuedOnce
  <2> QED BY <2>1, <2>2, <2>3 DEF EnqueuedOnce, Holds
<1>7. ASSUME NEW w \in Workers, Acknowledge(w)
      PROVE  EnqueuedOnce'
  <2>1. /\ worker[w].phase = "finished" /\ worker'[w].phase = "polling"
        /\ \A v \in Workers \ {w} : worker'[v] = worker[v]
        /\ \A k \in Jobs : owed'[k] => owed[k]
        /\ \A k : Holds(jobs, k)' => Holds(jobs, k) \/ k = worker[w].raw.job
        /\ \A k : Holds(processing, k)' => Holds(processing, k)
    BY <1>1, <1>7, AcknowledgeStep
  <2>2. enqueued' = enqueued
    BY <1>7 DEF Acknowledge
  <2>3. \A k \in Jobs : Holds(jobs, k)' \/ Holds(processing, k)' => enqueued'[k] # 0
    BY <2>1, <2>2 DEF EnqueuedOnce
  <2>4. ASSUME NEW v \in Workers, worker'[v].phase \in {"running", "finished"}
        PROVE  /\ worker'[v].covers /\ enqueued'[worker'[v].raw.job] # 0
               /\ worker'[v].phase = "finished" /\ ~worker'[v].failed => ~owed'[worker'[v].raw.job]
    BY <1>1, <2>1, <2>2, <2>4 DEF EnqueuedOnce
  <2> QED BY <2>3, <2>4 DEF EnqueuedOnce, Holds
<1> QED BY <1>2, <1>3, <1>4, <1>5, <1>6, <1>7, QueueSteps

\* Every step keeps the invariant of jobs that are enqueued once.
LEMMA StallStep ==
  ASSUME StallInv, [QueueNext]_queueVars
  PROVE  StallInv'
<1> USE DEF StallInv
<1>1. CountInv' /\ EnqueuedOnce' /\ MaxEnqueues' <= 1
  BY CountStep, EnqueuedOnceStep
<1>2. ASSUME NEW w \in Workers, Acknowledge(w)
      PROVE  NoJobLost'
  <2>1. worker[w].phase = "finished"
    BY <1>2, AcknowledgeStep
  <2>2. worker[w].covers /\ (~worker[w].failed => ~owed[worker[w].raw.job])
    BY <2>1 DEF EnqueuedOnce
  <2> QED BY <1>2, <2>2, LosslessEnd
<1>3. NoJobLost'
  BY <1>2, LosslessSteps
<1> QED BY <1>1, <1>3

-----------------------------------------------------------------------------
(* The theorems.                                                           *)

\* The empty queue satisfies the invariants.
LEMMA QueueStart ==
  ASSUME QueueInit
  PROVE  CountInv /\ Leased /\ Tidy /\ EnqueuedOnce /\ NoJobLost
<1> USE DEF QueueInit
<1>1. QueueTypeOK
  BY EmptySeq, JobQueueAssumption, Entries DEF QueueTypeOK, Phases
<1>2. \A w \in Workers : worker[w].phase = "down"
  BY DEF At
<1>3. Leased /\ Tidy
  BY <1>2 DEF Leased, Tidy, Live
<1>4. Counted
  BY <1>2, SingleHolds DEF Counted
<1>5. NoJobLost /\ DeadAfterThreeFailures
  BY SingleHolds DEF NoJobLost, DeadAfterThreeFailures
<1>6. EnqueuedOnce
  BY <1>2, SingleHolds DEF EnqueuedOnce
<1> QED BY <1>1, <1>3, <1>4, <1>5, <1>6 DEF CountInv

\* The inductive invariant of a queue whatever becomes of the lease.
THEOREM CountInvariant == QueueSpec => []CountInv
<1>1. QueueInit => CountInv
  BY QueueStart
<1>2. CountInv /\ [QueueNext]_queueVars => CountInv'
  BY CountStep
<1> QED BY <1>1, <1>2, PTL DEF QueueSpec

\* The one of a queue whose worker extends its lease in time.
THEOREM QueueInvariant == ~MayStall /\ QueueSpec => []QueueInv
<1>1. ~MayStall /\ QueueInit => QueueInv
  BY QueueStart DEF QueueInv
<1>2. QueueInv /\ [QueueNext]_queueVars => QueueInv'
  BY QueueStep
<1> QED BY <1>1, <1>2, PTL DEF QueueSpec

\* The one of jobs that are enqueued once.
THEOREM StallInvariant == MaxEnqueues <= 1 /\ QueueSpec => []StallInv
<1>1. MaxEnqueues <= 1 /\ QueueInit => StallInv
  BY QueueStart DEF StallInv
<1>2. StallInv /\ [QueueNext]_queueVars => StallInv'
  BY StallStep
<1> QED BY <1>1, <1>2, PTL DEF QueueSpec

\* The lists hold entries, and every process is in a phase, at all times.
THEOREM QueueTypeCorrect == QueueSpec => []QueueTypeOK
<1>1. CountInv => QueueTypeOK
  BY DEF CountInv
<1> QED BY <1>1, CountInvariant, PTL

\* worker.py: one lease, one worker; however many processes are started.
THEOREM OneWorker == ~MayStall /\ QueueSpec => []OneRunner
<1>1. QueueInv => OneRunner
  BY DEF QueueInv, Leased, OneRunner
<1> QED BY <1>1, QueueInvariant, PTL

\* Killed at any point, the worker leaves every unsettled job an entry.
THEOREM AtLeastOnce == ~MayStall /\ QueueSpec => []NoJobLost
<1>1. QueueInv => NoJobLost
  BY DEF QueueInv
<1> QED BY <1>1, QueueInvariant, PTL

\* So do workers that run side by side after one slept through its lease, as
\* long as no job is enqueued twice (equal messages are one to LREM).
THEOREM AtLeastOnceSideBySide == MaxEnqueues <= 1 /\ QueueSpec => []NoJobLost
<1>1. StallInv => NoJobLost
  BY DEF StallInv
<1> QED BY <1>1, StallInvariant, PTL

\* No well-formed job is set aside before its third failed run, also when two
\* workers run it side by side.
THEOREM ThreeAttempts == QueueSpec => []DeadAfterThreeFailures
<1>1. CountInv => DeadAfterThreeFailures
  BY DEF CountInv
<1> QED BY <1>1, CountInvariant, PTL

=============================================================================
