---------------------------- MODULE DeliveryProofs ----------------------------
(***************************************************************************)
(* What holds of the batches of one stream, from the prefetcher to the     *)
(* training code, for any number of ranks, workers, batches and samples,   *)
(* and however often readers are closed, opened and interrupted.           *)
(***************************************************************************)
EXTENDS Delivery, FiniteSetTheorems, WellFoundedInduction, TLAPS

(***************************************************************************)
(* The inductive invariant                                                 *)
(***************************************************************************)
(* What stands in a line, and the batches of a line without the ends.      *)
Line == Batches \cup {End}
BatchesIn(s) == Range(s) \ {End}
Increasing(s) == \A i, j \in DOMAIN s : i < j /\ s[j] # End => s[i] # End /\ s[i] < s[j]
Below(A, B) == \A a \in A, b \in B : a < b
Held(r) == {current[r]} \ {None}

(* A reader is connected from the moment the collator accepts it until it  *)
(* closes, and holds a batch while __next__ has one.                       *)
Connected(r) ==
  /\ conn[r] = "open" <=> reader[r] \in {"open", "waiting", "took", "written"}
  /\ conn[r] # "open" => wire[r] = <<>>
  /\ conn[r] = "none" => asks[r] = 0 /\ r \notin wanted
  /\ current[r] # None <=> reader[r] \in {"took", "written"}
  /\ reader[r] = "written" => progress[r] = current[r] + Ranks

(* A reader that waits has one request or one answer under way.            *)
OneAnswer(r) ==
  interrupts = 0 /\ conn[r] = "open" =>
    asks[r] + (IF r \in wanted THEN 1 ELSE 0) + Len(wire[r])
        = (IF reader[r] = "waiting" THEN 1 ELSE 0)

(* The batches of a rank stand in line: returned, in the hands of          *)
(* __next__, on the wire, in the outbox.                                   *)
InLine(r) ==
  /\ Increasing(delivered[r]) /\ Increasing(wire[r]) /\ Increasing(outbox[r])
  /\ Below(Range(delivered[r]), Held(r) \cup BatchesIn(wire[r]) \cup BatchesIn(outbox[r]))
  /\ Below(Held(r), BatchesIn(wire[r]) \cup BatchesIn(outbox[r]))
  /\ Below(BatchesIn(wire[r]), BatchesIn(outbox[r]))
  /\ \A n \in Range(delivered[r]) \cup Held(r) \cup BatchesIn(wire[r]) \cup BatchesIn(outbox[r]) :
       n % Ranks = r /\ n < nextBatch

(* End is the last in the outbox and stays there.                          *)
EndStays(r) ==
  /\ endCount = Workers <=> End \in Range(outbox[r])
  /\ \A i \in DOMAIN outbox[r] : outbox[r][i] = End => i = Len(outbox[r])
  /\ End \in Range(wire[r]) => outbox[r] = <<End>>

(* The first batch that is not on the wire or received, as long as no      *)
(* exception has left __next__.                                            *)
Ahead(r) == reader[r] = "took" \/ BatchesIn(wire[r]) # {}
Expected(r) == IF Ahead(r) THEN progress[r] + Ranks ELSE progress[r]

(* Until then nothing is missing: what is before the progress file was     *)
(* returned, and what is behind it is on the wire or in the outbox.        *)
NothingMissing(r) ==
  interrupts = 0 =>
    /\ progress[r] % Ranks = r /\ progress[r] >= Start
    /\ \A n \in Batches : n % Ranks = r => (n \in Range(delivered[r]) <=> n < NextOf(r))
    /\ reader[r] = "took" => current[r] = progress[r]
    /\ \A m \in Range(wire[r]) : m = progress[r] \/ (m = End /\ progress[r] >= EndAt)
    /\ \A n \in Batches : n % Ranks = r /\ Expected(r) <= n /\ n < nextBatch =>
         n \in Range(outbox[r])

RankRight(r) ==
  Connected(r) /\ OneAnswer(r) /\ InLine(r) /\ EndStays(r) /\ NothingMissing(r)

(* The workers whose End was received: nothing comes after it.             *)
Over == {w \in Worker : phase = "ended" /\ queue[w] = <<>>}

(* End is the last message of every worker; the last one received says     *)
(* that all batches are complete.                                          *)
EndRight ==
  /\ phase \in {"open", "ended"} /\ emitted <= EndAt - Start
  /\ \A w \in Worker : \A i \in DOMAIN queue[w] : queue[w][i].batch = End =>
       queue[w][i] = EndMessage /\ i = Len(queue[w]) /\ phase = "ended"
  /\ phase = "ended" => /\ emitted = EndAt - Start
                        /\ \A w \in Worker : queue[w] # <<>> =>
                             queue[w][Len(queue[w])].batch = End
  /\ endCount = Cardinality(Over)
  /\ endCount = Workers => nextBatch = EndAt

(* Every sample of a batch that was distributed is with the collator or on *)
(* its way, until the batch is complete.                                   *)
OnItsWay(n, i) ==
  \E w \in Worker : \E k \in DOMAIN queue[w] :
    queue[w][k].batch = n /\ i \in queue[w][k].samples

SamplesRight ==
  /\ \A w \in Worker : \A i \in DOMAIN queue[w] : queue[w][i].batch # End =>
       queue[w][i].samples \subseteq Indices(queue[w][i].batch)
  /\ \A n \in Batches : assembling[n] \subseteq Indices(n) /\ assembling[n] # Indices(n)
  /\ nextBatch \notin finished
  /\ \A n \in Batches : nextBatch <= n /\ n < Start + emitted /\ n \notin finished =>
       \A i \in Indices(n) : i \in assembling[n] \/ OnItsWay(n, i)

(* Messages that arrive twice would let a batch be completed twice: every  *)
(* sample is on its way once, for a batch that is not complete.            *)
Sent == Start .. Start + emitted - 1

OnTime(w, i) ==
  LET m == queue[w][i] IN
    /\ m.samples # {}
    /\ nextBatch <= m.batch /\ m.batch \in Sent /\ m.batch \notin finished
    /\ m.samples \cap assembling[m.batch] = {}

SentOnce ==
  /\ nextBatch <= Start + emitted
  /\ finished \subseteq nextBatch .. Start + emitted - 1
  /\ \A n \in Batches : assembling[n] # {} => n \in Sent
  /\ \A w \in Worker : \A i \in DOMAIN queue[w] : queue[w][i].batch # End => OnTime(w, i)
  /\ \A v, w \in Worker : \A i \in DOMAIN queue[v], j \in DOMAIN queue[w] :
       (v # w \/ i # j) /\ queue[v][i].batch # End /\ queue[v][i].batch = queue[w][j].batch =>
         queue[v][i].samples \cap queue[w][j].samples = {}

IInv == TypeOK /\ EndRight /\ SamplesRight /\ SentOnce /\ \A r \in Rank : RankRight(r)

(***************************************************************************)
(* Lemmas about numbers                                                    *)
(***************************************************************************)
LEMMA Numbers ==
  /\ Ranks \in Nat \ {0} /\ Workers \in Nat \ {0} /\ Start \in Nat /\ EndAt \in Nat
  /\ Start <= EndAt /\ Batches = Start .. EndAt - 1 /\ Rank = 0 .. Ranks - 1
  /\ Worker = 0 .. Workers - 1
  /\ \A n \in Batches : n \in Nat /\ n # End /\ n # None
  /\ \A r \in Rank : r \in Nat
  /\ Batches \subseteq Int /\ Line \subseteq Int
  /\ \A n \in Batches : Samples[n] \in Nat \ {0} /\ Indices(n) \subseteq Nat /\ Indices(n) # {}
<1>1. /\ Ranks \in Nat \ {0} /\ Workers \in Nat \ {0} /\ Start \in Nat /\ EndAt \in Nat
      /\ Start <= EndAt
  BY DeliveryAssumption
<1>2. /\ \A n \in Batches : n \in Nat /\ n # End /\ n # None
      /\ \A r \in Rank : r \in Nat
  BY <1>1 DEF Batches, Rank, End, None
<1>3. \A n \in Batches : Samples[n] \in Nat \ {0}
  BY DeliveryAssumption
<1>4. \A n \in Batches : Indices(n) \subseteq Nat /\ 0 \in Indices(n)
  BY <1>3 DEF Indices
<1>5. Batches \subseteq Int /\ Line \subseteq Int
  BY <1>2 DEF Line, End
<1>6. QED
  BY <1>1, <1>2, <1>3, <1>4, <1>5 DEF Batches, Rank, Worker

(* Division by the number of ranks.                                        *)
LEMMA Quotient ==
  ASSUME NEW a \in Nat
  PROVE  /\ a \div Ranks \in Nat /\ a % Ranks \in 0 .. Ranks - 1
         /\ a = Ranks * (a \div Ranks) + (a % Ranks)
<1>1. Ranks \in Nat \ {0}
  BY Numbers
<1>2. a % Ranks \in 0 .. Ranks - 1
  BY <1>1
<1>3. a = Ranks * (a \div Ranks) + (a % Ranks)
  BY <1>1
<1>4. a \div Ranks \in Nat
  BY <1>1
<1>5. QED
  BY <1>2, <1>3, <1>4

LEMMA Unique ==
  ASSUME NEW k \in Nat, NEW l \in Nat, NEW r \in Rank, NEW s \in Rank,
         Ranks * k + r = Ranks * l + s
  PROVE  k = l /\ r = s
<1>1. Ranks \in Nat \ {0} /\ r \in 0 .. Ranks - 1 /\ s \in 0 .. Ranks - 1
  BY Numbers
<1>2. ASSUME NEW a \in Nat, NEW b \in Nat, a < b
      PROVE  Ranks * a + Ranks <= Ranks * b
  BY <1>1, <1>2
<1>3. ~(k < l) /\ ~(l < k)
  BY <1>1, <1>2
<1>4. k = l
  BY <1>3
<1>5. QED
  BY <1>1, <1>4

(* The batches of a rank are the multiples of the ranks, moved by the rank.*)
LEMMA OfRank ==
  ASSUME NEW n \in Nat, NEW r \in Rank
  PROVE  n % Ranks = r <=> \E k \in Nat : n = Ranks * k + r
<1>1. Ranks \in Nat \ {0} /\ Rank = 0 .. Ranks - 1
  BY Numbers
<1>2. n \div Ranks \in Nat /\ n % Ranks \in Rank /\ n = Ranks * (n \div Ranks) + (n % Ranks)
  BY <1>1, Quotient
<1>3. ASSUME NEW k \in Nat, n = Ranks * k + r
      PROVE  n % Ranks = r
  BY <1>2, <1>3, Unique
<1>4. QED
  BY <1>2, <1>3

LEMMA NextOfRank ==
  ASSUME NEW m \in Nat, NEW n \in Nat
  PROVE  /\ n % Ranks \in Rank
         /\ (m + Ranks) % Ranks = m % Ranks
         /\ (m % Ranks = n % Ranks /\ m < n) => m + Ranks <= n
<1>1. Ranks \in Nat \ {0} /\ Rank = 0 .. Ranks - 1
  BY Numbers
<1>2. n % Ranks \in Rank /\ m % Ranks \in Rank
  BY <1>1, Quotient
<1> PICK r \in Rank : r = m % Ranks
  BY <1>2
<1>0. r \in Nat
  BY Numbers
<1>3. PICK k \in Nat : m = Ranks * k + r
  BY OfRank
<1>4. m + Ranks = Ranks * (k + 1) + r /\ k + 1 \in Nat /\ m + Ranks \in Nat
  BY <1>0, <1>1, <1>3
<1>5. (m + Ranks) % Ranks = r
  BY <1>4, OfRank
<1>6. ASSUME n % Ranks = r, m < n
      PROVE  m + Ranks <= n
  <2>1. PICK l \in Nat : n = Ranks * l + r
    BY <1>6, OfRank
  <2> PICK x \in Nat, y \in Nat : x = Ranks * k /\ y = Ranks * l
    BY <1>1
  <2>0. m = x + r /\ n = y + r
    BY <1>3, <2>1
  <2>2. ASSUME l <= k
        PROVE  FALSE
    <3>1. y <= x
      BY <1>1, <2>2
    <3>2. QED
      BY ONLY <1>0, <1>6, <2>0, <3>1, x \in Nat, y \in Nat
  <2>3. ASSUME k < l
        PROVE  x + Ranks <= y
    BY <1>1, <2>3
  <2>4. x + Ranks <= y
    BY <2>2, <2>3
  <2>5. QED
    BY ONLY <1>0, <1>1, <2>0, <2>4, x \in Nat, y \in Nat
<1>7. QED
  BY <1>2, <1>5, <1>6

(* The progress file starts with the first batch of the rank.              *)
LEMMA FirstIs ==
  ASSUME NEW r \in Rank
  PROVE  /\ FirstOf(r) \in Nat /\ FirstOf(r) % Ranks = r /\ FirstOf(r) >= Start
         /\ \A n \in Nat : (n % Ranks = r /\ n >= Start) => n >= FirstOf(r)
<1>1. Ranks \in Nat \ {0} /\ r \in 0 .. Ranks - 1 /\ Start \in Nat /\ Rank = 0 .. Ranks - 1
  BY Numbers
<1> PICK s \in Rank : s = Start % Ranks
  BY <1>1, Quotient
<1>2. PICK q \in Nat : Start = Ranks * q + s
  BY <1>1, OfRank
<1> PICK x \in Nat : x = Ranks * q
  BY <1>1
<1>3. s \in Nat /\ s < Ranks /\ r \in Nat /\ r < Ranks /\ Start = x + s
  BY <1>1, <1>2
<1> PICK d \in Nat : d = r + Ranks - s
  <2>1. r + Ranks - s \in Nat
    BY ONLY <1>1, <1>3
  <2>2. QED
    BY <2>1
<1>4. /\ FirstOf(r) \in Nat /\ FirstOf(r) % Ranks = r
      /\ FirstOf(r) >= Start /\ FirstOf(r) < Start + Ranks
  <2>1. CASE s <= r
    <3>1. d = Ranks * 1 + (r - s) /\ r - s \in Rank
      BY <1>1, <1>3, <2>1
    <3>2. d % Ranks = r - s
      BY <3>1, OfRank
    <3>3. FirstOf(r) = x + r
      BY <1>3, <2>1, <3>2 DEF FirstOf
    <3>4. x + r = Ranks * q + r /\ x + r \in Nat
      BY <1>3
    <3>5. FirstOf(r) \in Nat /\ FirstOf(r) % Ranks = r
      BY <3>3, <3>4, OfRank
    <3>6. FirstOf(r) >= Start /\ FirstOf(r) < Start + Ranks
      BY ONLY <1>1, <1>3, <2>1, <3>3, x \in Nat
    <3>7. QED
      BY <3>5, <3>6
  <2>2. CASE ~(s <= r)
    <3>1. d = Ranks * 0 + d /\ d \in Rank
      BY <1>1, <1>3, <2>2
    <3>2. d % Ranks = d
      BY <3>1, OfRank
    <3>3. FirstOf(r) = Start + d
      BY <3>2 DEF FirstOf
    <3>4. FirstOf(r) = (x + Ranks) + r
      BY ONLY <1>1, <1>3, <3>3, d = r + Ranks - s, x \in Nat
    <3>5. x + Ranks = Ranks * (q + 1) /\ q + 1 \in Nat
      BY <1>1
    <3>6. FirstOf(r) = Ranks * (q + 1) + r /\ FirstOf(r) \in Nat
      BY <1>1, <1>3, <3>4, <3>5
    <3>7. FirstOf(r) % Ranks = r
      BY <3>5, <3>6, OfRank
    <3>8. FirstOf(r) >= Start /\ FirstOf(r) < Start + Ranks
      BY ONLY <1>1, <1>3, <2>2, <3>4, x \in Nat
    <3>9. QED
      BY <3>6, <3>7, <3>8
  <2>3. QED
    BY <2>1, <2>2
<1>5. ASSUME NEW n \in Nat, n % Ranks = r, n >= Start, ~(n >= FirstOf(r))
      PROVE  FALSE
  <2>1. n + Ranks <= FirstOf(r)
    BY <1>4, <1>5, NextOfRank
  <2>2. QED
    BY <1>1, <1>4, <1>5, <2>1
<1>6. QED
  BY <1>4, <1>5

LEMMA PassedIs ==
  ASSUME NEW r \in Rank, NEW n \in Nat
  PROVE  /\ Passed(r, n) \in Nat
         /\ \A k \in Nat : Ranks * k + r < n <=> k < Passed(r, n)
<1>1. Ranks \in Nat \ {0} /\ r \in 0 .. Ranks - 1
  BY Numbers
<1> PICK a \in Nat : a = n + Ranks - 1 - r
  BY <1>1
<1> PICK q : q = a \div Ranks
  OBVIOUS
<1>2. q \in Nat /\ Ranks * q <= a /\ a < Ranks * q + Ranks
  <2>1. a % Ranks \in 0 .. Ranks - 1 /\ a = Ranks * q + (a % Ranks) /\ q \in Nat
    BY Quotient
  <2>2. Ranks * q \in Nat
    BY <1>1, <2>1
  <2>3. QED
    BY <1>1, <2>1, <2>2
<1>3. Passed(r, n) = q
  BY DEF Passed
<1>4. ASSUME NEW k \in Nat, k < q
      PROVE  Ranks * k + r < n
  <2>1. Ranks * k + Ranks <= Ranks * q
    BY <1>1, <1>2, <1>4
  <2>2. QED
    BY <1>1, <1>2, <2>1
<1>5. ASSUME NEW k \in Nat, q <= k
      PROVE  ~(Ranks * k + r < n)
  <2>1. Ranks * q <= Ranks * k
    BY <1>1, <1>2, <1>5
  <2>2. QED
    BY <1>1, <1>2, <2>1
<1>6. QED
  BY <1>2, <1>3, <1>4, <1>5

(* What is released to a rank: its batches from lo to hi - 1, in order.    *)
LEMMA ForRankIs ==
  ASSUME NEW r \in Rank, NEW lo \in Nat, NEW hi \in Nat, NEW s, s = ForRank(r, lo, hi)
  PROVE  /\ s \in Seq(Nat)
         /\ \A i \in DOMAIN s : s[i] >= lo /\ s[i] < hi /\ s[i] % Ranks = r
         /\ \A i, j \in DOMAIN s : i < j => s[i] < s[j]
         /\ \A n \in Nat : n >= lo /\ n < hi /\ n % Ranks = r => n \in Range(s)
<1>1. Ranks \in Nat \ {0} /\ r \in Nat
  BY Numbers
<1> PICK a \in Nat, b \in Nat : a = Passed(r, lo) /\ b = Passed(r, hi)
  BY PassedIs
<1>2. s = [i \in 1 .. b - a |-> (a + i - 1) * Ranks + r]
  BY DEF ForRank
<1>3. \A i \in 1 .. b - a : a + i - 1 \in Nat /\ s[i] = Ranks * (a + i - 1) + r /\ s[i] \in Nat
  <2> TAKE i \in 1 .. b - a
  <2> PICK k \in Nat : k = a + i - 1
    OBVIOUS
  <2>1. s[i] = k * Ranks + r
    BY <1>2
  <2>2. k * Ranks = Ranks * k /\ Ranks * k \in Nat
    BY <1>1
  <2>3. QED
    BY <1>1, <2>1, <2>2
<1>4. DOMAIN s = 1 .. b - a
  BY <1>2
<1>5. s \in Seq(Nat)
  <2>1. s \in [1 .. b - a -> Nat]
    BY <1>2, <1>3, <1>4
  <2>2. CASE b - a \in Nat
    BY <2>1, <2>2
  <2>3. CASE b - a < 0
    <3>1. 1 .. b - a = 1 .. 0
      BY <2>3
    <3>2. s \in [1 .. 0 -> Nat]
      BY <2>1, <3>1
    <3>3. QED
      BY <3>2
  <2>4. QED
    BY <2>2, <2>3
<1>6. ASSUME NEW i \in DOMAIN s
      PROVE  s[i] >= lo /\ s[i] < hi /\ s[i] % Ranks = r
  <2> PICK k \in Nat : k = a + i - 1
    BY <1>3, <1>4
  <2>1. s[i] = Ranks * k + r /\ s[i] \in Nat /\ ~(k < a) /\ k < b
    BY <1>3, <1>4
  <2>2. ~(s[i] < lo) /\ s[i] < hi
    BY <2>1, PassedIs
  <2>3. s[i] % Ranks = r
    BY <2>1, OfRank
  <2>4. QED
    BY <2>1, <2>2, <2>3
<1>7. ASSUME NEW i \in DOMAIN s, NEW j \in DOMAIN s, i < j
      PROVE  s[i] < s[j]
  <2>0. i \in 1 .. b - a /\ j \in 1 .. b - a
    BY <1>4
  <2>1. a + i - 1 \in Nat /\ a + j - 1 \in Nat
    BY <1>3, <2>0
  <2>2. a + i - 1 < a + j - 1
    BY ONLY <1>7, <2>0, a \in Nat, b \in Nat
  <2> PICK k \in Nat, l \in Nat : k = a + i - 1 /\ l = a + j - 1 /\ k < l
    BY <2>1, <2>2
  <2>3. s[i] = Ranks * k + r /\ s[j] = Ranks * l + r
    <3>1. s[i] = Ranks * (a + i - 1) + r
      BY <1>3, <2>0
    <3>2. s[j] = Ranks * (a + j - 1) + r
      BY <1>3, <2>0
    <3>3. QED
      BY <3>1, <3>2
  <2> PICK x \in Nat, y \in Nat : x = Ranks * k /\ y = Ranks * l
    BY <1>1
  <2>4. x < y
    BY <1>1, <2>3
  <2>5. QED
    BY <1>1, <2>3, <2>4
<1>8. ASSUME NEW n \in Nat, n >= lo, n < hi, n % Ranks = r
      PROVE  n \in Range(s)
  <2>1. PICK k \in Nat : n = Ranks * k + r
    BY <1>8, OfRank
  <2>2. ~(k < a) /\ k < b
    BY <1>8, <2>1, PassedIs
  <2>3. k - a + 1 \in DOMAIN s /\ a + (k - a + 1) - 1 = k
    BY <1>4, <2>2
  <2>4. s[k - a + 1] = n
    BY <1>3, <1>4, <2>1, <2>3
  <2>5. QED
    BY <2>3, <2>4 DEF Range
<1>9. QED
  BY <1>5, <1>6, <1>7, <1>8

(***************************************************************************)
(* Lemmas about sequences: what joins a line, and what leaves it           *)
(***************************************************************************)
LEMMA EmptyLine ==
  /\ Range(<<>>) = {} /\ BatchesIn(<<>>) = {} /\ Increasing(<<>>)
  BY DEF Range, BatchesIn, Increasing

(* Every message is somewhere in the sequence, and its index says where.   *)
LEMMA InRange ==
  ASSUME NEW S, NEW s \in Seq(S)
  PROVE  /\ DOMAIN s = 1 .. Len(s) /\ Len(s) \in Nat /\ Range(s) \subseteq S
         /\ \A i \in DOMAIN s : s[i] \in Range(s) /\ s[i] \in S
         /\ \A x \in Range(s) : \E i \in DOMAIN s : s[i] = x
         /\ s = <<>> <=> Range(s) = {}
         /\ s = <<>> <=> Len(s) = 0
<1>1. DOMAIN s = 1 .. Len(s) /\ Len(s) \in Nat /\ \A i \in 1 .. Len(s) : s[i] \in S
  OBVIOUS
<1>2. /\ \A i \in DOMAIN s : s[i] \in Range(s)
      /\ \A x \in Range(s) : \E i \in DOMAIN s : s[i] = x
  BY DEF Range
<1>3. s = <<>> <=> Len(s) = 0
  OBVIOUS
<1>4. s # <<>> => 1 \in DOMAIN s
  BY <1>1, <1>3
<1>5. s = <<>> => DOMAIN s = {}
  BY <1>1, <1>3
<1>6. s = <<>> <=> Range(s) = {}
  BY <1>2, <1>4, <1>5
<1>7. QED
  BY <1>1, <1>2, <1>3, <1>6

(* A sequence is one over any set that has all its elements.               *)
LEMMA SequenceOver ==
  ASSUME NEW S, NEW n \in Nat, NEW s \in [1 .. n -> S]
  PROVE  s \in Seq(S) /\ DOMAIN s = 1 .. n
OBVIOUS

LEMMA SequenceInto ==
  ASSUME NEW S, NEW T, NEW s \in Seq(S), \A i \in DOMAIN s : s[i] \in T
  PROVE  s \in Seq(T)
<1>1. Len(s) \in Nat /\ s \in [1 .. Len(s) -> T]
  OBVIOUS
<1>2. QED
  BY <1>1, SequenceOver

LEMMA AppendIs ==
  ASSUME NEW S, NEW s \in Seq(S), NEW x \in S
  PROVE  /\ Append(s, x) \in Seq(S) /\ Append(s, x) # <<>>
         /\ Len(Append(s, x)) = Len(s) + 1 /\ Len(s) \in Nat
         /\ DOMAIN Append(s, x) = 1 .. Len(s) + 1 /\ DOMAIN s = 1 .. Len(s)
         /\ \A i \in 1 .. Len(s) : Append(s, x)[i] = s[i]
         /\ Append(s, x)[Len(s) + 1] = x
         /\ Range(Append(s, x)) = Range(s) \cup {x}
<1> DEFINE u == Append(s, x)
<1>1. /\ u \in Seq(S) /\ u # <<>> /\ Len(u) = Len(s) + 1 /\ Len(s) \in Nat
      /\ DOMAIN u = 1 .. Len(s) + 1 /\ DOMAIN s = 1 .. Len(s)
      /\ \A i \in 1 .. Len(s) : u[i] = s[i]
      /\ u[Len(s) + 1] = x
  OBVIOUS
<1> HIDE DEF u
<1>2. \A i \in 1 .. Len(s) : i \in DOMAIN u
  BY <1>1
<1>3. Len(s) + 1 \in DOMAIN u
  BY <1>1
<1>4. \A i \in DOMAIN u : i \in DOMAIN s \/ i = Len(s) + 1
  BY <1>1
<1>5. Range(u) = Range(s) \cup {x}
  <2>1. \A y \in Range(s) \cup {x} : y \in Range(u)
    BY <1>1, <1>2, <1>3 DEF Range
  <2>2. \A y \in Range(u) : y \in Range(s) \cup {x}
    BY <1>1, <1>4 DEF Range
  <2>3. QED
    BY <2>1, <2>2
<1>6. QED
  BY <1>1, <1>5 DEF u

LEMMA TailIs ==
  ASSUME NEW S, NEW s \in Seq(S), s # <<>>
  PROVE  /\ Tail(s) \in Seq(S) /\ Len(Tail(s)) = Len(s) - 1 /\ Len(s) \in Nat \ {0}
         /\ DOMAIN Tail(s) = 1 .. Len(s) - 1 /\ DOMAIN s = 1 .. Len(s)
         /\ \A i \in 1 .. Len(s) - 1 : Tail(s)[i] = s[i + 1]
         /\ Head(s) = s[1] /\ Head(s) \in S
         /\ Range(s) = Range(Tail(s)) \cup {Head(s)}
<1> DEFINE u == Tail(s)
<1>1. /\ u \in Seq(S) /\ Len(u) = Len(s) - 1 /\ Len(s) \in Nat \ {0}
      /\ DOMAIN u = 1 .. Len(s) - 1 /\ DOMAIN s = 1 .. Len(s)
      /\ \A i \in 1 .. Len(s) - 1 : u[i] = s[i + 1]
      /\ Head(s) = s[1] /\ Head(s) \in S
  OBVIOUS
<1> HIDE DEF u
<1>2. \A i \in DOMAIN u : i + 1 \in DOMAIN s
  BY <1>1
<1>3. \A i \in DOMAIN s : i = 1 \/ (i - 1 \in DOMAIN u /\ (i - 1) + 1 = i)
  BY <1>1
<1>4. Range(s) = Range(u) \cup {Head(s)}
  <2>1. \A y \in Range(u) \cup {Head(s)} : y \in Range(s)
    BY <1>1, <1>2 DEF Range
  <2>2. ASSUME NEW i \in DOMAIN s
        PROVE  s[i] \in Range(u) \cup {Head(s)}
    BY <1>1, <1>3 DEF Range
  <2>3. \A y \in Range(s) : y \in Range(u) \cup {Head(s)}
    BY <2>2 DEF Range
  <2>4. QED
    BY <2>1, <2>3
<1>5. QED
  BY <1>1, <1>4 DEF u

LEMMA ConcatIs ==
  ASSUME NEW S, NEW s \in Seq(S), NEW t \in Seq(S)
  PROVE  /\ s \o t \in Seq(S) /\ Len(s) \in Nat /\ Len(t) \in Nat
         /\ Len(s \o t) = Len(s) + Len(t)
         /\ DOMAIN (s \o t) = 1 .. Len(s) + Len(t)
         /\ DOMAIN s = 1 .. Len(s) /\ DOMAIN t = 1 .. Len(t)
         /\ \A i \in 1 .. Len(s) : (s \o t)[i] = s[i]
         /\ \A i \in 1 .. Len(t) : (s \o t)[Len(s) + i] = t[i]
         /\ Range(s \o t) = Range(s) \cup Range(t)
<1> DEFINE u == s \o t
<1>1. /\ u \in Seq(S) /\ Len(s) \in Nat /\ Len(t) \in Nat /\ Len(u) = Len(s) + Len(t)
      /\ DOMAIN u = 1 .. Len(s) + Len(t) /\ DOMAIN s = 1 .. Len(s) /\ DOMAIN t = 1 .. Len(t)
      /\ \A i \in 1 .. Len(s) : u[i] = s[i]
      /\ \A i \in 1 .. Len(t) : u[Len(s) + i] = t[i]
  OBVIOUS
<1> HIDE DEF u
<1>2. /\ \A i \in DOMAIN s : i \in DOMAIN u
      /\ \A i \in DOMAIN t : Len(s) + i \in DOMAIN u
      /\ \A i \in DOMAIN u : i \in DOMAIN s \/ (i - Len(s) \in DOMAIN t /\ Len(s) + (i - Len(s)) = i)
  BY <1>1
<1>3. Range(u) = Range(s) \cup Range(t)
  <2>1. \A y \in Range(s) : y \in Range(u)
    BY <1>1, <1>2 DEF Range
  <2>2. \A y \in Range(t) : y \in Range(u)
    BY <1>1, <1>2 DEF Range
  <2>3. ASSUME NEW i \in DOMAIN u
        PROVE  u[i] \in Range(s) \cup Range(t)
    BY <1>1, <1>2 DEF Range
  <2>4. \A y \in Range(u) : y \in Range(s) \cup Range(t)
    BY <2>3 DEF Range
  <2>5. QED
    BY <2>1, <2>2, <2>4
<1>4. QED
  BY <1>1, <1>3 DEF u

(* A message that is greater than all others, or End, joins at the back.   *)
LEMMA JoinsLine ==
  ASSUME NEW s \in Seq(Int), NEW x \in Int, Increasing(s),
         x # End => End \notin Range(s) /\ \A y \in Range(s) : y < x
  PROVE  Increasing(Append(s, x))
<1> PICK u \in Seq(Int) : u = Append(s, x)
  BY AppendIs
<1>1. /\ Len(s) \in Nat /\ DOMAIN u = 1 .. Len(s) + 1 /\ DOMAIN s = 1 .. Len(s)
      /\ \A i \in 1 .. Len(s) : u[i] = s[i]
      /\ u[Len(s) + 1] = x
  BY AppendIs
<1>2. ASSUME NEW i \in DOMAIN u, NEW j \in DOMAIN u, i < j, u[j] # End
      PROVE  u[i] # End /\ u[i] < u[j]
  <2>1. i \in DOMAIN s /\ u[i] = s[i]
    BY <1>1, <1>2
  <2>2. CASE j \in DOMAIN s
    BY <1>1, <1>2, <2>1, <2>2 DEF Increasing
  <2>3. CASE j = Len(s) + 1
    <3>1. u[j] = x /\ x # End
      BY <1>1, <1>2, <2>3
    <3>2. s[i] \in Range(s)
      BY <2>1, InRange
    <3>3. QED
      BY <2>1, <3>1, <3>2
  <2>4. QED
    BY <1>1, <2>2, <2>3
<1>3. QED
  BY <1>2 DEF Increasing

(* The first of a line is its least batch, and the rest stands in line.    *)
LEMMA LeavesLine ==
  ASSUME NEW s \in Seq(Int), Increasing(s), s # <<>>
  PROVE  /\ Increasing(Tail(s))
         /\ \A y \in BatchesIn(Tail(s)) : Head(s) # End /\ Head(s) < y
         /\ Head(s) = End => BatchesIn(s) = {}
         /\ BatchesIn(Tail(s)) = BatchesIn(s) \ {Head(s)}
<1> PICK u \in Seq(Int) : u = Tail(s)
  BY TailIs
<1>1. /\ Len(s) \in Nat \ {0} /\ DOMAIN u = 1 .. Len(s) - 1 /\ DOMAIN s = 1 .. Len(s)
      /\ \A i \in 1 .. Len(s) - 1 : u[i] = s[i + 1]
      /\ Head(s) = s[1] /\ Head(s) \in Int /\ Range(s) = Range(u) \cup {Head(s)}
  BY TailIs
<1>2. ASSUME NEW i \in DOMAIN u, NEW j \in DOMAIN u, i < j, u[j] # End
      PROVE  u[i] # End /\ u[i] < u[j]
  <2>1. i + 1 \in DOMAIN s /\ j + 1 \in DOMAIN s /\ i + 1 < j + 1 /\ u[i] = s[i + 1] /\ u[j] = s[j + 1]
    BY <1>1, <1>2
  <2>2. QED
    BY <1>2, <2>1 DEF Increasing
<1>3. ASSUME NEW y \in BatchesIn(u)
      PROVE  Head(s) # End /\ Head(s) < y
  <2>1. PICK j \in DOMAIN u : u[j] = y
    BY InRange DEF BatchesIn
  <2>2. j + 1 \in DOMAIN s /\ 1 \in DOMAIN s /\ 1 < j + 1 /\ s[j + 1] = y /\ y # End
    BY <1>1, <2>1 DEF BatchesIn
  <2>3. QED
    BY <1>1, <2>2 DEF Increasing
<1>4. BatchesIn(u) = BatchesIn(s) \ {Head(s)}
  <2>1. Head(s) \notin BatchesIn(u)
    BY <1>1, <1>3
  <2>2. QED
    BY <1>1, <2>1 DEF BatchesIn
<1>5. Head(s) = End => BatchesIn(s) = {}
  BY <1>3, <1>4 DEF BatchesIn
<1>6. Increasing(u)
  BY <1>2 DEF Increasing
<1>7. QED
  BY <1>3, <1>4, <1>5, <1>6

(* Batches in order join a line behind smaller ones.                       *)
LEMMA JoinLine ==
  ASSUME NEW s \in Seq(Int), NEW t \in Seq(Int), Increasing(s),
         \A i, j \in DOMAIN t : i < j => t[i] < t[j],
         End \notin Range(s), End \notin Range(t),
         \A y \in Range(s), z \in Range(t) : y < z
  PROVE  Increasing(s \o t)
<1> PICK u \in Seq(Int) : u = s \o t
  BY ConcatIs
<1>1. /\ Len(s) \in Nat /\ Len(t) \in Nat /\ DOMAIN u = 1 .. Len(s) + Len(t)
      /\ DOMAIN s = 1 .. Len(s) /\ DOMAIN t = 1 .. Len(t)
      /\ \A i \in 1 .. Len(s) : u[i] = s[i]
      /\ \A i \in 1 .. Len(t) : u[Len(s) + i] = t[i]
  BY ConcatIs
<1>2. \A i \in DOMAIN u : \/ i \in DOMAIN s
                          \/ \E k \in DOMAIN t : i = Len(s) + k
  <2> TAKE i \in DOMAIN u
  <2>1. CASE i <= Len(s)
    BY <1>1, <2>1
  <2>2. CASE ~(i <= Len(s))
    <3>1. i - Len(s) \in DOMAIN t /\ i = Len(s) + (i - Len(s))
      BY <1>1, <2>2
    <3>2. QED
      BY <3>1
  <2>3. QED
    BY <2>1, <2>2
<1>3. ASSUME NEW i \in DOMAIN u, NEW j \in DOMAIN u, i < j, u[j] # End
      PROVE  u[i] # End /\ u[i] < u[j]
  <2>1. CASE j \in DOMAIN s
    <3>1. i \in DOMAIN s
      BY <1>1, <1>3, <2>1
    <3>2. QED
      BY <1>1, <1>3, <2>1, <3>1 DEF Increasing
  <2>2. CASE \E k \in DOMAIN t : j = Len(s) + k
    <3>1. PICK k \in DOMAIN t : j = Len(s) + k
      BY <2>2
    <3>2. u[j] = t[k] /\ t[k] \in Range(t)
      BY <1>1, <3>1, InRange
    <3>3. CASE i \in DOMAIN s
      <4>1. u[i] = s[i] /\ s[i] \in Range(s)
        BY <1>1, <3>3, InRange
      <4>2. QED
        BY <3>2, <4>1
    <3>4. CASE \E l \in DOMAIN t : i = Len(s) + l
      <4>1. PICK l \in DOMAIN t : i = Len(s) + l
        BY <3>4
      <4>2. u[i] = t[l] /\ t[l] \in Range(t)
        BY <1>1, <4>1, InRange
      <4>3. l < k
        <5>1. l \in Int /\ k \in Int
          BY <1>1
        <5>2. QED
          BY ONLY <1>1, <1>3, <3>1, <4>1, <5>1
      <4>4. QED
        BY <3>1, <3>2, <4>2, <4>3
    <3>5. QED
      BY <1>2, <3>3, <3>4
  <2>3. QED
    BY <1>2, <2>1, <2>2
<1>4. QED
  BY <1>3 DEF Increasing

(***************************************************************************)
(* The collator's release                                                  *)
(***************************************************************************)
(* The first batch from nextBatch on that is not complete exists.          *)
LEMMA ReleasedIs ==
  ASSUME nextBatch \in Start .. EndAt, NEW complete \in SUBSET Batches
  PROVE  /\ ReleasedUpTo(complete) \in nextBatch .. EndAt
         /\ ReleasedUpTo(complete) \notin complete
         /\ nextBatch .. ReleasedUpTo(complete) - 1 \subseteq complete
<1> DEFINE D == {n \in Nat : nextBatch <= n /\ n <= EndAt /\ n \notin complete}
<1>1. Start \in Nat /\ EndAt \in Nat /\ nextBatch \in Nat /\ nextBatch <= EndAt
  BY Numbers
<1>2. EndAt \in D
  BY <1>1, Numbers DEF Batches
<1>3. PICK n \in D : \A k \in D : ~ (<<k, n>> \in OpToRel(<, Nat))
  BY <1>2, WFMin, NatLessThanWellFounded
<1>4. \A k \in D : ~ (k < n)
  BY <1>3 DEF OpToRel
<1>5. n \in nextBatch .. EndAt /\ n \notin complete
  BY <1>1
<1>6. nextBatch .. n - 1 \subseteq complete
  BY <1>1, <1>4, <1>5
<1>7. QED
  BY <1>5, <1>6 DEF ReleasedUpTo

(***************************************************************************)
(* Types                                                                   *)
(***************************************************************************)
LEMMA Typed ==
  ASSUME TypeOK, NEW r \in Rank
  PROVE  /\ outbox[r] \in Seq(Line) /\ wire[r] \in Seq(Line) /\ delivered[r] \in Seq(Batches)
         /\ outbox[r] \in Seq(Int) /\ wire[r] \in Seq(Int) /\ delivered[r] \in Seq(Int)
         /\ asks[r] \in Nat /\ progress[r] \in Nat /\ current[r] \in Batches \cup {None}
         /\ nextBatch \in Nat /\ nextBatch <= EndAt /\ nextBatch >= Start
         /\ endCount \in Nat /\ interrupts \in Nat
<1>1. Line \subseteq Int /\ Batches \subseteq Int
  BY Numbers
<1>2. /\ outbox[r] \in Seq(Line) /\ wire[r] \in Seq(Line) /\ delivered[r] \in Seq(Batches)
      /\ asks[r] \in Nat /\ progress[r] \in Nat /\ current[r] \in Batches \cup {None}
      /\ nextBatch \in Start .. EndAt /\ endCount \in 0 .. Workers /\ interrupts \in 0 .. MaxInterrupts
  BY DEF TypeOK, Line
<1>3. ASSUME NEW s \in Seq(Line)
      PROVE  s \in Seq(Int)
  BY <1>1, InRange, SequenceInto
<1>4. ASSUME NEW s \in Seq(Batches)
      PROVE  s \in Seq(Int)
  BY <1>1, InRange, SequenceInto
<1>5. outbox[r] \in Seq(Int) /\ wire[r] \in Seq(Int) /\ delivered[r] \in Seq(Int)
  BY <1>2, <1>3, <1>4
<1>6. nextBatch \in Nat /\ nextBatch <= EndAt /\ nextBatch >= Start
  BY <1>2, Numbers
<1>7. endCount \in Nat /\ interrupts \in Nat
  BY <1>2, DeliveryAssumption
<1>8. QED
  BY <1>2, <1>5, <1>6, <1>7

(* Closing a reader.                                                       *)
LEMMA ShutTyped ==
  ASSUME TypeOK, NEW r \in Rank, Shut(r)
  PROVE  /\ reader' \in [Rank -> {"closed", "listening", "open", "waiting", "took", "written"}]
         /\ conn' \in [Rank -> {"none", "open", "half"}]
         /\ wire' \in [Rank -> Seq(Batches \cup {End})]
<1>1. /\ reader' = [reader EXCEPT ![r] = "closed"] /\ conn' = [conn EXCEPT ![r] = "half"]
      /\ wire' = [wire EXCEPT ![r] = <<>>]
  BY DEF Shut
<1>2. reader' \in [Rank -> {"closed", "listening", "open", "waiting", "took", "written"}]
  BY <1>1 DEF TypeOK
<1>3. conn' \in [Rank -> {"none", "open", "half"}]
  BY <1>1 DEF TypeOK
<1>4. wire' \in [Rank -> Seq(Batches \cup {End})]
  <2>1. wire \in [Rank -> Seq(Batches \cup {End})]
    BY DEF TypeOK
  <2>2. <<>> \in Seq(Batches \cup {End})
    OBVIOUS
  <2>3. QED
    BY <1>1, <2>1, <2>2
<1>5. QED
  BY <1>2, <1>3, <1>4

LEMMA InitTyped == Init => TypeOK
<1> SUFFICES ASSUME Init PROVE TypeOK
  OBVIOUS
<1>1. Window!TypeOK
  BY DEF Init, Window!Init, Window!TypeOK
<1>2. nextWorker \in Worker /\ nextBatch \in Start .. EndAt /\ endCount \in 0 .. Workers
  BY Numbers DEF Init
<1>3. progress \in [Rank -> Nat]
  BY FirstIs DEF Init
<1>4. /\ queue \in [Worker -> Seq(Message)] /\ assembling \in [Batches -> SUBSET Nat]
      /\ finished \subseteq Batches
      /\ outbox \in [Rank -> Seq(Batches \cup {End})] /\ wanted \subseteq Rank
      /\ conn \in [Rank -> {"none", "open", "half"}] /\ asks \in [Rank -> Nat]
      /\ wire \in [Rank -> Seq(Batches \cup {End})]
      /\ reader \in [Rank -> {"closed", "listening", "open", "waiting", "took", "written"}]
      /\ current \in [Rank -> Batches \cup {None}] /\ delivered \in [Rank -> Seq(Batches)]
      /\ ended \subseteq Rank
      /\ closes \in 0 .. MaxCloses /\ interrupts \in 0 .. MaxInterrupts
  BY DeliveryAssumption DEF Init
<1>5. QED
  BY <1>1, <1>2, <1>3, <1>4 DEF TypeOK

(* A batch that is emitted has samples, and they go to workers.            *)
LEMMA EmitTyped ==
  ASSUME TypeOK, DistributeBatch
  PROVE  TypeOK'
<1> PICK n : n = Start + emitted
  OBVIOUS
<1>1. n \in Batches /\ emitted \in Nat
  <2>1. emitted \in Nat /\ emitted < EndAt - Start
    BY DEF TypeOK, Window!TypeOK, DistributeBatch, Window!Emit
  <2>2. QED
    BY <2>1, Numbers DEF Batches
<1>2. Window!TypeOK'
  BY <1>1 DEF TypeOK, Window!TypeOK, DistributeBatch, Window!Emit
<1>3. nextWorker' \in Worker
  <2>1. Samples[n] \in Nat /\ Workers \in Nat \ {0} /\ Worker = 0 .. Workers - 1
    BY <1>1, Numbers
  <2> nextWorker \in Worker
    BY DEF TypeOK
  <2>2. (nextWorker + Samples[n]) % Workers \in 0 .. Workers - 1
    BY <2>1
  <2>3. QED
    BY <2>2 DEF DistributeBatch, WorkerAfter, Worker
<1>4. queue' \in [Worker -> Seq(Message)]
  <2>1. \A w \in Worker : Part(n, w) \subseteq Nat
    BY <1>1, Numbers DEF Part
  <2>2. \A w \in Worker : [batch |-> n, samples |-> Part(n, w)] \in Message
    BY <1>1, <2>1 DEF Message
  <2>3. \A w \in Worker : queue[w] \in Seq(Message)
    BY DEF TypeOK
  <2>4. \A w \in Worker : Append(queue[w], [batch |-> n, samples |-> Part(n, w)]) \in Seq(Message)
    BY <2>2, <2>3, AppendIs
  <2>5. queue' = [w \in Worker |->
           IF Part(n, w) = {} THEN queue[w]
           ELSE Append(queue[w], [batch |-> n, samples |-> Part(n, w)])]
    BY DEF DistributeBatch
  <2>6. QED
    BY <2>3, <2>4, <2>5
<1>5. QED
  BY <1>2, <1>3, <1>4 DEF TypeOK, DistributeBatch, collating, sockets, reading, counts

LEMMA EndTyped ==
  ASSUME TypeOK, DistributeEnd
  PROVE  TypeOK'
<1>1. EndMessage \in Message
  BY DEF EndMessage, Message
<1>2. Window!TypeOK'
  BY DEF TypeOK, Window!TypeOK, DistributeEnd, Window!End
<1>3. \A w \in Worker : Append(queue[w], EndMessage) \in Seq(Message)
  BY <1>1, AppendIs DEF TypeOK
<1>4. queue' \in [Worker -> Seq(Message)]
  BY <1>3 DEF DistributeEnd
<1>5. QED
  BY <1>2, <1>4 DEF TypeOK, DistributeEnd, collating, sockets, reading, counts

(***************************************************************************)
(* What a step leaves alone keeps its part of the invariant                *)
(***************************************************************************)
SameLine(q) ==
  /\ wire'[q] = wire[q] /\ outbox'[q] = outbox[q] /\ current'[q] = current[q]
  /\ progress'[q] = progress[q] /\ delivered'[q] = delivered[q]

SameRank(q) ==
  /\ SameLine(q)
  /\ conn'[q] = conn[q] /\ asks'[q] = asks[q] /\ (q \in wanted' <=> q \in wanted)
  /\ reader'[q] = reader[q]

(* Nothing happens in the workers and the collator's side of them.         *)
SameWorkers == UNCHANGED <<phase, emitted, queue, assembling, finished, nextBatch, endCount>>

LEMMA KeepWorkers ==
  ASSUME EndRight, SamplesRight, SentOnce, SameWorkers
  PROVE  EndRight' /\ SamplesRight' /\ SentOnce'
<1>1. /\ phase' = phase /\ emitted' = emitted /\ queue' = queue /\ assembling' = assembling
      /\ finished' = finished /\ nextBatch' = nextBatch /\ endCount' = endCount
  BY DEF SameWorkers
<1>2. EndRight'
  BY <1>1 DEF EndRight, Over
<1>3. SamplesRight'
  BY <1>1 DEF SamplesRight, OnItsWay
<1>4. SentOnce'
  BY <1>1 DEF SentOnce, OnTime, Sent
<1>5. QED
  BY <1>2, <1>3, <1>4

(* The line of a rank is the same while __next__ is where it was, or only  *)
(* between opening, asking and closing.                                    *)
LEMMA KeepLine ==
  ASSUME NEW q \in Rank, InLine(q), EndStays(q), NothingMissing(q), SameLine(q),
         reader'[q] = reader[q] \/ {reader[q], reader'[q]} \cap {"took", "written"} = {},
         endCount' = endCount, nextBatch' = nextBatch,
         interrupts' = interrupts \/ interrupts' # 0
  PROVE  InLine(q)' /\ EndStays(q)' /\ NothingMissing(q)'
<1>1. InLine(q)'
  BY DEF InLine, SameLine, Held, Below, BatchesIn
<1>2. EndStays(q)'
  BY DEF EndStays, SameLine
<1>3. NothingMissing(q)'
  <2>1. (reader'[q] = "took" <=> reader[q] = "took") /\ (reader'[q] = "written" <=> reader[q] = "written")
    OBVIOUS
  <2>2. NextOf(q)' = NextOf(q) /\ Expected(q)' = Expected(q)
    BY <2>1 DEF NextOf, Expected, Ahead, SameLine, BatchesIn
  <2>3. QED
    BY <2>1, <2>2 DEF NothingMissing, SameLine
<1>4. QED
  BY <1>1, <1>2, <1>3

LEMMA KeepRank ==
  ASSUME NEW q \in Rank, RankRight(q), SameRank(q),
         endCount' = endCount, nextBatch' = nextBatch,
         interrupts' = interrupts \/ interrupts' # 0
  PROVE  RankRight(q)'
<1>1. InLine(q)' /\ EndStays(q)' /\ NothingMissing(q)'
  BY KeepLine DEF RankRight, SameRank
<1>2. Connected(q)' /\ OneAnswer(q)'
  BY DEF RankRight, SameRank, SameLine, Connected, OneAnswer
<1>3. QED
  BY <1>1, <1>2 DEF RankRight

(* A step of one rank.                                                     *)
LEMMA StepOfRank ==
  ASSUME IInv, TypeOK', SameWorkers, NEW r \in Rank, RankRight(r)',
         \A q \in Rank \ {r} : SameRank(q),
         interrupts' = interrupts \/ interrupts' # 0
  PROVE  IInv'
<1>1. EndRight' /\ SamplesRight' /\ SentOnce'
  BY KeepWorkers DEF IInv
<1>2. \A q \in Rank \ {r} : RankRight(q)'
  BY KeepRank DEF IInv, SameWorkers
<1>3. QED
  BY <1>1, <1>2 DEF IInv

(***************************************************************************)
(* The steps that only ask, answer, open and close                         *)
(***************************************************************************)
LEMMA ConnectStep ==
  ASSUME IInv, NEW r \in Rank, Connect(r)
  PROVE  IInv'
<1>1. /\ conn[r] = "none" /\ reader[r] = "listening"
      /\ conn' = [conn EXCEPT ![r] = "open"] /\ reader' = [reader EXCEPT ![r] = "open"]
      /\ UNCHANGED <<phase, emitted, nextWorker, queue, assembling, finished, nextBatch, endCount,
                     outbox, asks, wire, wanted, current, progress, delivered, ended, closes,
                     interrupts>>
  BY DEF Connect, window, Window!Activate, collating, counts
<1>2. TypeOK /\ RankRight(r)
  BY DEF IInv
<1>3. TypeOK'
  <2>1. Window!TypeOK'
    BY <1>2 DEF TypeOK, Window!TypeOK, Connect, window, Window!Activate
  <2>2. QED
    BY <1>1, <1>2, <2>1 DEF TypeOK
<1>4. conn'[r] = "open" /\ reader'[r] = "open"
  BY <1>1, <1>2 DEF TypeOK
<1>5. InLine(r)' /\ EndStays(r)' /\ NothingMissing(r)'
  <2>1. SameLine(r)
    BY <1>1 DEF SameLine
  <2>2. QED
    BY <1>1, <1>2, <1>4, <2>1, KeepLine DEF RankRight
<1>6. Connected(r)'
  BY <1>1, <1>2, <1>4 DEF RankRight, Connected
<1>7. OneAnswer(r)'
  <2>1. asks[r] = 0 /\ r \notin wanted /\ wire[r] = <<>> /\ Len(<<>>) = 0
    BY <1>1, <1>2 DEF RankRight, Connected
  <2>2. QED
    BY <1>1, <1>4, <2>1 DEF OneAnswer
<1>8. \A q \in Rank \ {r} : SameRank(q)
  BY <1>1, <1>2 DEF TypeOK, SameRank, SameLine
<1>9. RankRight(r)'
  BY <1>5, <1>6, <1>7 DEF RankRight
<1>10. QED
  BY <1>1, <1>3, <1>8, <1>9, StepOfRank DEF SameWorkers

LEMMA HearNextStep ==
  ASSUME IInv, NEW r \in Rank, HearNext(r)
  PROVE  IInv'
<1>1. /\ asks[r] > 0 /\ asks' = [asks EXCEPT ![r] = @ - 1] /\ wanted' = wanted \cup {r}
      /\ UNCHANGED <<window, nextWorker, queue, collating, outbox, conn, wire, reading, counts>>
  BY DEF HearNext
<1> USE DEF window, collating, reading, counts
<1>2. TypeOK /\ RankRight(r)
  BY DEF IInv
<1>3. asks[r] \in Nat /\ Len(wire[r]) \in Nat
  BY <1>2, Typed, InRange
<1>4. TypeOK'
  <2>1. Window!TypeOK'
    BY <1>1, <1>2 DEF TypeOK, Window!TypeOK
  <2>2. asks[r] - 1 \in Nat
    BY <1>1, <1>3
  <2>3. QED
    BY <1>1, <1>2, <2>1, <2>2 DEF TypeOK
<1>5. asks'[r] = asks[r] - 1 /\ r \in wanted'
  BY <1>1, <1>2 DEF TypeOK
<1>6. InLine(r)' /\ EndStays(r)' /\ NothingMissing(r)'
  <2>1. SameLine(r)
    BY <1>1 DEF SameLine
  <2>2. QED
    BY <1>1, <1>2, <2>1, KeepLine DEF RankRight
<1>7. Connected(r)'
  BY <1>1, <1>2, <1>5 DEF RankRight, Connected
<1>8. OneAnswer(r)'
  BY <1>1, <1>2, <1>3, <1>5 DEF RankRight, OneAnswer
<1>9. \A q \in Rank \ {r} : SameRank(q)
  BY <1>1, <1>2 DEF TypeOK, SameRank, SameLine
<1>10. RankRight(r)'
  BY <1>6, <1>7, <1>8 DEF RankRight
<1>11. QED
  BY <1>1, <1>4, <1>9, <1>10, StepOfRank DEF SameWorkers

LEMMA HearCloseStep ==
  ASSUME IInv, NEW r \in Rank, HearClose(r)
  PROVE  IInv'
<1>1. /\ conn[r] = "half" /\ asks[r] = 0
      /\ conn' = [conn EXCEPT ![r] = "none"] /\ wanted' = wanted \ {r}
      /\ UNCHANGED <<window, nextWorker, queue, collating, outbox, asks, wire, reading, counts>>
  BY DEF HearClose
<1> USE DEF window, collating, reading, counts
<1>2. TypeOK /\ RankRight(r)
  BY DEF IInv
<1>3. TypeOK'
  <2>1. Window!TypeOK'
    BY <1>1, <1>2 DEF TypeOK, Window!TypeOK
  <2>2. QED
    BY <1>1, <1>2, <2>1 DEF TypeOK
<1>4. conn'[r] = "none" /\ r \notin wanted'
  BY <1>1, <1>2 DEF TypeOK
<1>5. InLine(r)' /\ EndStays(r)' /\ NothingMissing(r)'
  <2>1. SameLine(r)
    BY <1>1 DEF SameLine
  <2>2. QED
    BY <1>1, <1>2, <2>1, KeepLine DEF RankRight
<1>6. Connected(r)' /\ OneAnswer(r)'
  BY <1>1, <1>2, <1>4 DEF RankRight, Connected, OneAnswer
<1>7. \A q \in Rank \ {r} : SameRank(q)
  BY <1>1, <1>2 DEF TypeOK, SameRank, SameLine
<1>8. RankRight(r)'
  BY <1>5, <1>6 DEF RankRight
<1>9. QED
  BY <1>1, <1>3, <1>7, <1>8, StepOfRank DEF SameWorkers

LEMMA OpenStep ==
  ASSUME IInv, NEW r \in Rank, Open(r)
  PROVE  IInv'
<1>1. /\ reader[r] = "closed" /\ reader' = [reader EXCEPT ![r] = "listening"]
      /\ UNCHANGED <<window, nextWorker, queue, collating, outbox, sockets, current, progress,
                     delivered, ended, counts>>
  BY DEF Open
<1> USE DEF window, collating, sockets, counts
<1>2. TypeOK /\ RankRight(r)
  BY DEF IInv
<1>3. TypeOK'
  <2>1. Window!TypeOK'
    BY <1>1, <1>2 DEF TypeOK, Window!TypeOK
  <2>2. QED
    BY <1>1, <1>2, <2>1 DEF TypeOK
<1>4. reader'[r] = "listening"
  BY <1>1, <1>2 DEF TypeOK
<1>5. InLine(r)' /\ EndStays(r)' /\ NothingMissing(r)'
  <2>1. SameLine(r)
    BY <1>1 DEF SameLine
  <2>2. QED
    BY <1>1, <1>2, <1>4, <2>1, KeepLine DEF RankRight
<1>6. Connected(r)'
  BY <1>1, <1>2, <1>4 DEF RankRight, Connected
<1>7. OneAnswer(r)'
  BY <1>1, <1>2, <1>4 DEF RankRight, Connected, OneAnswer
<1>8. \A q \in Rank \ {r} : SameRank(q)
  BY <1>1, <1>2 DEF TypeOK, SameRank, SameLine
<1>9. RankRight(r)'
  BY <1>5, <1>6, <1>7 DEF RankRight
<1>10. QED
  BY <1>1, <1>3, <1>8, <1>9, StepOfRank DEF SameWorkers

LEMMA AskNextStep ==
  ASSUME IInv, NEW r \in Rank, AskNext(r)
  PROVE  IInv'
<1>1. /\ reader[r] = "open" /\ reader' = [reader EXCEPT ![r] = "waiting"]
      /\ asks' = [asks EXCEPT ![r] = @ + 1]
      /\ UNCHANGED <<window, nextWorker, queue, collating, outbox, conn, wire, wanted, current,
                     progress, delivered, ended, counts>>
  BY DEF AskNext
<1> USE DEF window, collating, counts
<1>2. TypeOK /\ RankRight(r)
  BY DEF IInv
<1>3. asks[r] \in Nat /\ Len(wire[r]) \in Nat
  BY <1>2, Typed, InRange
<1>4. TypeOK'
  <2>1. Window!TypeOK'
    BY <1>1, <1>2 DEF TypeOK, Window!TypeOK
  <2>2. asks[r] + 1 \in Nat
    BY <1>3
  <2>3. QED
    BY <1>1, <1>2, <2>1, <2>2 DEF TypeOK
<1>5. reader'[r] = "waiting" /\ asks'[r] = asks[r] + 1
  BY <1>1, <1>2 DEF TypeOK
<1>6. InLine(r)' /\ EndStays(r)' /\ NothingMissing(r)'
  <2>1. SameLine(r)
    BY <1>1 DEF SameLine
  <2>2. QED
    BY <1>1, <1>2, <1>5, <2>1, KeepLine DEF RankRight
<1>7. Connected(r)'
  BY <1>1, <1>2, <1>5 DEF RankRight, Connected
<1>8. OneAnswer(r)'
  BY <1>1, <1>2, <1>3, <1>5 DEF RankRight, OneAnswer
<1>9. \A q \in Rank \ {r} : SameRank(q)
  BY <1>1, <1>2 DEF TypeOK, SameRank, SameLine
<1>10. RankRight(r)'
  BY <1>6, <1>7, <1>8 DEF RankRight
<1>11. QED
  BY <1>1, <1>4, <1>9, <1>10, StepOfRank DEF SameWorkers

(***************************************************************************)
(* The steps that move a batch along its line                              *)
(***************************************************************************)
(* The first batch in the outbox of a rank that waits is the one that its  *)
(* loop expects; if End is the first, there is none.                       *)
LEMMA HeadIsExpected ==
  ASSUME IInv, NEW r \in Rank, outbox[r] # <<>>, interrupts = 0,
         reader[r] = "waiting", wire[r] = <<>>
  PROVE  /\ Head(outbox[r]) # End => Head(outbox[r]) = progress[r]
         /\ Head(outbox[r]) = End => progress[r] >= EndAt
<1> PICK h : h = Head(outbox[r])
  OBVIOUS
<1>1. TypeOK /\ Connected(r) /\ InLine(r) /\ EndStays(r) /\ NothingMissing(r)
  BY DEF IInv, RankRight
<1>2. /\ outbox[r] \in Seq(Line) /\ outbox[r] \in Seq(Int) /\ progress[r] \in Nat
      /\ nextBatch \in Nat /\ nextBatch <= EndAt /\ Start \in Nat /\ EndAt \in Nat
      /\ Batches = Start .. EndAt - 1
  BY <1>1, Typed, Numbers
<1>3. h \in Line /\ h \in Range(outbox[r])
  BY <1>2, TailIs
<1>4. Expected(r) = progress[r] /\ NextOf(r) = progress[r]
  BY EmptyLine DEF Expected, Ahead, NextOf
<1>5. /\ progress[r] % Ranks = r /\ progress[r] >= Start
      /\ \A n \in Batches : n % Ranks = r /\ n < progress[r] => n \in Range(delivered[r])
      /\ \A n \in Batches : n % Ranks = r /\ progress[r] <= n /\ n < nextBatch =>
           n \in Range(outbox[r])
  BY <1>1, <1>4 DEF NothingMissing
<1>6. ASSUME h # End
      PROVE  h = progress[r]
  <2>1. h \in BatchesIn(outbox[r]) /\ h \in Batches /\ h \in Nat
    BY <1>2, <1>3, <1>6 DEF BatchesIn, Line
  <2>2. h % Ranks = r /\ h < nextBatch
    BY <1>1, <2>1 DEF InLine
  <2>3. h \notin Range(delivered[r])
    BY <1>1, <2>1 DEF InLine, Below
  <2>4. ~(h < progress[r])
    BY <1>5, <2>1, <2>2, <2>3
  <2>5. ~(progress[r] < h)
    <3>1. SUFFICES ASSUME progress[r] < h
                   PROVE  FALSE
      OBVIOUS
    <3>2. progress[r] \in Batches /\ progress[r] < nextBatch /\ progress[r] <= progress[r]
      BY <1>2, <1>5, <2>1, <2>2, <3>1
    <3>3. progress[r] \in Range(outbox[r]) /\ progress[r] # End
      BY <1>5, <3>2, Numbers
    <3>4. progress[r] \in BatchesIn(Tail(outbox[r]))
      BY <1>2, <2>1, <3>1, <3>3, TailIs DEF BatchesIn
    <3>5. h < progress[r]
      BY <1>1, <1>2, <3>4, LeavesLine DEF InLine
    <3>6. QED
      BY <1>2, <2>1, <3>1, <3>5
  <2>6. QED
    BY <1>2, <2>1, <2>4, <2>5
<1>7. ASSUME h = End, ~(progress[r] >= EndAt)
      PROVE  FALSE
  <2>1. BatchesIn(outbox[r]) = {}
    BY <1>1, <1>2, <1>7, LeavesLine DEF InLine
  <2>2. nextBatch = EndAt
    BY <1>1, <1>3, <1>7 DEF EndStays, IInv, EndRight
  <2>3. progress[r] \in Batches /\ progress[r] < nextBatch /\ progress[r] <= progress[r]
    BY <1>2, <1>5, <1>7, <2>2
  <2>4. progress[r] \in Range(outbox[r]) /\ progress[r] # End
    BY <1>5, <2>3, Numbers
  <2>5. QED
    BY <2>1, <2>4 DEF BatchesIn
<1>8. QED
  BY <1>6, <1>7

LEMMA ServeStep ==
  ASSUME IInv, NEW r \in Rank, Serve(r)
  PROVE  IInv'
<1> PICK h : h = Head(outbox[r])
  OBVIOUS
<1>1. /\ r \in wanted /\ outbox[r] # <<>> /\ wanted' = wanted \ {r}
      /\ \/ /\ conn[r] = "open"
            /\ wire' = [wire EXCEPT ![r] = Append(@, h)]
            /\ outbox' = [outbox EXCEPT ![r] = IF h = End THEN outbox[r] ELSE Tail(outbox[r])]
            /\ UNCHANGED <<conn, asks>>
         \/ /\ conn[r] # "open"
            /\ conn' = [conn EXCEPT ![r] = "none"]
            /\ asks' = [asks EXCEPT ![r] = 0]
            /\ UNCHANGED <<wire, outbox>>
      /\ UNCHANGED <<window, nextWorker, queue, collating, reading, counts>>
  BY DEF Serve, AfterSend, Unanswered
<1> USE DEF window, collating, reading, counts
<1>2. /\ TypeOK /\ RankRight(r)
      /\ Connected(r) /\ OneAnswer(r) /\ InLine(r) /\ EndStays(r) /\ NothingMissing(r)
  BY DEF IInv, RankRight
<1>3. /\ outbox[r] \in Seq(Line) /\ outbox[r] \in Seq(Int)
      /\ wire[r] \in Seq(Line) /\ wire[r] \in Seq(Int)
      /\ asks[r] \in Nat /\ progress[r] \in Nat /\ nextBatch \in Nat /\ interrupts \in Nat
      /\ Ranks \in Nat \ {0} /\ Line \subseteq Int
  BY <1>2, Typed, Numbers
<1>4. /\ h \in Line /\ h \in Int /\ Range(outbox[r]) = Range(Tail(outbox[r])) \cup {h}
      /\ Tail(outbox[r]) \in Seq(Line) /\ Append(wire[r], h) \in Seq(Line)
      /\ Range(Append(wire[r], h)) = Range(wire[r]) \cup {h}
      /\ Len(Append(wire[r], h)) = Len(wire[r]) + 1 /\ Len(wire[r]) \in Nat
  BY <1>1, <1>3, TailIs, AppendIs
<1>5. Window!TypeOK'
  BY <1>1, <1>2 DEF TypeOK, Window!TypeOK
<1>6. \A q \in Rank \ {r} : SameRank(q)
  BY <1>1, <1>2 DEF TypeOK, SameRank, SameLine
<1>7. CASE conn[r] = "open"
  <2>1. /\ wire' = [wire EXCEPT ![r] = Append(@, h)]
        /\ outbox' = [outbox EXCEPT ![r] = IF h = End THEN outbox[r] ELSE Tail(outbox[r])]
        /\ UNCHANGED <<conn, asks>>
    BY <1>1, <1>7
  <2>2. TypeOK'
    BY <1>1, <1>2, <1>3, <1>4, <1>5, <2>1 DEF TypeOK, Line
  <2>3. /\ wire'[r] = Append(wire[r], h)
        /\ outbox'[r] = IF h = End THEN outbox[r] ELSE Tail(outbox[r])
        /\ r \notin wanted' /\ conn'[r] = "open"
        /\ SameWorkers /\ interrupts' = interrupts
    BY <1>1, <1>2, <1>7, <2>1 DEF TypeOK, SameWorkers
  <2>4. UNCHANGED <<asks, reader, current, progress, delivered, nextBatch, endCount>>
    BY <1>1, <2>1
  <2>5. Connected(r)'
    BY <1>2, <1>7, <2>3, <2>4 DEF Connected
  <2>6. OneAnswer(r)'
    <3>1. /\ Len(wire'[r]) = Len(wire[r]) + 1 /\ Len(wire[r]) \in Nat /\ asks[r] \in Nat
          /\ r \in wanted /\ r \notin wanted' /\ conn[r] = "open"
          /\ asks' = asks /\ reader' = reader /\ interrupts' = interrupts
      BY <1>1, <1>3, <1>4, <1>7, <2>3, <2>4
    <3>2. interrupts = 0 => asks[r] + 1 + Len(wire[r]) = (IF reader[r] = "waiting" THEN 1 ELSE 0)
      BY <1>2, <3>1 DEF OneAnswer
    <3>3. QED
      BY ONLY <3>1, <3>2 DEF OneAnswer
  <2>7. /\ BatchesIn(outbox'[r]) = BatchesIn(outbox[r]) \ {h}
        /\ Increasing(outbox'[r])
        /\ \A y \in BatchesIn(outbox'[r]) : h # End /\ h < y
        /\ h = End => BatchesIn(outbox[r]) = {}
    BY <1>1, <1>2, <1>3, <2>3, LeavesLine DEF InLine, BatchesIn
  <2>8. h # End => End \notin Range(wire[r])
    <3>1. SUFFICES ASSUME End \in Range(wire[r])
                   PROVE  h = End
      OBVIOUS
    <3>2. outbox[r] = <<End>>
      BY <1>2, <3>1 DEF EndStays
    <3>3. QED
      BY <3>2
  <2>9. /\ BatchesIn(wire'[r]) \subseteq BatchesIn(wire[r]) \cup ({h} \ {End})
        /\ Range(wire'[r]) = Range(wire[r]) \cup {h}
    BY <1>4, <2>3 DEF BatchesIn
  <2>10. h # End => h \in BatchesIn(outbox[r])
    BY <1>4 DEF BatchesIn
  <2>11. InLine(r)'
    <3>1. Increasing(wire'[r])
      <4>1. h # End => End \notin Range(wire[r]) /\ \A y \in Range(wire[r]) : y < h
        BY <1>2, <2>8, <2>10 DEF InLine, Below, BatchesIn
      <4>2. QED
        BY <1>2, <1>3, <1>4, <2>3, <4>1, JoinsLine DEF InLine
    <3>2. Below(BatchesIn(wire'[r]), BatchesIn(outbox'[r]))
      BY <1>2, <2>7, <2>9 DEF InLine, Below
    <3>3. BatchesIn(wire'[r]) \cup BatchesIn(outbox'[r]) \subseteq BatchesIn(wire[r]) \cup BatchesIn(outbox[r])
      BY <2>7, <2>9, <2>10
    <3>4. Held(r)' = Held(r)
      BY <2>4 DEF Held
    <3>5. /\ Below(Range(delivered[r]), Held(r) \cup BatchesIn(wire'[r]) \cup BatchesIn(outbox'[r]))
          /\ Below(Held(r), BatchesIn(wire'[r]) \cup BatchesIn(outbox'[r]))
          /\ \A n \in Range(delivered[r]) \cup Held(r) \cup BatchesIn(wire'[r]) \cup BatchesIn(outbox'[r]) :
               n % Ranks = r /\ n < nextBatch
      BY <1>2, <3>3 DEF InLine, Below
    <3>6. QED
      BY <1>2, <2>4, <2>7, <3>1, <3>2, <3>4, <3>5 DEF InLine
  <2>12. EndStays(r)'
    <3>1. CASE h = End
      <4>1. outbox'[r] = outbox[r] /\ 1 \in DOMAIN outbox[r] /\ outbox[r][1] = End
        BY <1>1, <1>3, <2>3, <3>1, TailIs
      <4>2. 1 = Len(outbox[r])
        BY <1>2, <4>1 DEF EndStays
      <4>3. outbox[r] = <<End>>
        BY <1>3, <4>1, <4>2
      <4>4. QED
        BY <1>2, <2>4, <4>1, <4>3 DEF EndStays
    <3>2. CASE h # End
      <4>1. /\ outbox'[r] = Tail(outbox[r]) /\ End \notin Range(wire'[r])
            /\ (End \in Range(outbox'[r]) <=> End \in Range(outbox[r]))
        BY <1>4, <2>3, <2>8, <2>9, <3>2
      <4>2. /\ Len(Tail(outbox[r])) = Len(outbox[r]) - 1 /\ Len(outbox[r]) \in Nat \ {0}
            /\ DOMAIN Tail(outbox[r]) = 1 .. Len(outbox[r]) - 1 /\ DOMAIN outbox[r] = 1 .. Len(outbox[r])
            /\ \A i \in 1 .. Len(outbox[r]) - 1 : Tail(outbox[r])[i] = outbox[r][i + 1]
        BY <1>1, <1>3, TailIs
      <4>3. \A i \in DOMAIN Tail(outbox[r]) : i + 1 \in DOMAIN outbox[r] /\ i \in Nat
        BY <4>2
      <4>4. \A i \in DOMAIN Tail(outbox[r]) : Tail(outbox[r])[i] = End => i + 1 = Len(outbox[r])
        BY <1>2, <4>2, <4>3 DEF EndStays
      <4>5. \A i \in DOMAIN Tail(outbox[r]) : Tail(outbox[r])[i] = End => i = Len(Tail(outbox[r]))
        BY <4>2, <4>3, <4>4
      <4>6. QED
        BY <1>2, <2>4, <4>1, <4>5 DEF EndStays
    <3>3. QED
      BY <3>1, <3>2
  <2>13. NothingMissing(r)'
    <3>1. SUFFICES ASSUME interrupts = 0
                   PROVE  NothingMissing(r)'
      BY <2>3 DEF NothingMissing
    <3>2. reader[r] = "waiting" /\ wire[r] = <<>>
      <4>1. Len(wire[r]) = 0 /\ reader[r] = "waiting"
        BY <1>1, <1>2, <1>3, <1>4, <1>7, <3>1 DEF OneAnswer
      <4>2. QED
        BY <1>3, <4>1, InRange
    <3>3. (h # End => h = progress[r]) /\ (h = End => progress[r] >= EndAt)
      BY <1>1, <3>1, <3>2, HeadIsExpected
    <3>4. Range(wire'[r]) = {h}
      BY <2>9, <3>2, EmptyLine
    <3>5. Expected(r) = progress[r] /\ NextOf(r)' = NextOf(r)
      BY <2>4, <3>2, EmptyLine DEF Expected, Ahead, NextOf
    <3>6. Expected(r)' = IF h # End THEN progress[r] + Ranks ELSE progress[r]
      BY <2>4, <3>2, <3>4 DEF Expected, Ahead, BatchesIn
    <3>7. ASSUME NEW n \in Batches, n % Ranks = r, Expected(r)' <= n, n < nextBatch
          PROVE  n \in Range(outbox'[r])
      <4>1. n \in Nat /\ progress[r] <= n /\ (h # End => n # progress[r])
        BY <1>3, <3>6, <3>7, Numbers
      <4>2. n \in Range(outbox[r])
        BY <1>2, <3>1, <3>5, <3>7, <4>1 DEF NothingMissing
      <4>3. QED
        BY <1>4, <2>3, <3>3, <4>1, <4>2
    <3>8. QED
      BY <1>2, <2>4, <3>1, <3>2, <3>3, <3>4, <3>5, <3>7 DEF NothingMissing
  <2>14. RankRight(r)'
    BY <2>5, <2>6, <2>11, <2>12, <2>13 DEF RankRight
  <2>15. QED
    BY <1>6, <2>2, <2>3, <2>14, StepOfRank
<1>8. CASE conn[r] # "open"
  <2>1. /\ conn' = [conn EXCEPT ![r] = "none"] /\ asks' = [asks EXCEPT ![r] = 0]
        /\ UNCHANGED <<wire, outbox>>
    BY <1>1, <1>8
  <2>2. TypeOK'
    BY <1>1, <1>2, <1>5, <2>1 DEF TypeOK
  <2>3. conn'[r] = "none" /\ asks'[r] = 0 /\ r \notin wanted' /\ SameLine(r) /\ SameWorkers
    BY <1>1, <1>2, <2>1 DEF TypeOK, SameLine, SameWorkers
  <2>4. InLine(r)' /\ EndStays(r)' /\ NothingMissing(r)'
    BY <1>1, <1>2, <2>3, KeepLine
  <2>5. Connected(r)' /\ OneAnswer(r)'
    BY <1>1, <1>2, <1>8, <2>1, <2>3 DEF Connected, OneAnswer
  <2>6. RankRight(r)'
    BY <2>4, <2>5 DEF RankRight
  <2>7. QED
    BY <1>1, <1>6, <2>2, <2>3, <2>6, StepOfRank
<1>9. QED
  BY <1>7, <1>8

LEMMA TakeBatchStep ==
  ASSUME IInv, NEW r \in Rank, TakeBatch(r)
  PROVE  IInv'
<1> PICK h : h = Head(wire[r])
  OBVIOUS
<1>1. /\ reader[r] = "waiting" /\ wire[r] # <<>> /\ h # End
      /\ wire' = [wire EXCEPT ![r] = Tail(@)]
      /\ current' = [current EXCEPT ![r] = h]
      /\ reader' = [reader EXCEPT ![r] = "took"]
      /\ UNCHANGED <<window, nextWorker, queue, collating, outbox, conn, asks, wanted, progress,
                     delivered, ended, counts>>
  BY DEF TakeBatch
<1> USE DEF window, collating, counts
<1>2. /\ TypeOK /\ RankRight(r)
      /\ Connected(r) /\ OneAnswer(r) /\ InLine(r) /\ EndStays(r) /\ NothingMissing(r)
  BY DEF IInv, RankRight
<1>3. /\ wire[r] \in Seq(Line) /\ wire[r] \in Seq(Int)
      /\ asks[r] \in Nat /\ progress[r] \in Nat /\ interrupts \in Nat
  BY <1>2, Typed
<1>4. /\ h \in Line /\ Range(wire[r]) = Range(Tail(wire[r])) \cup {h}
      /\ Tail(wire[r]) \in Seq(Line)
      /\ Len(Tail(wire[r])) = Len(wire[r]) - 1 /\ Len(wire[r]) \in Nat \ {0}
  BY <1>1, <1>3, TailIs
<1>5. h \in Batches /\ h \in BatchesIn(wire[r]) /\ h # None
  BY <1>1, <1>4, Numbers DEF Line, BatchesIn
<1>6. TypeOK'
  <2>1. Window!TypeOK'
    BY <1>1, <1>2 DEF TypeOK, Window!TypeOK
  <2>2. QED
    BY <1>1, <1>2, <1>4, <1>5, <2>1 DEF TypeOK, Line
<1>7. \A q \in Rank \ {r} : SameRank(q)
  BY <1>1, <1>2 DEF TypeOK, SameRank, SameLine
<1>8. /\ wire'[r] = Tail(wire[r]) /\ current'[r] = h /\ reader'[r] = "took"
      /\ SameWorkers /\ interrupts' = interrupts
      /\ UNCHANGED <<conn, asks, wanted, outbox, progress, delivered, nextBatch, endCount>>
  BY <1>1, <1>2 DEF TypeOK, SameWorkers
<1>9. conn[r] = "open" /\ current[r] = None
  BY <1>1, <1>2 DEF Connected
<1>10. Connected(r)'
  BY <1>2, <1>5, <1>8, <1>9 DEF Connected
<1>11. OneAnswer(r)'
  <2>1. SUFFICES ASSUME interrupts = 0
                 PROVE  OneAnswer(r)'
    BY <1>8 DEF OneAnswer
  <2>2. asks[r] + (IF r \in wanted THEN 1 ELSE 0) + Len(wire[r]) = 1
    BY <1>1, <1>2, <1>9, <2>1 DEF OneAnswer
  <2>3. asks[r] + (IF r \in wanted THEN 1 ELSE 0) + (Len(wire[r]) - 1) = 0
    BY <1>3, <1>4, <2>2
  <2>4. QED
    BY <1>4, <1>8, <2>3 DEF OneAnswer
<1>12. /\ Increasing(wire'[r]) /\ BatchesIn(wire'[r]) = BatchesIn(wire[r]) \ {h}
       /\ \A y \in BatchesIn(wire'[r]) : h < y
  BY <1>1, <1>2, <1>3, <1>8, LeavesLine DEF InLine
<1>13. InLine(r)'
  <2>1. Held(r)' = {h} /\ Held(r)' \subseteq BatchesIn(wire[r])
    BY <1>5, <1>8 DEF Held
  <2>2. Below(Held(r)', BatchesIn(wire'[r]) \cup BatchesIn(outbox[r]))
    BY <1>2, <1>5, <1>12, <2>1 DEF InLine, Below
  <2>3. /\ Below(Range(delivered[r]), Held(r)' \cup BatchesIn(wire'[r]) \cup BatchesIn(outbox[r]))
        /\ Below(BatchesIn(wire'[r]), BatchesIn(outbox[r]))
        /\ \A n \in Range(delivered[r]) \cup Held(r)' \cup BatchesIn(wire'[r]) \cup BatchesIn(outbox[r]) :
             n % Ranks = r /\ n < nextBatch
    BY <1>2, <1>12, <2>1 DEF InLine, Below
  <2>4. QED
    BY <1>2, <1>8, <1>12, <2>2, <2>3 DEF InLine
<1>14. EndStays(r)'
  BY <1>2, <1>4, <1>8 DEF EndStays
<1>15. NothingMissing(r)'
  <2>1. SUFFICES ASSUME interrupts = 0
                 PROVE  NothingMissing(r)'
    BY <1>8 DEF NothingMissing
  <2>2. h = progress[r]
    BY <1>1, <1>2, <1>4, <2>1 DEF NothingMissing
  <2>3. NextOf(r)' = NextOf(r) /\ Expected(r)' = Expected(r)
    BY <1>1, <1>5, <1>8 DEF NextOf, Expected, Ahead
  <2>4. QED
    BY <1>2, <1>4, <1>8, <2>1, <2>2, <2>3 DEF NothingMissing
<1>16. RankRight(r)'
  BY <1>10, <1>11, <1>13, <1>14, <1>15 DEF RankRight
<1>17. QED
  BY <1>6, <1>7, <1>8, <1>16, StepOfRank

LEMMA WriteProgressStep ==
  ASSUME IInv, NEW r \in Rank, WriteProgress(r)
  PROVE  IInv'
<1>1. /\ reader[r] = "took"
      /\ progress' = [progress EXCEPT ![r] = current[r] + Ranks]
      /\ reader' = [reader EXCEPT ![r] = "written"]
      /\ UNCHANGED <<window, nextWorker, queue, collating, outbox, sockets, current, delivered,
                     ended, counts>>
  BY DEF WriteProgress
<1> USE DEF window, collating, sockets, counts
<1>2. /\ TypeOK /\ RankRight(r)
      /\ Connected(r) /\ OneAnswer(r) /\ InLine(r) /\ EndStays(r) /\ NothingMissing(r)
  BY DEF IInv, RankRight
<1>3. /\ wire[r] \in Seq(Line) /\ asks[r] \in Nat /\ progress[r] \in Nat
      /\ Ranks \in Nat \ {0} /\ Len(wire[r]) \in Nat
  BY <1>2, Typed, Numbers, InRange
<1>4. current[r] \in Batches /\ current[r] \in Nat /\ conn[r] = "open"
  BY <1>1, <1>2, Typed, Numbers DEF Connected
<1>5. TypeOK'
  <2>1. Window!TypeOK'
    BY <1>1, <1>2 DEF TypeOK, Window!TypeOK
  <2>2. current[r] + Ranks \in Nat
    BY <1>3, <1>4
  <2>3. QED
    BY <1>1, <1>2, <2>1, <2>2 DEF TypeOK
<1>6. \A q \in Rank \ {r} : SameRank(q)
  BY <1>1, <1>2 DEF TypeOK, SameRank, SameLine
<1>7. /\ progress'[r] = current[r] + Ranks /\ reader'[r] = "written"
      /\ SameWorkers /\ interrupts' = interrupts
      /\ UNCHANGED <<conn, asks, wire, wanted, outbox, current, delivered, nextBatch, endCount>>
  BY <1>1, <1>2 DEF TypeOK, SameWorkers
<1>8. Connected(r)' /\ OneAnswer(r)'
  BY <1>1, <1>2, <1>7 DEF Connected, OneAnswer
<1>9. InLine(r)' /\ EndStays(r)'
  BY <1>2, <1>7 DEF InLine, EndStays, Held
<1>10. NothingMissing(r)'
  <2>1. SUFFICES ASSUME interrupts = 0
                 PROVE  NothingMissing(r)'
    BY <1>7 DEF NothingMissing
  <2>2. wire[r] = <<>>
    <3>1. Len(wire[r]) = 0
      BY <1>1, <1>2, <1>3, <1>4, <2>1 DEF OneAnswer
    <3>2. QED
      BY <1>3, <3>1, InRange
  <2>3. current[r] = progress[r] /\ progress[r] % Ranks = r /\ progress[r] >= Start
    BY <1>1, <1>2, <2>1 DEF NothingMissing
  <2>4. progress'[r] % Ranks = r /\ progress'[r] >= Start
    <3>1. (progress[r] + Ranks) % Ranks = progress[r] % Ranks
      BY <1>3, NextOfRank
    <3>2. QED
      BY <1>3, <1>7, <2>3, <3>1, Numbers
  <2>5. NextOf(r)' = NextOf(r)
    BY <1>1, <1>7, <2>3 DEF NextOf
  <2>6. Expected(r)' = Expected(r)
    BY <1>1, <1>7, <2>2, <2>3, EmptyLine DEF Expected, Ahead
  <2>7. QED
    BY <1>2, <1>7, <2>1, <2>2, <2>4, <2>5, <2>6, EmptyLine DEF NothingMissing
<1>11. RankRight(r)'
  BY <1>8, <1>9, <1>10 DEF RankRight
<1>12. QED
  BY <1>5, <1>6, <1>7, <1>11, StepOfRank

LEMMA ReturnBatchStep ==
  ASSUME IInv, NEW r \in Rank, ReturnBatch(r)
  PROVE  IInv'
<1> PICK c : c = current[r]
  OBVIOUS
<1>1. /\ reader[r] = "written"
      /\ delivered' = [delivered EXCEPT ![r] = Append(@, c)]
      /\ current' = [current EXCEPT ![r] = None]
      /\ reader' = [reader EXCEPT ![r] = "open"]
      /\ UNCHANGED <<phase, emitted, nextWorker, queue, collating, outbox, sockets, progress, ended,
                     counts>>
  BY DEF ReturnBatch, Window!Return
<1> USE DEF collating, sockets, counts
<1>2. /\ TypeOK /\ RankRight(r)
      /\ Connected(r) /\ OneAnswer(r) /\ InLine(r) /\ EndStays(r) /\ NothingMissing(r)
  BY DEF IInv, RankRight
<1>3. /\ delivered[r] \in Seq(Batches) /\ delivered[r] \in Seq(Int) /\ progress[r] \in Nat
      /\ Ranks \in Nat \ {0}
  BY <1>2, Typed, Numbers
<1>4. c \in Batches /\ c \in Nat /\ conn[r] = "open" /\ progress[r] = c + Ranks /\ c # None /\ c # End
  BY <1>1, <1>2, Typed, Numbers DEF Connected
<1>5. /\ Append(delivered[r], c) \in Seq(Batches)
      /\ Range(Append(delivered[r], c)) = Range(delivered[r]) \cup {c}
      /\ Range(delivered[r]) \subseteq Batches
  BY <1>3, <1>4, AppendIs, InRange
<1>6. TypeOK'
  <2>1. Window!TypeOK'
    BY <1>1, <1>2 DEF TypeOK, Window!TypeOK, ReturnBatch, Window!Return
  <2>2. QED
    BY <1>1, <1>2, <1>5, <2>1 DEF TypeOK
<1>7. \A q \in Rank \ {r} : SameRank(q)
  BY <1>1, <1>2 DEF TypeOK, SameRank, SameLine
<1>8. /\ delivered'[r] = Append(delivered[r], c) /\ current'[r] = None /\ reader'[r] = "open"
      /\ SameWorkers /\ interrupts' = interrupts
      /\ UNCHANGED <<conn, asks, wire, wanted, outbox, progress, nextBatch, endCount>>
  BY <1>1, <1>2 DEF TypeOK, SameWorkers
<1>9. Connected(r)' /\ OneAnswer(r)'
  BY <1>1, <1>2, <1>8 DEF Connected, OneAnswer
<1>10. Held(r) = {c} /\ Held(r)' = {}
  BY <1>4, <1>8 DEF Held
<1>11. InLine(r)'
  <2>1. Increasing(delivered'[r])
    <3>1. End \notin Range(delivered[r]) /\ \A y \in Range(delivered[r]) : y < c
      BY <1>2, <1>5, <1>10, Numbers DEF InLine, Below
    <3>2. c \in Int
      BY <1>4
    <3>3. QED
      BY <1>2, <1>3, <1>8, <3>1, <3>2, JoinsLine DEF InLine
  <2>2. /\ Below(Range(delivered'[r]), BatchesIn(wire[r]) \cup BatchesIn(outbox[r]))
        /\ \A n \in Range(delivered'[r]) \cup BatchesIn(wire[r]) \cup BatchesIn(outbox[r]) :
             n % Ranks = r /\ n < nextBatch
    BY <1>2, <1>5, <1>8, <1>10 DEF InLine, Below
  <2>3. /\ Increasing(wire[r]) /\ Increasing(outbox[r])
        /\ Below(BatchesIn(wire[r]), BatchesIn(outbox[r]))
    BY <1>2 DEF InLine
  <2>4. QED
    BY <1>8, <1>10, <2>1, <2>2, <2>3 DEF InLine, Below
<1>12. EndStays(r)'
  BY <1>2, <1>8 DEF EndStays
<1>13. NothingMissing(r)'
  <2>1. SUFFICES ASSUME interrupts = 0
                 PROVE  NothingMissing(r)'
    BY <1>8 DEF NothingMissing
  <2>2. NextOf(r) = c /\ NextOf(r)' = c + Ranks
    BY <1>1, <1>4, <1>8 DEF NextOf
  <2>3. ASSUME NEW n \in Batches, n % Ranks = r
        PROVE  n \in Range(delivered'[r]) <=> n < NextOf(r)'
    <3>1. n \in Nat /\ (n \in Range(delivered[r]) <=> n < c)
      BY <1>2, <2>1, <2>2, <2>3, Numbers DEF NothingMissing
    <3>2. n \in Range(delivered'[r]) <=> n <= c
      BY <1>4, <1>5, <1>8, <3>1
    <3>3. c % Ranks = r
      BY <1>2, <1>10 DEF InLine
    <3>4. (c < n) => (c + Ranks <= n)
      BY <1>4, <2>3, <3>1, <3>3, NextOfRank
    <3>5. QED
      BY <1>3, <1>4, <2>2, <3>1, <3>2, <3>4
  <2>4. Expected(r)' = Expected(r)
    BY <1>1, <1>8 DEF Expected, Ahead
  <2>5. QED
    BY <1>2, <1>8, <2>1, <2>3, <2>4 DEF NothingMissing
<1>14. RankRight(r)'
  BY <1>9, <1>11, <1>12, <1>13 DEF RankRight
<1>15. QED
  BY <1>6, <1>7, <1>8, <1>14, StepOfRank

(* A close loses no batch while no exception has left __next__.            *)
LEMMA Shutting ==
  ASSUME IInv, TypeOK', NEW r \in Rank, Shut(r), reader[r] \in {"open", "waiting"},
         interrupts = 0 => BatchesIn(wire[r]) = {},
         UNCHANGED <<window, queue, collating, outbox, asks, wanted, current, progress, delivered,
                     interrupts>>
  PROVE  IInv'
<1>1. /\ reader' = [reader EXCEPT ![r] = "closed"] /\ conn' = [conn EXCEPT ![r] = "half"]
      /\ wire' = [wire EXCEPT ![r] = <<>>]
  BY DEF Shut
<1> USE DEF window, collating
<1>2. /\ TypeOK /\ RankRight(r)
      /\ Connected(r) /\ OneAnswer(r) /\ InLine(r) /\ EndStays(r) /\ NothingMissing(r)
  BY DEF IInv, RankRight
<1>3. /\ reader'[r] = "closed" /\ conn'[r] = "half" /\ wire'[r] = <<>>
      /\ SameWorkers
      /\ Range(wire'[r]) = {} /\ BatchesIn(wire'[r]) = {} /\ Increasing(wire'[r])
  BY <1>1, <1>2, EmptyLine DEF TypeOK, SameWorkers
<1>4. Connected(r)' /\ OneAnswer(r)'
  BY <1>2, <1>3 DEF Connected, OneAnswer
<1>5. InLine(r)'
  BY <1>2, <1>3 DEF InLine, Below, Held
<1>6. EndStays(r)'
  BY <1>2, <1>3 DEF EndStays
<1>7. NothingMissing(r)'
  <2>1. SUFFICES ASSUME interrupts = 0
                 PROVE  NothingMissing(r)'
    BY DEF NothingMissing
  <2>2. NextOf(r)' = NextOf(r) /\ Expected(r)' = Expected(r)
    BY <1>3, <2>1 DEF NextOf, Expected, Ahead
  <2>3. QED
    BY <1>2, <1>3, <2>1, <2>2 DEF NothingMissing
<1>8. \A q \in Rank \ {r} : SameRank(q)
  BY <1>1, <1>2 DEF TypeOK, SameRank, SameLine
<1>9. RankRight(r)'
  BY <1>4, <1>5, <1>6, <1>7 DEF RankRight
<1>10. QED
  BY <1>3, <1>8, <1>9, StepOfRank

LEMMA TakeEndStep ==
  ASSUME IInv, NEW r \in Rank, TakeEnd(r)
  PROVE  IInv'
<1>1. /\ reader[r] = "waiting" /\ wire[r] # <<>> /\ Head(wire[r]) = End /\ Shut(r)
      /\ ended' = ended \cup {r}
      /\ UNCHANGED <<window, nextWorker, queue, collating, outbox, asks, wanted, current,
                     progress, delivered, counts>>
  BY DEF TakeEnd
<1> USE DEF window, collating, counts
<1>2. TypeOK /\ InLine(r)
  BY DEF IInv, RankRight
<1>3. TypeOK'
  <2>1. Window!TypeOK'
    BY <1>1, <1>2 DEF TypeOK, Window!TypeOK
  <2>2. /\ reader' \in [Rank -> {"closed", "listening", "open", "waiting", "took", "written"}]
        /\ conn' \in [Rank -> {"none", "open", "half"}]
        /\ wire' \in [Rank -> Seq(Batches \cup {End})]
    BY <1>1, <1>2, ShutTyped
  <2>3. QED
    BY <1>1, <1>2, <2>1, <2>2 DEF TypeOK
<1>4. BatchesIn(wire[r]) = {}
  BY <1>1, <1>2, Typed, LeavesLine DEF InLine
<1>5. QED
  BY <1>1, <1>3, <1>4, Shutting

LEMMA CloseEarlyStep ==
  ASSUME IInv, NEW r \in Rank, CloseEarly(r)
  PROVE  IInv'
<1>1. /\ closes < MaxCloses /\ reader[r] = "open" /\ closes' = closes + 1 /\ Shut(r)
      /\ UNCHANGED <<window, nextWorker, queue, collating, outbox, asks, wanted, current,
                     progress, delivered, ended, interrupts>>
  BY DEF CloseEarly
<1> USE DEF window, collating
<1>2. TypeOK /\ Connected(r) /\ OneAnswer(r)
  BY DEF IInv, RankRight
<1>3. TypeOK'
  <2>1. Window!TypeOK'
    BY <1>1, <1>2 DEF TypeOK, Window!TypeOK
  <2>2. closes' \in 0 .. MaxCloses
    BY <1>1, <1>2, DeliveryAssumption DEF TypeOK
  <2>3. /\ reader' \in [Rank -> {"closed", "listening", "open", "waiting", "took", "written"}]
        /\ conn' \in [Rank -> {"none", "open", "half"}]
        /\ wire' \in [Rank -> Seq(Batches \cup {End})]
    BY <1>1, <1>2, ShutTyped
  <2>4. QED
    BY <1>1, <1>2, <2>1, <2>2, <2>3 DEF TypeOK
<1>4. ASSUME interrupts = 0
      PROVE  BatchesIn(wire[r]) = {}
  <2>1. asks[r] \in Nat /\ Len(wire[r]) \in Nat /\ wire[r] \in Seq(Line)
    BY <1>2, Typed, InRange
  <2>2. Len(wire[r]) = 0
    BY <1>1, <1>2, <1>4, <2>1 DEF Connected, OneAnswer
  <2>3. QED
    BY <2>1, <2>2, InRange, EmptyLine
<1>5. QED
  BY <1>1, <1>3, <1>4, Shutting

LEMMA InterruptStep ==
  ASSUME IInv, NEW r \in Rank, Interrupt(r)
  PROVE  IInv'
<1>1. /\ interrupts < MaxInterrupts /\ reader[r] \in InterruptAt
      /\ interrupts' = interrupts + 1
      /\ reader' = [reader EXCEPT ![r] = "open"] /\ current' = [current EXCEPT ![r] = None]
      /\ UNCHANGED <<window, nextWorker, queue, collating, outbox, sockets, progress, delivered,
                     ended, closes>>
  BY DEF Interrupt
<1> USE DEF window, collating, sockets
<1>2. /\ TypeOK /\ Connected(r) /\ InLine(r) /\ EndStays(r)
      /\ reader[r] \in {"waiting", "took", "written"}
  BY <1>1, DeliveryAssumption DEF IInv, RankRight
<1>3. interrupts' \in 0 .. MaxInterrupts /\ interrupts' # 0
  BY <1>1, <1>2, DeliveryAssumption DEF TypeOK
<1>4. TypeOK'
  <2>1. Window!TypeOK'
    BY <1>1, <1>2 DEF TypeOK, Window!TypeOK
  <2>2. QED
    BY <1>1, <1>2, <1>3, <2>1 DEF TypeOK
<1>5. reader'[r] = "open" /\ current'[r] = None /\ SameWorkers
  BY <1>1, <1>2 DEF TypeOK, SameWorkers
<1>6. Connected(r)' /\ OneAnswer(r)' /\ NothingMissing(r)'
  BY <1>1, <1>2, <1>3, <1>5 DEF Connected, OneAnswer, NothingMissing
<1>7. InLine(r)'
  <2>1. Held(r)' = {}
    BY <1>5 DEF Held
  <2>2. QED
    BY <1>1, <1>2, <2>1 DEF InLine, Below
<1>8. EndStays(r)'
  BY <1>1, <1>2 DEF EndStays
<1>9. \A q \in Rank \ {r} : SameRank(q)
  BY <1>1, <1>2 DEF TypeOK, SameRank, SameLine
<1>10. RankRight(r)'
  BY <1>6, <1>7, <1>8 DEF RankRight
<1>11. QED
  BY <1>3, <1>4, <1>5, <1>9, <1>10, StepOfRank

(***************************************************************************)
(* The prefetcher, the workers and the collator                            *)
(***************************************************************************)
LEMMA QueueTyped ==
  ASSUME TypeOK, NEW w \in Worker
  PROVE  /\ queue[w] \in Seq(Message) /\ DOMAIN queue[w] = 1 .. Len(queue[w]) /\ Len(queue[w]) \in Nat
         /\ \A i \in DOMAIN queue[w] : queue[w][i] \in Message
         /\ queue[w] = <<>> <=> Len(queue[w]) = 0
<1>1. queue[w] \in Seq(Message)
  BY DEF TypeOK
<1>2. QED
  BY <1>1, InRange

(* A message is of a batch or it is End; EndMessage is one.                *)
LEMMA MessageIs ==
  /\ EndMessage \in Message /\ EndMessage.batch = End /\ EndMessage.samples = {}
  /\ \A m \in Message : m.batch \in Batches \/ m.batch = End
  /\ \A n \in Batches : n # End
BY Numbers DEF EndMessage, Message

(* The workers whose End was received: all of them, or not all.            *)
LEMMA OverIs ==
  /\ IsFiniteSet(Worker) /\ Cardinality(Worker) = Workers
  /\ \A S \in SUBSET Worker : /\ IsFiniteSet(S) /\ Cardinality(S) \in 0 .. Workers
                              /\ Cardinality(S) = Workers <=> S = Worker
<1>1. Workers \in Nat \ {0} /\ Worker = 0 .. Workers - 1
  BY Numbers
<1>2. IsFiniteSet(Worker) /\ Cardinality(Worker) = Workers
  <2>1. 0 \in Int /\ Workers - 1 \in Int /\ ~(0 > Workers - 1) /\ (Workers - 1) - 0 + 1 = Workers
    BY <1>1
  <2>2. QED
    BY <1>1, <2>1, FS_Interval
<1>3. ASSUME NEW S \in SUBSET Worker
      PROVE  /\ IsFiniteSet(S) /\ Cardinality(S) \in 0 .. Workers
             /\ Cardinality(S) = Workers <=> S = Worker
  <2>1. /\ IsFiniteSet(S) /\ Cardinality(S) <= Cardinality(Worker)
        /\ Cardinality(S) = Cardinality(Worker) => S = Worker
    BY <1>2, FS_Subset
  <2>2. Cardinality(S) \in Nat
    BY <2>1, FS_CardinalityType
  <2>3. QED
    BY <1>1, <1>2, <2>1, <2>2
<1>4. QED
  BY <1>2, <1>3

(* The ranks see nothing of what the prefetcher and the workers do.        *)
LEMMA KeepRanks ==
  ASSUME IInv, UNCHANGED <<endCount, nextBatch, outbox, sockets, reading, counts>>
  PROVE  \A q \in Rank : RankRight(q)'
<1>1. /\ endCount' = endCount /\ nextBatch' = nextBatch /\ interrupts' = interrupts
      /\ \A q \in Rank : SameRank(q)
  BY DEF SameRank, SameLine, sockets, reading, counts
<1>2. QED
  BY <1>1, KeepRank DEF IInv

(* Where the batches in flight are.                                        *)
Queued(n) == \E w \in Worker : \E i \in DOMAIN queue[w] : queue[w][i].batch = n
AtRank(r) == Range(outbox[r]) \cup Range(wire[r]) \cup {current[r]}

LEMMA InFlightIs ==
  /\ \A n : n \in InFlight <=>
       n \in Batches /\ (\/ Queued(n) \/ assembling[n] # {} \/ n \in finished
                         \/ \E r \in Rank : n \in AtRank(r))
  /\ \A n : n \in InFlight' <=>
       n \in Batches /\ (\/ Queued(n)' \/ assembling'[n] # {} \/ n \in finished'
                         \/ \E r \in Rank : n \in AtRank(r)')
<1>1. \A n : Queued(n) <=> \E w \in Worker : n \in {m.batch : m \in Range(queue[w])}
  BY DEF Queued, Range
<1>2. \A n : Queued(n)' <=> \E w \in Worker : n \in {m.batch : m \in Range(queue'[w])}
  BY DEF Queued, Range
<1>3. QED
  BY <1>1, <1>2 DEF InFlight, AtRank

LEMMA RequestBatchStep ==
  ASSUME IInv, RequestBatch
  PROVE  IInv'
<1>1. /\ UNCHANGED <<phase, emitted, nextWorker, queue, collating, outbox, sockets, reading, counts>>
      /\ TypeOK /\ EndRight /\ SamplesRight /\ SentOnce
  BY DEF IInv, RequestBatch, Window!Request
<1>2. TypeOK'
  <2>1. Window!TypeOK'
    BY <1>1 DEF TypeOK, Window!TypeOK, RequestBatch, Window!Request
  <2>2. QED
    BY <1>1, <2>1 DEF TypeOK, collating, sockets, reading, counts
<1>3. EndRight' /\ SamplesRight' /\ SentOnce'
  BY <1>1, KeepWorkers DEF SameWorkers, collating
<1>4. \A q \in Rank : RankRight(q)'
  BY <1>1, KeepRanks DEF collating
<1>5. QED
  BY <1>2, <1>3, <1>4 DEF IInv

(* What a worker has after a batch was distributed.                        *)
LEMMA EmitIs ==
  ASSUME TypeOK, DistributeBatch, NEW n \in Batches, n = Start + emitted, NEW w \in Worker
  PROVE  /\ \A i \in DOMAIN queue[w] : i \in DOMAIN queue'[w] /\ queue'[w][i] = queue[w][i]
         /\ \A i \in DOMAIN queue'[w] :
              \/ i \in DOMAIN queue[w] /\ queue'[w][i] = queue[w][i]
              \/ /\ queue'[w][i] = [batch |-> n, samples |-> Part(n, w)]
                 /\ Part(n, w) # {} /\ i = Len(queue[w]) + 1
         /\ Part(n, w) # {} =>
              \E k \in DOMAIN queue'[w] : queue'[w][k] = [batch |-> n, samples |-> Part(n, w)]
<1>1. queue'[w] = IF Part(n, w) = {} THEN queue[w]
                  ELSE Append(queue[w], [batch |-> n, samples |-> Part(n, w)])
  BY DEF DistributeBatch
<1>2. [batch |-> n, samples |-> Part(n, w)] \in Message
  <2>1. Part(n, w) \subseteq Nat
    BY Numbers DEF Part
  <2>2. QED
    BY <2>1 DEF Message
<1>3. CASE Part(n, w) = {}
  BY <1>1, <1>3
<1>4. CASE Part(n, w) # {}
  <2>1. queue'[w] = Append(queue[w], [batch |-> n, samples |-> Part(n, w)])
    BY <1>1, <1>4
  <2>2. queue[w] \in Seq(Message)
    BY QueueTyped
  <2> PICK x \in Message : x = [batch |-> n, samples |-> Part(n, w)]
    BY <1>2
  <2> PICK s, t : s = queue[w] /\ t = Append(s, x)
    OBVIOUS
  <2>3. /\ Len(s) \in Nat /\ DOMAIN t = 1 .. Len(s) + 1 /\ DOMAIN s = 1 .. Len(s)
        /\ \A i \in 1 .. Len(s) : t[i] = s[i]
        /\ t[Len(s) + 1] = x
    BY <2>2, AppendIs
  <2>4. /\ \A i \in DOMAIN s : i \in DOMAIN t /\ t[i] = s[i]
        /\ \A i \in DOMAIN t : (i \in DOMAIN s /\ t[i] = s[i]) \/ (t[i] = x /\ i = Len(s) + 1)
        /\ \E k \in DOMAIN t : t[k] = x
    BY ONLY <2>3
  <2>5. QED
    BY <1>4, <2>1, <2>4
<1>5. QED
  BY <1>3, <1>4

LEMMA DistributeBatchStep ==
  ASSUME IInv, DistributeBatch
  PROVE  IInv'
<1> PICK n : n = Start + emitted
  OBVIOUS
<1>1. /\ phase = "open" /\ phase' = phase /\ emitted < EndAt - Start /\ emitted' = emitted + 1
      /\ queue' = [w \in Worker |->
            IF Part(n, w) = {} THEN queue[w]
            ELSE Append(queue[w], [batch |-> n, samples |-> Part(n, w)])]
      /\ UNCHANGED <<collating, outbox, sockets, reading, counts>>
  BY DEF DistributeBatch, Window!Emit
<1>2. TypeOK /\ EndRight /\ SamplesRight /\ SentOnce /\ TypeOK'
  BY EmitTyped DEF IInv
<1>3. emitted \in Nat /\ n \in Batches /\ n \in Nat /\ n # End
  <2>1. emitted \in Nat
    BY <1>2 DEF TypeOK, Window!TypeOK
  <2>2. QED
    BY <1>1, <2>1, Numbers DEF Batches
<1>5. \A w \in Worker :
        /\ \A i \in DOMAIN queue[w] : i \in DOMAIN queue'[w] /\ queue'[w][i] = queue[w][i]
        /\ \A i \in DOMAIN queue'[w] :
             \/ i \in DOMAIN queue[w] /\ queue'[w][i] = queue[w][i]
             \/ queue'[w][i] = [batch |-> n, samples |-> Part(n, w)]
        /\ Part(n, w) # {} =>
             \E k \in DOMAIN queue'[w] : queue'[w][k] = [batch |-> n, samples |-> Part(n, w)]
  BY <1>2, <1>3, EmitIs
<1>6. EndRight'
  <2>1. \A w \in Worker : \A i \in DOMAIN queue'[w] : queue'[w][i].batch # End
    <3> SUFFICES ASSUME NEW w \in Worker, NEW i \in DOMAIN queue'[w]
                 PROVE  queue'[w][i].batch # End
      OBVIOUS
    <3>1. CASE i \in DOMAIN queue[w] /\ queue'[w][i] = queue[w][i]
      BY <1>1, <1>2, <3>1 DEF EndRight
    <3>2. CASE queue'[w][i] = [batch |-> n, samples |-> Part(n, w)]
      BY <1>3, <3>2
    <3>3. QED
      BY <1>5, <3>1, <3>2
  <2>2. Over = {} /\ Over' = {}
    BY <1>1 DEF Over
  <2>3. emitted' <= EndAt - Start
    BY <1>1, <1>3, Numbers
  <2>4. UNCHANGED <<endCount, nextBatch>>
    BY <1>1 DEF collating
  <2>5. phase' = "open"
    BY <1>1
  <2>6. QED
    BY <1>2, <2>1, <2>2, <2>3, <2>4, <2>5 DEF EndRight
<1>7. SamplesRight'
  <2>1. UNCHANGED <<assembling, finished, nextBatch>>
    BY <1>1 DEF collating
  <2>2. ASSUME NEW w \in Worker, NEW i \in DOMAIN queue'[w], queue'[w][i].batch # End
        PROVE  queue'[w][i].samples \subseteq Indices(queue'[w][i].batch)
    <3>1. CASE i \in DOMAIN queue[w] /\ queue'[w][i] = queue[w][i]
      BY <1>2, <2>2, <3>1 DEF SamplesRight
    <3>2. CASE queue'[w][i] = [batch |-> n, samples |-> Part(n, w)]
      BY <3>2 DEF Part
    <3>3. QED
      BY <1>5, <3>1, <3>2
  <2>3. ASSUME NEW m, NEW i, OnItsWay(m, i)
        PROVE  OnItsWay(m, i)'
    BY <1>5, <2>3 DEF OnItsWay
  <2>4. ASSUME NEW i \in Indices(n)
        PROVE  OnItsWay(n, i)'
    <3>1. Workers \in Nat \ {0} /\ Worker = 0 .. Workers - 1 /\ Indices(n) \subseteq Nat
      BY <1>3, Numbers
    <3>0. i \in Nat /\ nextWorker \in Nat
      BY <1>2, <3>1 DEF TypeOK
    <3> PICK w : w = (nextWorker + i) % Workers
      OBVIOUS
    <3>2. w \in Worker
      BY <3>1, <3>0
    <3>3. i \in Part(n, w)
      BY <3>2 DEF Part
    <3>4. PICK k \in DOMAIN queue'[w] : queue'[w][k] = [batch |-> n, samples |-> Part(n, w)]
      BY <1>5, <3>2, <3>3
    <3>5. queue'[w][k].batch = n /\ i \in queue'[w][k].samples
      BY <3>3, <3>4
    <3>6. QED
      BY <3>2, <3>5 DEF OnItsWay
  <2>5. ASSUME NEW m \in Batches, nextBatch <= m, m < Start + emitted', m \notin finished,
               NEW i \in Indices(m)
        PROVE  i \in assembling[m] \/ OnItsWay(m, i)'
    <3>1. m \in Nat /\ (m < Start + emitted \/ m = n)
      BY <1>1, <1>3, <2>5, Numbers
    <3>2. CASE m = n
      BY <2>4, <2>5, <3>2
    <3>3. CASE m < Start + emitted
      <4>1. i \in assembling[m] \/ OnItsWay(m, i)
        BY <1>2, <2>5, <3>3 DEF SamplesRight
      <4>2. QED
        BY <2>3, <4>1
    <3>4. QED
      BY <3>1, <3>2, <3>3
  <2>6. QED
    BY <1>2, <2>1, <2>2, <2>5 DEF SamplesRight
<1>8. \A q \in Rank : RankRight(q)'
  BY <1>1, KeepRanks DEF collating
<1>9. SentOnce'
  <2>1. UNCHANGED <<assembling, finished, nextBatch>>
    BY <1>1 DEF collating
  <2>2. Sent' = Sent \cup {n} /\ n \notin Sent /\ nextBatch \in Nat
    <3>1. Start \in Nat /\ nextBatch \in Start .. EndAt /\ EndAt \in Nat
      BY <1>2, Numbers DEF TypeOK
    <3>2. QED
      BY <1>1, <1>3, <3>1 DEF Sent
  <2>3. nextBatch <= n /\ nextBatch <= Start + emitted'
    BY <1>1, <1>2, <1>3, <2>2, Numbers DEF SentOnce
  <2>4. finished \subseteq nextBatch .. Start + emitted' - 1 /\ n \notin finished
    BY <1>1, <1>2, <1>3, <2>2, Numbers DEF SentOnce
  <2>5. assembling[n] = {}
    BY <1>2, <1>3, <2>2 DEF SentOnce
  <2>6. ASSUME NEW w \in Worker, NEW i \in DOMAIN queue'[w], queue'[w][i].batch # End
        PROVE  OnTime(w, i)'
    <3>1. CASE i \in DOMAIN queue[w] /\ queue'[w][i] = queue[w][i]
      BY <1>2, <2>1, <2>2, <2>6, <3>1 DEF SentOnce, OnTime
    <3>2. CASE queue'[w][i] = [batch |-> n, samples |-> Part(n, w)] /\ Part(n, w) # {}
      BY <2>1, <2>2, <2>3, <2>4, <2>5, <3>2 DEF OnTime
    <3>3. QED
      BY <1>2, <1>3, <3>1, <3>2, EmitIs
  <2>7. ASSUME NEW v \in Worker, NEW w \in Worker, NEW i \in DOMAIN queue'[v],
               NEW j \in DOMAIN queue'[w],
               v # w \/ i # j, queue'[v][i].batch # End, queue'[v][i].batch = queue'[w][j].batch
        PROVE  queue'[v][i].samples \cap queue'[w][j].samples = {}
    <3> DEFINE Old(u, k) == k \in DOMAIN queue[u] /\ queue'[u][k] = queue[u][k]
               New(u, k) == queue'[u][k] = [batch |-> n, samples |-> Part(n, u)] /\ k = Len(queue[u]) + 1
    <3>1. (Old(v, i) \/ New(v, i)) /\ (Old(w, j) \/ New(w, j))
      BY <1>2, <1>3, EmitIs
    <3>2. \A u \in Worker : \A k \in DOMAIN queue[u] : queue[u][k].batch # n
      BY <1>2, <1>3, <2>2 DEF SentOnce, OnTime
    <3>3. CASE Old(v, i) /\ Old(w, j)
      BY <1>2, <2>7, <3>3 DEF SentOnce
    <3>4. CASE New(v, i) /\ New(w, j)
      <4>1. v # w
        BY <2>7, <3>4
      <4>2. Part(n, v) \cap Part(n, w) = {}
        BY <4>1 DEF Part
      <4>3. QED
        BY <3>4, <4>2
    <3>5. QED
      BY <2>7, <3>1, <3>2, <3>3, <3>4
  <2>8. \A k \in Batches : assembling[k] # {} => k \in Sent'
    BY <1>2, <2>2 DEF SentOnce
  <2>9. QED
    BY <2>1, <2>3, <2>4, <2>6, <2>7, <2>8 DEF SentOnce
<1>10. QED
  BY <1>2, <1>6, <1>7, <1>8, <1>9 DEF IInv

LEMMA DistributeEndStep ==
  ASSUME IInv, DistributeEnd
  PROVE  IInv'
<1>1. /\ phase = "open" /\ emitted = EndAt - Start /\ phase' = "ended" /\ emitted' = emitted
      /\ queue' = [w \in Worker |-> Append(queue[w], EndMessage)]
      /\ UNCHANGED <<collating, outbox, sockets, reading, counts>>
  BY DEF DistributeEnd, Window!End
<1>2. TypeOK /\ EndRight /\ SamplesRight /\ SentOnce /\ TypeOK'
  BY EndTyped DEF IInv
<1>3. ASSUME NEW w \in Worker
      PROVE  /\ Len(queue[w]) \in Nat /\ Len(queue'[w]) = Len(queue[w]) + 1
             /\ queue'[w] # <<>> /\ queue'[w][Len(queue[w]) + 1] = EndMessage
             /\ \A i \in DOMAIN queue[w] : i \in DOMAIN queue'[w] /\ queue'[w][i] = queue[w][i]
             /\ \A i \in DOMAIN queue'[w] :
                  (i \in DOMAIN queue[w] /\ queue'[w][i] = queue[w][i]) \/ i = Len(queue[w]) + 1
  <2> PICK s, t : s = queue[w] /\ t = Append(s, EndMessage)
    OBVIOUS
  <2>1. s \in Seq(Message)
    BY <1>2, QueueTyped
  <2>2. /\ t # <<>> /\ Len(s) \in Nat /\ Len(t) = Len(s) + 1
        /\ DOMAIN t = 1 .. Len(s) + 1 /\ DOMAIN s = 1 .. Len(s)
        /\ \A i \in 1 .. Len(s) : t[i] = s[i]
        /\ t[Len(s) + 1] = EndMessage
    BY <2>1, AppendIs, MessageIs
  <2>3. /\ \A i \in DOMAIN s : i \in DOMAIN t /\ t[i] = s[i]
        /\ \A i \in DOMAIN t : (i \in DOMAIN s /\ t[i] = s[i]) \/ i = Len(s) + 1
    BY ONLY <2>2
  <2>4. queue'[w] = t
    BY <1>1
  <2>5. QED
    BY <2>2, <2>3, <2>4
<1>4. \A w \in Worker : \A i \in DOMAIN queue[w] : queue[w][i].batch # End
  BY <1>1, <1>2 DEF EndRight
<1>5. EndRight'
  <2>1. \A w \in Worker : \A i \in DOMAIN queue'[w] : queue'[w][i].batch = End =>
          queue'[w][i] = EndMessage /\ i = Len(queue'[w]) /\ phase' = "ended"
    BY <1>1, <1>3, <1>4
  <2>2. \A w \in Worker : queue'[w] # <<>> => queue'[w][Len(queue'[w])].batch = End
    BY <1>3, MessageIs
  <2>3. Over = {} /\ Over' = {}
    BY <1>1, <1>3 DEF Over
  <2>4. UNCHANGED <<endCount, nextBatch>> /\ emitted' <= EndAt - Start
    BY <1>1, <1>2 DEF collating, EndRight
  <2>5. QED
    BY <1>1, <1>2, <2>1, <2>2, <2>3, <2>4 DEF EndRight
<1>6. SamplesRight'
  <2>1. UNCHANGED <<assembling, finished, nextBatch>>
    BY <1>1 DEF collating
  <2>2. ASSUME NEW w \in Worker, NEW i \in DOMAIN queue'[w], queue'[w][i].batch # End
        PROVE  queue'[w][i].samples \subseteq Indices(queue'[w][i].batch)
    <3>1. i \in DOMAIN queue[w] /\ queue'[w][i] = queue[w][i]
      BY <1>3, <2>2, MessageIs
    <3>2. QED
      BY <1>2, <2>2, <3>1 DEF SamplesRight
  <2>3. ASSUME NEW m, NEW i, OnItsWay(m, i)
        PROVE  OnItsWay(m, i)'
    BY <1>3, <2>3 DEF OnItsWay
  <2>4. QED
    BY <1>1, <1>2, <2>1, <2>2, <2>3 DEF SamplesRight
<1>7. \A q \in Rank : RankRight(q)'
  BY <1>1, KeepRanks DEF collating
<1>8. SentOnce'
  <2>1. UNCHANGED <<assembling, finished, nextBatch, emitted>>
    BY <1>1 DEF collating
  <2>2. \A w \in Worker : \A i \in DOMAIN queue'[w] : queue'[w][i].batch # End =>
          i \in DOMAIN queue[w] /\ queue'[w][i] = queue[w][i]
    BY <1>3, MessageIs
  <2>3. \A w \in Worker : \A i \in DOMAIN queue'[w] : queue'[w][i].batch # End => OnTime(w, i)'
    BY <1>2, <2>1, <2>2 DEF SentOnce, OnTime, Sent
  <2>4. QED
    BY <1>2, <2>1, <2>2, <2>3 DEF SentOnce, Sent
<1>9. QED
  BY <1>2, <1>5, <1>6, <1>7, <1>8 DEF IInv

(* When the last worker's End is received every batch is complete: nothing *)
(* is on its way any more.                                                 *)
LEMMA LastEnd ==
  ASSUME TypeOK, EndRight, SamplesRight, phase = "ended",
         \A n \in Batches : \A i : ~OnItsWay(n, i)
  PROVE  nextBatch = EndAt
<1>1. SUFFICES ASSUME nextBatch # EndAt
               PROVE  FALSE
  OBVIOUS
<1>2. nextBatch \in Batches /\ nextBatch < Start + emitted /\ nextBatch <= nextBatch
  <2>1. nextBatch \in Start .. EndAt /\ emitted = EndAt - Start
    BY DEF TypeOK, EndRight
  <2>2. QED
    BY <1>1, <2>1, Numbers
<1>3. \A i \in Indices(nextBatch) : i \in assembling[nextBatch]
  BY <1>2 DEF SamplesRight
<1>4. assembling[nextBatch] \subseteq Indices(nextBatch) /\ assembling[nextBatch] # Indices(nextBatch)
  BY <1>2 DEF SamplesRight
<1>5. QED
  BY <1>3, <1>4

LEMMA ReceiveEndStep ==
  ASSUME IInv, NEW w \in Worker, ReceiveEnd(w)
  PROVE  IInv'
<1>1. /\ queue[w] # <<>> /\ Head(queue[w]) = EndMessage
      /\ queue' = [queue EXCEPT ![w] = Tail(@)]
      /\ endCount' = endCount + 1
      /\ outbox' = IF endCount' = Workers THEN [r \in Rank |-> Append(outbox[r], End)] ELSE outbox
      /\ UNCHANGED <<window, nextWorker, assembling, finished, nextBatch, sockets, reading, counts>>
  BY DEF ReceiveEnd, EveryWorkerEnded
<1>2. TypeOK /\ EndRight /\ SamplesRight /\ SentOnce
  BY DEF IInv
<1>3. /\ queue[w] \in Seq(Message) /\ DOMAIN queue[w] = 1 .. Len(queue[w]) /\ Len(queue[w]) \in Nat \ {0}
      /\ queue[w][1] = EndMessage
  BY <1>1, <1>2, QueueTyped, TailIs
<1>4. Len(queue[w]) = 1 /\ phase = "ended"
  <2>1. 1 \in DOMAIN queue[w] /\ queue[w][1].batch = End
    BY <1>3, MessageIs
  <2>2. QED
    BY <1>2, <2>1 DEF EndRight
<1>5. /\ Tail(queue[w]) \in Seq(Message) /\ Tail(queue[w]) = <<>>
  <2> PICK t : t = Tail(queue[w])
    OBVIOUS
  <2>1. t \in Seq(Message) /\ Len(t) = 0
    BY <1>1, <1>3, <1>4, TailIs
  <2>2. t = <<>>
    BY ONLY <2>1
  <2>3. QED
    BY <2>1, <2>2
<1>6. queue'[w] = <<>> /\ \A v \in Worker \ {w} : queue'[v] = queue[v]
  BY <1>1, <1>2, <1>5 DEF TypeOK
<1>7. /\ phase' = phase /\ emitted' = emitted /\ nextBatch' = nextBatch /\ assembling' = assembling
      /\ finished' = finished /\ interrupts' = interrupts
  BY <1>1 DEF window, counts
<1>8. Over' = Over \cup {w} /\ w \notin Over /\ Over \subseteq Worker
  BY <1>1, <1>4, <1>6, <1>7 DEF Over
<1>9. endCount = Cardinality(Over)
  BY <1>2 DEF EndRight
<1>10. /\ endCount' = Cardinality(Over') /\ endCount' \in 0 .. Workers /\ endCount # Workers
       /\ endCount' = Workers => Over' = Worker
  <2>1. IsFiniteSet(Over) /\ IsFiniteSet(Over') /\ Over' \subseteq Worker
    BY <1>8, OverIs
  <2>2. Cardinality(Over') = Cardinality(Over) + 1
    BY <1>8, <2>1, FS_AddElement
  <2>3. QED
    BY <1>1, <1>8, <1>9, <2>1, <2>2, OverIs
<1>11. /\ \A v \in Worker : \A i \in DOMAIN queue'[v] : v # w /\ i \in DOMAIN queue[v] /\ queue'[v][i] = queue[v][i]
       /\ \A v \in Worker : queue'[v] # <<>> => v # w /\ queue'[v] = queue[v]
  <2>1. \A i : i \notin DOMAIN <<>>
    OBVIOUS
  <2>2. QED
    BY <1>6, <2>1
<1>12. ASSUME NEW n \in Batches, NEW i
       PROVE  OnItsWay(n, i) <=> OnItsWay(n, i)'
  <2>1. ASSUME OnItsWay(n, i)
        PROVE  OnItsWay(n, i)'
    <3>0. PICK v \in Worker : \E k \in DOMAIN queue[v] : queue[v][k].batch = n /\ i \in queue[v][k].samples
      BY <2>1 DEF OnItsWay
    <3>1. PICK k \in DOMAIN queue[v] : queue[v][k].batch = n /\ i \in queue[v][k].samples
      BY <3>0
    <3>2. v # w
      <4>1. \A l \in DOMAIN queue[w] : l = 1
        BY <1>3, <1>4
      <4>2. QED
        BY <1>3, <3>1, <4>1, MessageIs
    <3>3. QED
      BY <1>6, <3>1, <3>2 DEF OnItsWay
  <2>2. ASSUME OnItsWay(n, i)'
        PROVE  OnItsWay(n, i)
    BY <1>11, <2>2 DEF OnItsWay
  <2>3. QED
    BY <2>1, <2>2
<1>13. endCount' = Workers => nextBatch = EndAt
  <2>1. SUFFICES ASSUME endCount' = Workers
                 PROVE  nextBatch = EndAt
    OBVIOUS
  <2>2. \A v \in Worker : queue'[v] = <<>>
    BY <1>10, <2>1 DEF Over
  <2>3. \A v \in Worker : DOMAIN queue'[v] = {}
    BY <2>2
  <2>4. \A n \in Batches : \A i : ~OnItsWay(n, i)'
    BY <2>3 DEF OnItsWay
  <2>5. \A n \in Batches : \A i : ~OnItsWay(n, i)
    BY <1>12, <2>4
  <2>6. QED
    BY <1>2, <1>4, <2>5, LastEnd
<1>14. EndRight'
  BY <1>2, <1>4, <1>7, <1>10, <1>11, <1>13 DEF EndRight
<1>15. SamplesRight'
  BY <1>2, <1>7, <1>11, <1>12 DEF SamplesRight
<1>16. \A r \in Rank : outbox'[r] = IF endCount' = Workers THEN Append(outbox[r], End) ELSE outbox[r]
  BY <1>1
<1>17. \A r \in Rank : /\ outbox[r] \in Seq(Line) /\ outbox[r] \in Seq(Int)
                       /\ Append(outbox[r], End) \in Seq(Line)
  BY <1>2, Typed, AppendIs DEF Line
<1>18. TypeOK'
  <2>1. Window!TypeOK'
    BY <1>1, <1>2 DEF TypeOK, Window!TypeOK, window
  <2>2. queue' \in [Worker -> Seq(Message)]
    BY <1>1, <1>2, <1>5 DEF TypeOK
  <2>3. outbox' \in [Rank -> Seq(Batches \cup {End})]
    BY <1>1, <1>2, <1>17 DEF TypeOK, Line
  <2>4. QED
    BY <1>1, <1>2, <1>10, <2>1, <2>2, <2>3 DEF TypeOK, sockets, reading, counts
<1>19. ASSUME NEW r \in Rank
       PROVE  RankRight(r)'
  <2>1. /\ RankRight(r)
        /\ Connected(r) /\ OneAnswer(r) /\ InLine(r) /\ EndStays(r) /\ NothingMissing(r)
    BY DEF IInv, RankRight
  <2>2. UNCHANGED <<conn, asks, wire, wanted, reader, current, progress, delivered, nextBatch, interrupts>>
    BY <1>1 DEF sockets, reading, counts
  <2>3. Connected(r)' /\ OneAnswer(r)'
    BY <2>1, <2>2 DEF Connected, OneAnswer
  <2>4. End \notin Range(outbox[r]) /\ End \notin Range(wire[r])
    <3>1. End \notin Range(outbox[r])
      BY <1>10, <2>1 DEF EndStays
    <3>2. Range(<<End>>) = {End}
      BY DEF Range
    <3>3. QED
      BY <2>1, <3>1, <3>2 DEF EndStays
  <2>5. CASE endCount' # Workers
    <3>1. outbox'[r] = outbox[r]
      BY <1>16, <2>5
    <3>2. NextOf(r)' = NextOf(r) /\ Expected(r)' = Expected(r) /\ Held(r)' = Held(r)
      BY <2>2 DEF NextOf, Expected, Ahead, Held
    <3>3. InLine(r)' /\ NothingMissing(r)'
      BY <2>1, <2>2, <3>1, <3>2 DEF InLine, NothingMissing
    <3>4. EndStays(r)'
      BY <2>1, <2>2, <2>4, <2>5, <3>1 DEF EndStays
    <3>5. QED
      BY <2>3, <3>3, <3>4 DEF RankRight
  <2>6. CASE endCount' = Workers
    <3> PICK s, t : s = outbox[r] /\ t = Append(s, End)
      OBVIOUS
    <3>1. outbox'[r] = t /\ s \in Seq(Line) /\ s \in Seq(Int) /\ End \in Line /\ End \in Int
      BY <1>16, <1>17, <2>6, Numbers DEF Line
    <3>2. /\ Len(t) = Len(s) + 1 /\ Len(s) \in Nat
          /\ DOMAIN t = 1 .. Len(s) + 1 /\ DOMAIN s = 1 .. Len(s)
          /\ \A i \in 1 .. Len(s) : t[i] = s[i]
          /\ Range(t) = Range(s) \cup {End}
      BY <3>1, AppendIs
    <3>3. BatchesIn(outbox'[r]) = BatchesIn(outbox[r])
      BY <3>1, <3>2 DEF BatchesIn
    <3>4. Increasing(outbox'[r])
      BY <2>1, <3>1, JoinsLine DEF InLine
    <3>5. NextOf(r)' = NextOf(r) /\ Expected(r)' = Expected(r) /\ Held(r)' = Held(r)
      BY <2>2 DEF NextOf, Expected, Ahead, Held
    <3>6. InLine(r)'
      BY <2>1, <2>2, <3>3, <3>4, <3>5 DEF InLine
    <3>7. NothingMissing(r)'
      BY <2>1, <2>2, <3>1, <3>2, <3>5 DEF NothingMissing
    <3>8. EndStays(r)'
      <4>1. \A i \in DOMAIN t : t[i] = End => i = Len(t)
        <5>1. \A i \in DOMAIN s : s[i] # End
          BY <2>4 DEF Range
        <5>2. QED
          BY <3>2, <5>1
      <4>2. QED
        BY <2>2, <2>4, <2>6, <3>1, <3>2, <4>1 DEF EndStays
    <3>9. QED
      BY <2>3, <3>6, <3>7, <3>8 DEF RankRight
  <2>7. QED
    BY <2>5, <2>6
<1>20. SentOnce'
  <2>1. \A v \in Worker : \A i \in DOMAIN queue'[v] : queue'[v][i].batch # End => OnTime(v, i)'
    BY <1>2, <1>7, <1>11 DEF SentOnce, OnTime, Sent
  <2>2. QED
    BY <1>2, <1>7, <1>11, <2>1 DEF SentOnce, Sent
<1>21. QED
  BY <1>14, <1>15, <1>18, <1>19, <1>20 DEF IInv

(***************************************************************************)
(* The collator's release                                                  *)
(***************************************************************************)
(* No worker with messages was over, so that End has not gone to the ranks.*)
LEMMA NotAllOver ==
  ASSUME TypeOK, EndRight, NEW w \in Worker, queue[w] # <<>>
  PROVE  endCount # Workers
<1>1. Over \subseteq Worker /\ w \notin Over
  BY DEF Over
<1>2. QED
  BY <1>1, OverIs DEF EndRight

(* What is released to a rank is behind what it had, and misses nothing.   *)
LEMMA Released ==
  ASSUME NEW r \in Rank, NEW lo \in Start .. EndAt, NEW hi \in lo .. EndAt, NEW s \in Seq(Line)
  PROVE  /\ ForRank(r, lo, hi) \in Seq(Line)
         /\ Range(s) \subseteq Range(s \o ForRank(r, lo, hi))
         /\ \A k \in lo .. hi - 1 : k % Ranks = r => k \in Range(s \o ForRank(r, lo, hi))
<1> PICK f : f = ForRank(r, lo, hi)
  OBVIOUS
<1>1. Start \in Nat /\ EndAt \in Nat /\ lo \in Nat /\ hi \in Nat /\ Start <= lo /\ hi <= EndAt
  BY Numbers
<1>2. f \in Seq(Nat)
  BY <1>1, ForRankIs
<1>3. \A i \in DOMAIN f : f[i] >= lo /\ f[i] < hi
  BY <1>1, ForRankIs
<1>4. \A i \in DOMAIN f : f[i] \in Line
  <2>1. \A i \in DOMAIN f : f[i] \in Nat
    BY <1>2, InRange
  <2>2. QED
    BY <1>1, <1>3, <2>1, Numbers DEF Line
<1>5. f \in Seq(Line)
  BY <1>2, <1>4, SequenceInto
<1>6. Range(s \o f) = Range(s) \cup Range(f)
  BY <1>5, ConcatIs
<1>7. \A k \in Nat : k >= lo /\ k < hi /\ k % Ranks = r => k \in Range(f)
  BY <1>1, ForRankIs
<1>8. \A k \in lo .. hi - 1 : k \in Nat /\ k >= lo /\ k < hi
  BY <1>1
<1>9. QED
  BY <1>5, <1>6, <1>7, <1>8

(* The batches that are released to a rank join its line at the back.      *)
LEMMA ReleaseToRank ==
  ASSUME IInv, NEW r \in Rank, NEW hi \in nextBatch .. EndAt, endCount # Workers,
         nextBatch' = hi, outbox'[r] = outbox[r] \o ForRank(r, nextBatch, hi),
         UNCHANGED <<endCount, conn, asks, wire, wanted, reader, current, progress, delivered, interrupts>>
  PROVE  RankRight(r)' /\ outbox'[r] \in Seq(Line)
<1>1. /\ TypeOK /\ Connected(r) /\ OneAnswer(r) /\ InLine(r) /\ EndStays(r) /\ NothingMissing(r)
  BY DEF IInv, RankRight
<1>2. /\ outbox[r] \in Seq(Line) /\ outbox[r] \in Seq(Int) /\ nextBatch \in Nat /\ nextBatch >= Start
      /\ hi \in Nat /\ nextBatch <= hi /\ hi <= EndAt /\ Start \in Nat /\ EndAt \in Nat
      /\ Batches = Start .. EndAt - 1 /\ \A n \in Batches : n \in Nat /\ n # End
  <2>1. /\ outbox[r] \in Seq(Line) /\ outbox[r] \in Seq(Int)
        /\ nextBatch \in Nat /\ nextBatch >= Start
    BY <1>1, Typed
  <2>2. /\ Start \in Nat /\ EndAt \in Nat
        /\ Batches = Start .. EndAt - 1 /\ \A n \in Batches : n \in Nat /\ n # End
    BY Numbers
  <2>3. hi \in Nat /\ nextBatch <= hi /\ hi <= EndAt
    BY <2>1, <2>2
  <2>4. QED
    BY <2>1, <2>2, <2>3
<1> PICK s, f, t : s = outbox[r] /\ f = ForRank(r, nextBatch, hi) /\ t = outbox'[r]
  OBVIOUS
<1>3. /\ f \in Seq(Nat)
      /\ \A i \in DOMAIN f : f[i] >= nextBatch /\ f[i] < hi /\ f[i] % Ranks = r
      /\ \A i, j \in DOMAIN f : i < j => f[i] < f[j]
      /\ \A n \in Nat : n >= nextBatch /\ n < hi /\ n % Ranks = r => n \in Range(f)
  <2>1. r \in Rank /\ nextBatch \in Nat /\ hi \in Nat /\ f = ForRank(r, nextBatch, hi)
    BY <1>2
  <2>2. f \in Seq(Nat)
    BY ONLY <2>1, ForRankIs
  <2>3. \A i \in DOMAIN f : f[i] >= nextBatch /\ f[i] < hi /\ f[i] % Ranks = r
    BY ONLY <2>1, ForRankIs
  <2>4. \A i, j \in DOMAIN f : i < j => f[i] < f[j]
    BY ONLY <2>1, ForRankIs
  <2>5. \A n \in Nat : n >= nextBatch /\ n < hi /\ n % Ranks = r => n \in Range(f)
    BY ONLY <2>1, ForRankIs
  <2>6. QED
    BY <2>2, <2>3, <2>4, <2>5
<1>4. \A n \in Range(f) : n \in Nat /\ n >= nextBatch /\ n < hi /\ n % Ranks = r
  BY <1>3, InRange
<1>5. \A n \in Range(f) : n \in Batches /\ n # End
  BY <1>2, <1>4
<1>6. f \in Seq(Line) /\ f \in Seq(Int)
  <2>1. \A i \in DOMAIN f : f[i] \in Range(f)
    BY <1>3, InRange
  <2>2. \A i \in DOMAIN f : f[i] \in Line /\ f[i] \in Int
    BY <1>4, <1>5, <2>1 DEF Line
  <2>3. QED
    BY <1>3, <2>2, SequenceInto
<1>7. t = s \o f /\ t \in Seq(Line) /\ Range(t) = Range(s) \cup Range(f)
  <2>1. t = s \o f
    OBVIOUS
  <2>2. QED
    BY <1>2, <1>6, <2>1, ConcatIs
<1>8. End \notin Range(s) /\ End \notin Range(f) /\ End \notin Range(wire[r])
  <2>1. End \notin Range(s)
    BY <1>1 DEF EndStays
  <2>2. Range(<<End>>) = {End}
    BY DEF Range
  <2>3. QED
    BY <1>1, <1>5, <2>1, <2>2 DEF EndStays
<1>9. BatchesIn(t) = BatchesIn(s) \cup Range(f) /\ BatchesIn(s) = Range(s)
  BY <1>7, <1>8 DEF BatchesIn
<1>10. /\ Held(r)' = Held(r) /\ NextOf(r)' = NextOf(r) /\ Expected(r)' = Expected(r)
  BY DEF Held, NextOf, Expected, Ahead
<1>11. Connected(r)' /\ OneAnswer(r)'
  BY <1>1 DEF Connected, OneAnswer
<1>12. InLine(r)'
  <2> DEFINE Before == Range(delivered[r]) \cup Held(r) \cup BatchesIn(wire[r]) \cup BatchesIn(outbox[r])
  <2>1. \A n \in Before : n % Ranks = r /\ n < nextBatch
    BY <1>1 DEF InLine
  <2>2. Before \subseteq Int
    <3>1. /\ delivered[r] \in Seq(Int) /\ wire[r] \in Seq(Int)
          /\ current[r] \in Batches \cup {None} /\ Batches \subseteq Int
      BY <1>1, Typed, Numbers
    <3>2. QED
      BY <1>2, <3>1, InRange DEF BatchesIn, Held
  <2>3. \A n \in Before, m \in Range(f) : n < m
    BY <1>2, <1>4, <2>1, <2>2
  <2>4. \A n \in Before \cup Range(f) : n % Ranks = r /\ n < hi
    BY <1>2, <1>4, <2>1, <2>2
  <2>5. Increasing(t)
    <3>1. Increasing(s)
      BY <1>1 DEF InLine
    <3>2. \A y \in Range(s), z \in Range(f) : y < z
      BY <1>9, <2>3
    <3>3. Increasing(s \o f)
      BY <1>2, <1>3, <1>6, <1>8, <3>1, <3>2, JoinLine
    <3>4. QED
      BY <1>7, <3>3
  <2>6. /\ Below(Range(delivered[r]), Held(r) \cup BatchesIn(wire[r]) \cup BatchesIn(t))
        /\ Below(Held(r), BatchesIn(wire[r]) \cup BatchesIn(t))
        /\ Below(BatchesIn(wire[r]), BatchesIn(t))
    BY <1>1, <1>9, <2>3 DEF InLine, Below
  <2>7. \A n \in Range(delivered[r]) \cup Held(r) \cup BatchesIn(wire[r]) \cup BatchesIn(t) :
          n % Ranks = r /\ n < hi
    BY <1>9, <2>4
  <2>8. Increasing(delivered[r]) /\ Increasing(wire[r])
    BY <1>1 DEF InLine
  <2>9. QED
    BY <1>10, <2>5, <2>6, <2>7, <2>8 DEF InLine
<1>13. EndStays(r)'
  <2>1. \A i \in DOMAIN t : t[i] # End
    BY <1>7, <1>8 DEF Range
  <2>2. QED
    BY <1>7, <1>8, <2>1 DEF EndStays
<1>14. NothingMissing(r)'
  <2>1. SUFFICES ASSUME interrupts = 0
                 PROVE  NothingMissing(r)'
    BY DEF NothingMissing
  <2>2. ASSUME NEW n \in Batches, n % Ranks = r, Expected(r) <= n, n < hi
        PROVE  n \in Range(t)
    <3>1. n \in Nat
      BY <1>2
    <3>2. CASE n < nextBatch
      BY <1>1, <1>7, <2>1, <2>2, <3>2 DEF NothingMissing
    <3>3. CASE ~(n < nextBatch)
      BY <1>2, <1>3, <1>7, <2>2, <3>1, <3>3
    <3>4. QED
      BY <3>2, <3>3
  <2>3. QED
    BY <1>1, <1>10, <2>1, <2>2 DEF NothingMissing
<1>15. QED
  BY <1>7, <1>11, <1>12, <1>13, <1>14 DEF RankRight

LEMMA ReceiveSamplesStep ==
  ASSUME IInv, NEW w \in Worker, ReceiveSamples(w)
  PROVE  IInv' /\ InFlight \subseteq InFlight'
<1> PICK m, n : m = Head(queue[w]) /\ n = m.batch
  OBVIOUS
<1> PICK arrived : arrived = assembling[n] \cup m.samples
  OBVIOUS
<1> PICK complete : complete = IF arrived = Indices(n) THEN finished \cup {n} ELSE finished
  OBVIOUS
<1> PICK upTo : upTo = ReleasedUpTo(complete)
  OBVIOUS
<1>1. /\ queue[w] # <<>> /\ m # EndMessage
      /\ queue' = [queue EXCEPT ![w] = Tail(@)]
      /\ assembling' = [assembling EXCEPT ![n] = IF n \in complete THEN {} ELSE arrived]
      /\ finished' = {k \in complete : k >= upTo}
      /\ nextBatch' = upTo
      /\ outbox' = [r \in Rank |-> outbox[r] \o ForRank(r, nextBatch, upTo)]
      /\ UNCHANGED <<window, nextWorker, endCount, sockets, reading, counts>>
  BY DEF ReceiveSamples
<1>2. TypeOK /\ EndRight /\ SamplesRight /\ SentOnce
  BY DEF IInv
<1> PICK s, t : s = queue[w] /\ t = Tail(s)
  OBVIOUS
<1>3. /\ s \in Seq(Message) /\ DOMAIN s = 1 .. Len(s) /\ Len(s) \in Nat \ {0} /\ s[1] = m
      /\ t \in Seq(Message) /\ Len(t) = Len(s) - 1 /\ DOMAIN t = 1 .. Len(s) - 1
      /\ \A i \in 1 .. Len(s) - 1 : t[i] = s[i + 1]
      /\ m \in Message
  <2>1. s \in Seq(Message)
    BY <1>2, QueueTyped
  <2>2. QED
    BY <1>1, <2>1, TailIs
<1>4. n \in Batches /\ n \in Nat /\ n # End /\ m.samples \subseteq Indices(n)
  <2>1. 1 \in DOMAIN queue[w] /\ queue[w][1] = m
    BY <1>3
  <2>2. n # End
    BY <1>1, <1>2, <2>1 DEF EndRight
  <2>3. n \in Batches
    BY <1>3, <2>2, MessageIs
  <2>4. m.samples \subseteq Indices(n)
    BY <1>2, <2>1, <2>2 DEF SamplesRight
  <2>5. QED
    BY <2>2, <2>3, <2>4, Numbers
<1>5. /\ queue'[w] = t /\ \A v \in Worker \ {w} : queue'[v] = queue[v]
      /\ assembling'[n] = IF n \in complete THEN {} ELSE arrived
      /\ \A k \in Batches \ {n} : assembling'[k] = assembling[k]
  BY <1>1, <1>2, <1>4 DEF TypeOK
<1>6. /\ phase' = phase /\ emitted' = emitted /\ endCount' = endCount /\ interrupts' = interrupts
  BY <1>1 DEF window, counts
<1>7. complete \subseteq Batches /\ finished \subseteq complete
  BY <1>2, <1>4 DEF TypeOK
<1>8. /\ upTo \in nextBatch .. EndAt /\ upTo \notin complete
      /\ nextBatch .. upTo - 1 \subseteq complete
      /\ nextBatch \in Start .. EndAt /\ upTo \in Nat /\ nextBatch \in Nat /\ nextBatch <= upTo
      /\ upTo \in Start .. EndAt
  <2>1. nextBatch \in Start .. EndAt
    BY <1>2 DEF TypeOK
  <2>2. /\ upTo \in nextBatch .. EndAt /\ upTo \notin complete
        /\ nextBatch .. upTo - 1 \subseteq complete
    BY <1>7, <2>1, ReleasedIs
  <2>3. upTo \in Nat /\ nextBatch \in Nat /\ nextBatch <= upTo /\ upTo \in Start .. EndAt
    <3>1. Start \in Nat /\ EndAt \in Nat
      BY Numbers
    <3>2. QED
      BY ONLY <2>1, <2>2, <3>1
  <2>4. QED
    BY <2>1, <2>2, <2>3
<1>9. endCount # Workers
  BY <1>1, <1>2, NotAllOver
(* Messages of the other workers, and those behind the first, are as before*)
<1>10. \A v \in Worker : \A i \in DOMAIN queue'[v] :
          \/ v # w /\ i \in DOMAIN queue[v] /\ queue'[v][i] = queue[v][i] /\ queue'[v] = queue[v]
          \/ v = w /\ i + 1 \in DOMAIN queue[v] /\ queue'[v][i] = queue[v][i + 1]
  <2>1. \A i \in DOMAIN t : i + 1 \in DOMAIN s /\ t[i] = s[i + 1]
    BY ONLY <1>3
  <2>2. QED
    BY <1>5, <2>1
<1>11. EndRight'
  <2>1. ASSUME NEW v \in Worker, NEW i \in DOMAIN queue'[v], queue'[v][i].batch = End
        PROVE  queue'[v][i] = EndMessage /\ i = Len(queue'[v]) /\ phase' = "ended"
    <3>1. CASE v # w
      BY <1>2, <1>5, <1>6, <2>1, <3>1 DEF EndRight
    <3>2. CASE v = w
      <4>1. i \in DOMAIN t /\ i + 1 \in DOMAIN s /\ t[i] = s[i + 1] /\ s[i + 1].batch = End
        BY <1>5, <1>10, <2>1, <3>2
      <4>2. s[i + 1] = EndMessage /\ i + 1 = Len(s) /\ phase = "ended"
        BY <1>2, <4>1 DEF EndRight
      <4>3. i = Len(t)
        BY <1>3, <4>1, <4>2
      <4>4. QED
        BY <1>5, <1>6, <3>2, <4>1, <4>2, <4>3
    <3>3. QED
      BY <3>1, <3>2
  <2>2. phase = "ended" => t # <<>> /\ t[Len(t)].batch = End
    <3>1. SUFFICES ASSUME phase = "ended"
                   PROVE  t # <<>> /\ t[Len(t)].batch = End
      OBVIOUS
    <3>2. s[Len(s)].batch = End
      BY <1>1, <1>2, <3>1 DEF EndRight
    <3>3. Len(s) # 1
      BY <1>3, <1>4, <3>2
    <3>4. Len(t) \in 1 .. Len(s) - 1 /\ t[Len(t)] = s[Len(s)]
      <4>1. Len(t) \in 1 .. Len(s) - 1 /\ Len(t) + 1 = Len(s)
        BY ONLY <1>3, <3>3
      <4>2. QED
        BY <1>3, <4>1
    <3>5. t # <<>>
      BY ONLY <1>3, <3>4
    <3>6. QED
      BY <3>2, <3>4, <3>5
  <2>3. Over' = Over
    BY <1>1, <1>5, <1>6, <2>2 DEF Over
  <2>4. phase = "ended" => \A v \in Worker : queue'[v] # <<>> => queue'[v][Len(queue'[v])].batch = End
    BY <1>2, <1>5, <2>2 DEF EndRight
  <2>5. QED
    BY <1>2, <1>6, <1>9, <2>1, <2>3, <2>4 DEF EndRight
<1>12. SamplesRight'
  <2>1. ASSUME NEW v \in Worker, NEW i \in DOMAIN queue'[v], queue'[v][i].batch # End
        PROVE  queue'[v][i].samples \subseteq Indices(queue'[v][i].batch)
    BY <1>2, <1>10, <2>1 DEF SamplesRight
  <2>2. \A k \in Batches : assembling'[k] \subseteq Indices(k) /\ assembling'[k] # Indices(k)
    <3> SUFFICES ASSUME NEW k \in Batches
                 PROVE  assembling'[k] \subseteq Indices(k) /\ assembling'[k] # Indices(k)
      OBVIOUS
    <3>1. CASE k # n
      BY <1>2, <1>5, <3>1 DEF SamplesRight
    <3>2. CASE k = n /\ n \in complete
      BY <1>4, <1>5, <3>2, Numbers
    <3>3. CASE k = n /\ n \notin complete
      <4>1. arrived # Indices(n)
        BY <3>3
      <4>2. arrived \subseteq Indices(n)
        BY <1>2, <1>4 DEF SamplesRight
      <4>3. QED
        BY <1>5, <3>3, <4>1, <4>2
    <3>4. QED
      BY <3>1, <3>2, <3>3
  <2>3. nextBatch' \notin finished'
    BY <1>1, <1>8
  <2>4. ASSUME NEW k \in Batches, upTo <= k, k < Start + emitted, k \notin finished',
               NEW i \in Indices(k)
        PROVE  i \in assembling'[k] \/ OnItsWay(k, i)'
    <3>1. k \notin complete /\ k \notin finished /\ nextBatch <= k
      <4>1. k \in Nat
        BY Numbers
      <4>2. k >= upTo /\ nextBatch <= k
        BY ONLY <1>8, <2>4, <4>1
      <4>3. k \notin complete
        BY <1>1, <2>4, <4>2
      <4>4. QED
        BY <1>7, <4>2, <4>3
    <3>2. i \in assembling[k] \/ OnItsWay(k, i)
      BY <1>2, <2>4, <3>1 DEF SamplesRight
    <3>3. CASE i \in assembling[k]
      BY <1>5, <3>1, <3>3
    <3>4. CASE OnItsWay(k, i)
      <4>1. PICK v \in Worker : \E j \in DOMAIN queue[v] : queue[v][j].batch = k /\ i \in queue[v][j].samples
        BY <3>4 DEF OnItsWay
      <4>2. PICK j \in DOMAIN queue[v] : queue[v][j].batch = k /\ i \in queue[v][j].samples
        BY <4>1
      <4>3. CASE v # w
        BY <1>5, <4>2, <4>3 DEF OnItsWay
      <4>4. CASE v = w /\ j = 1
        <5>1. k = n /\ i \in arrived
          BY <1>3, <4>2, <4>4
        <5>2. QED
          BY <1>5, <3>1, <5>1
      <4>5. CASE v = w /\ j # 1
        <5>1. j \in 1 .. Len(s) /\ s[j].batch = k /\ i \in s[j].samples
          BY <1>3, <4>2, <4>5
        <5>2. j - 1 \in 1 .. Len(s) - 1 /\ (j - 1) + 1 = j
          BY <1>3, <4>5, <5>1
        <5>3. j - 1 \in DOMAIN t /\ t[j - 1] = s[j]
          BY <1>3, <5>2
        <5>4. j - 1 \in DOMAIN queue'[v] /\ queue'[v][j - 1].batch = k /\ i \in queue'[v][j - 1].samples
          BY <1>5, <4>5, <5>1, <5>3
        <5>5. QED
          BY <5>4 DEF OnItsWay
      <4>6. QED
        BY <4>3, <4>4, <4>5
    <3>5. QED
      BY <3>2, <3>3, <3>4
  <2>5. QED
    BY <1>1, <1>6, <2>1, <2>2, <2>3, <2>4 DEF SamplesRight
<1>13. \A r \in Rank : RankRight(r)' /\ outbox'[r] \in Seq(Line)
  <2> TAKE r \in Rank
  <2>1. outbox'[r] = outbox[r] \o ForRank(r, nextBatch, upTo)
    BY <1>1
  <2>2. /\ UNCHANGED <<endCount, conn, asks, wire, wanted, reader, current, progress, delivered, interrupts>>
        /\ nextBatch' = upTo
    BY <1>1 DEF sockets, reading, counts
  <2>3. QED
    BY <1>8, <1>9, <2>1, <2>2, ReleaseToRank
<1>14. TypeOK'
  <2>1. Window!TypeOK'
    BY <1>1, <1>2 DEF TypeOK, Window!TypeOK, window
  <2>2. queue' \in [Worker -> Seq(Message)]
    BY <1>1, <1>2, <1>3 DEF TypeOK
  <2>3. outbox' \in [Rank -> Seq(Batches \cup {End})]
    BY <1>1, <1>13 DEF Line
  <2>4. assembling' \in [Batches -> SUBSET Nat]
    <3>1. arrived \in SUBSET Nat
      BY <1>2, <1>4, Numbers DEF TypeOK
    <3>2. QED
      BY <1>1, <1>2, <1>4, <3>1 DEF TypeOK
  <2>5. finished' \subseteq Batches /\ nextBatch' \in Start .. EndAt
    BY <1>1, <1>7, <1>8
  <2>6. QED
    BY <1>1, <1>2, <2>1, <2>2, <2>3, <2>4, <2>5 DEF TypeOK, sockets, reading, counts
<1>15. SentOnce'
  <2>1. m.samples # {} /\ nextBatch <= n /\ n \in Sent /\ n \notin finished
    <3>1. 1 \in DOMAIN queue[w] /\ queue[w][1] = m
      BY <1>3
    <3>2. QED
      BY <1>2, <1>4, <3>1 DEF SentOnce, OnTime
  <2>0. /\ Start \in Nat /\ emitted \in Nat /\ Sent' = Sent /\ Sent = Start .. Start + emitted - 1
        /\ \A k \in complete : k \in Sent
        /\ finished' \subseteq complete
    <3>1. Start \in Nat /\ emitted \in Nat
      BY <1>2, Numbers DEF TypeOK, Window!TypeOK
    <3>2. finished \subseteq nextBatch .. Start + emitted - 1
      BY <1>2 DEF SentOnce
    <3>3. \A k \in finished : k \in Start .. Start + emitted - 1
      BY ONLY <1>8, <3>1, <3>2
    <3>4. Sent' = Sent /\ Sent = Start .. Start + emitted - 1
      BY <1>6 DEF Sent
    <3>5. \A k \in complete : k \in Sent
      BY <2>1, <3>3, <3>4
    <3>6. QED
      BY <1>1, <3>1, <3>4, <3>5
  (* A message that is left is not for a batch that is complete now.       *)
  <2>2. ASSUME NEW v \in Worker, NEW i \in DOMAIN queue'[v], queue'[v][i].batch # End
        PROVE  OnTime(v, i)'
    <3> PICK x : x = queue'[v][i]
      OBVIOUS
    <3>1. PICK j \in DOMAIN queue[v] : queue[v][j] = x /\ (v # w \/ j # 1)
      <4>1. CASE v # w
        BY <1>10, <4>1
      <4>2. CASE v = w
        <5>1. i + 1 \in DOMAIN queue[v] /\ queue'[v][i] = queue[v][i + 1] /\ i \in DOMAIN t
          BY <1>5, <1>10, <4>2
        <5>2. i + 1 # 1
          BY <1>3, <5>1
        <5>3. QED
          BY <5>1, <5>2
      <4>3. QED
        BY <4>1, <4>2
    <3>2. OnTime(v, j) /\ x.samples \subseteq Indices(x.batch) /\ x.batch \in Batches
      <4>1. OnTime(v, j) /\ x.samples \subseteq Indices(x.batch)
        BY <1>2, <2>2, <3>1 DEF SentOnce, SamplesRight
      <4>2. x \in Message
        BY <1>2, <3>1, QueueTyped
      <4>3. QED
        BY <2>2, <4>1, <4>2, MessageIs
    <3>3. x.batch = n => x.samples \cap arrived = {}
      <4>1. SUFFICES ASSUME x.batch = n
                     PROVE  x.samples \cap arrived = {}
        OBVIOUS
      <4>2. 1 \in DOMAIN queue[w] /\ queue[w][1] = m
        BY <1>3
      <4>3. x.samples \cap m.samples = {}
        BY <1>2, <1>4, <3>1, <4>1, <4>2 DEF SentOnce
      <4>4. x.samples \cap assembling[n] = {}
        BY <3>1, <3>2, <4>1 DEF OnTime
      <4>5. QED
        BY <4>3, <4>4
    <3>4. x.batch \notin complete
      BY <3>1, <3>2, <3>3 DEF OnTime
    <3>5. upTo <= x.batch
      <4>1. x.batch \in Nat /\ nextBatch <= x.batch
        BY <3>1, <3>2, Numbers DEF OnTime
      <4>2. x.batch \notin nextBatch .. upTo - 1
        BY <1>8, <3>4
      <4>3. QED
        BY ONLY <1>8, <4>1, <4>2
    <3>6. x.samples \cap assembling'[x.batch] = {}
      BY <1>5, <3>1, <3>2, <3>3 DEF OnTime
    <3>7. QED
      <4>1. /\ x.samples # {} /\ x.batch \in Sent' /\ x.batch \notin finished'
            /\ nextBatch' <= x.batch
        BY <1>1, <2>0, <3>1, <3>2, <3>4, <3>5 DEF OnTime
      <4>2. QED
        BY <3>6, <4>1 DEF OnTime
  <2>3. ASSUME NEW u \in Worker, NEW v \in Worker, NEW i \in DOMAIN queue'[u],
               NEW j \in DOMAIN queue'[v],
               u # v \/ i # j, queue'[u][i].batch # End, queue'[u][i].batch = queue'[v][j].batch
        PROVE  queue'[u][i].samples \cap queue'[v][j].samples = {}
    <3>1. \A x \in Worker : \A k \in DOMAIN queue'[x] :
            LET l == IF x = w THEN k + 1 ELSE k IN l \in DOMAIN queue[x] /\ queue'[x][k] = queue[x][l]
      BY <1>10
    <3> PICK a, b : a = (IF u = w THEN i + 1 ELSE i) /\ b = (IF v = w THEN j + 1 ELSE j)
      OBVIOUS
    <3>2. /\ a \in DOMAIN queue[u] /\ queue'[u][i] = queue[u][a]
          /\ b \in DOMAIN queue[v] /\ queue'[v][j] = queue[v][b]
      BY <3>1
    <3>3. u # v \/ a # b
      <4>1. u = w => i \in DOMAIN t
        BY <1>5
      <4>2. v = w => j \in DOMAIN t
        BY <1>5
      <4>3. QED
        BY <1>3, <2>3, <4>1, <4>2
    <3>4. QED
      BY <1>2, <2>3, <3>2, <3>3 DEF SentOnce
  <2>4. upTo <= Start + emitted
    <3>1. \A k \in complete : k \in Sent
      BY <2>0
    <3>2. CASE upTo = nextBatch
      BY <1>2, <3>2 DEF SentOnce
    <3>3. CASE upTo # nextBatch
      <4>1. upTo - 1 \in nextBatch .. upTo - 1
        BY ONLY <1>8, <3>3
      <4>2. upTo - 1 \in Sent
        BY <1>8, <3>1, <4>1
      <4>3. QED
        BY ONLY <1>8, <2>0, <4>2
    <3>4. QED
      BY <3>2, <3>3
  <2>5. finished' \subseteq upTo .. Start + emitted - 1
    <3>1. \A k \in finished' : k \in Sent /\ k >= upTo
      BY <1>1, <2>0
    <3>2. QED
      BY ONLY <1>8, <2>0, <3>1
  <2>6. \A k \in Batches : assembling'[k] # {} => k \in Sent
    BY <1>2, <1>5, <2>1 DEF SentOnce
  <2>7. /\ nextBatch' <= Start + emitted'
        /\ finished' \subseteq nextBatch' .. Start + emitted' - 1
        /\ \A k \in Batches : assembling'[k] # {} => k \in Sent'
    BY <1>1, <1>6, <2>0, <2>4, <2>5, <2>6
  <2>8. QED
    BY <2>2, <2>3, <2>7 DEF SentOnce
<1>16. InFlight \subseteq InFlight'
  <2>1. ASSUME NEW k \in complete, nextBatch <= k
        PROVE  k \in InFlight'
    <3>1. k \in Batches /\ k \in Nat
      BY <1>7, Numbers
    <3>2. CASE k >= upTo
      BY <1>1, <3>1, <3>2, InFlightIs
    <3>3. CASE ~(k >= upTo)
      <4> PICK r \in Rank : r = k % Ranks
        BY <3>1, NextOfRank
      <4>1. k \in nextBatch .. upTo - 1 /\ k % Ranks = r
        BY ONLY <1>8, <2>1, <3>1, <3>3, r = k % Ranks
      <4>2. outbox'[r] = outbox[r] \o ForRank(r, nextBatch, upTo) /\ outbox[r] \in Seq(Line)
        BY <1>1, <1>2, Typed
      <4>3. k \in Range(outbox'[r])
        BY <1>8, <4>1, <4>2, Released
      <4>4. k \in AtRank(r)'
        BY <4>3 DEF AtRank
      <4>5. QED
        BY <3>1, <4>4, InFlightIs
    <3>4. QED
      BY <3>2, <3>3
  <2>2. m.samples # {} /\ nextBatch <= n
    <3>1. 1 \in DOMAIN queue[w] /\ queue[w][1] = m
      BY <1>3
    <3>2. QED
      BY <1>2, <1>4, <3>1 DEF SentOnce, OnTime
  <2>3. n \in InFlight'
    <3>1. CASE n \in complete
      BY <2>1, <2>2, <3>1
    <3>2. CASE n \notin complete
      <4>1. assembling'[n] # {}
        BY <1>5, <2>2, <3>2
      <4>2. QED
        BY <1>4, <4>1, InFlightIs
    <3>3. QED
      BY <3>1, <3>2
  <2>4. ASSUME NEW k \in InFlight, k # n
        PROVE  k \in InFlight'
    <3>1. k \in Batches
      BY InFlightIs
    <3>2. CASE Queued(k)
      <4>1. PICK v \in Worker : \E j \in DOMAIN queue[v] : queue[v][j].batch = k
        BY <3>2 DEF Queued
      <4>2. PICK j \in DOMAIN queue[v] : queue[v][j].batch = k
        BY <4>1
      <4>3. CASE v # w
        BY <1>5, <3>1, <4>2, <4>3, InFlightIs DEF Queued
      <4>4. CASE v = w
        <5>1. j # 1
          BY <1>3, <2>4, <4>2, <4>4
        <5>2. j - 1 \in 1 .. Len(s) - 1 /\ (j - 1) + 1 = j
          BY <1>3, <4>4, <5>1
        <5>3. j - 1 \in DOMAIN t /\ t[j - 1] = s[j]
          BY <1>3, <5>2
        <5>4. j - 1 \in DOMAIN queue'[w] /\ queue'[w][j - 1].batch = k
          BY <1>5, <4>2, <4>4, <5>3
        <5>5. Queued(k)'
          BY <5>4 DEF Queued
        <5>6. QED
          BY <3>1, <5>5, InFlightIs
      <4>5. QED
        BY <4>3, <4>4
    <3>3. CASE assembling[k] # {}
      BY <1>5, <2>4, <3>1, <3>3, InFlightIs
    <3>4. CASE k \in finished
      <4>1. nextBatch <= k
        <5>1. k \in nextBatch .. Start + emitted - 1 /\ k \in Nat
          BY <1>2, <3>1, <3>4, Numbers DEF SentOnce
        <5>2. QED
          BY ONLY <1>8, <5>1
      <4>2. QED
        BY <1>7, <2>1, <3>4, <4>1
    <3>5. CASE \E r \in Rank : k \in AtRank(r)
      <4>1. PICK r \in Rank : k \in AtRank(r)
        BY <3>5
      <4>2. /\ outbox'[r] = outbox[r] \o ForRank(r, nextBatch, upTo) /\ outbox[r] \in Seq(Line)
            /\ UNCHANGED <<wire, current>>
        BY <1>1, <1>2, Typed DEF sockets, reading
      <4>3. Range(outbox[r]) \subseteq Range(outbox'[r])
        BY <1>8, <4>2, Released
      <4>4. k \in AtRank(r)'
        BY <4>1, <4>2, <4>3 DEF AtRank
      <4>5. QED
        BY <3>1, <4>4, InFlightIs
    <3>6. QED
      BY <3>2, <3>3, <3>4, <3>5, InFlightIs
  <2>5. QED
    BY <2>3, <2>4
<1>17. QED
  BY <1>11, <1>12, <1>13, <1>14, <1>15, <1>16 DEF IInv

(***************************************************************************)
(* The invariant holds                                                     *)
(***************************************************************************)
LEMMA InitRight == Init => IInv
<1> SUFFICES ASSUME Init PROVE IInv
  OBVIOUS
<1>1. TypeOK
  BY InitTyped
<1>2. phase = "open" /\ emitted = 0 /\ nextBatch = Start /\ interrupts = 0 /\ endCount = 0
  BY DEF Init, Window!Init
<1>3. \A i : i \notin DOMAIN <<>>
  OBVIOUS
<1>4. \A w \in Worker : queue[w] = <<>>
  BY DEF Init
<1>5. EndRight
  <2>1. Over = {} /\ Cardinality({}) = 0
    BY <1>2, FS_EmptySet DEF Over
  <2>2. 0 <= EndAt - Start /\ 0 # Workers
    BY Numbers
  <2>3. QED
    BY <1>2, <1>3, <1>4, <2>1, <2>2 DEF EndRight
<1>6. SamplesRight
  <2>1. \A n \in Batches : assembling[n] = {}
    BY DEF Init
  <2>2. \A n \in Batches : ~(n < Start + emitted)
    BY <1>2, Numbers
  <2>3. nextBatch \notin finished
    BY DEF Init
  <2>4. QED
    BY <1>3, <1>4, <2>1, <2>2, <2>3, Numbers DEF SamplesRight
<1>7. ASSUME NEW r \in Rank
      PROVE  RankRight(r)
  <2>1. /\ outbox[r] = <<>> /\ wire[r] = <<>> /\ delivered[r] = <<>> /\ wanted = {}
        /\ conn[r] = "none" /\ asks[r] = 0 /\ reader[r] = "closed" /\ current[r] = None
        /\ progress[r] = FirstOf(r)
    BY DEF Init
  <2>2. Connected(r) /\ OneAnswer(r)
    BY <2>1 DEF Connected, OneAnswer
  <2>3. Held(r) = {}
    BY <2>1 DEF Held
  <2>4. InLine(r)
    BY <2>1, <2>3, EmptyLine DEF InLine, Below
  <2>5. EndStays(r)
    <3>1. endCount # Workers
      BY <1>2, Numbers
    <3>2. QED
      BY <1>3, <2>1, <3>1, EmptyLine DEF EndStays
  <2>6. NothingMissing(r)
    <3>1. NextOf(r) = progress[r] /\ Expected(r) = progress[r]
      BY <2>1, EmptyLine DEF NextOf, Expected, Ahead
    <3>2. /\ progress[r] % Ranks = r /\ progress[r] >= Start /\ progress[r] \in Nat
          /\ \A n \in Nat : (n % Ranks = r /\ n >= Start) => n >= progress[r]
      BY <2>1, FirstIs
    <3>3. \A n \in Batches : n \in Nat /\ n >= Start
      BY Numbers
    <3>4. \A n \in Batches : n % Ranks = r => ~(n < progress[r])
      BY <3>2, <3>3
    <3>5. \A n \in Batches : ~(n < nextBatch)
      BY <1>2, <3>3, Numbers
    <3>6. QED
      BY <2>1, <3>1, <3>2, <3>4, <3>5, EmptyLine DEF NothingMissing
  <2>7. QED
    BY <2>2, <2>4, <2>5, <2>6 DEF RankRight
<1>8. SentOnce
  <2>1. \A n \in Batches : assembling[n] = {}
    BY DEF Init
  <2>2. finished = {} /\ nextBatch <= Start + emitted
    BY <1>2, Numbers DEF Init
  <2>3. QED
    BY <1>3, <1>4, <2>1, <2>2 DEF SentOnce
<1>9. QED
  BY <1>1, <1>5, <1>6, <1>7, <1>8 DEF IInv

(* Nothing changes when every loop is over, and in a stuttering step.      *)
LEMMA SameStep ==
  ASSUME IInv, UNCHANGED vars
  PROVE  IInv'
<1>1. /\ UNCHANGED <<window, nextWorker, queue, collating, outbox, sockets, reading, counts>>
      /\ TypeOK /\ EndRight /\ SamplesRight /\ SentOnce
  BY DEF IInv, vars
<1>2. TypeOK'
  <2>1. Window!TypeOK'
    BY <1>1 DEF TypeOK, Window!TypeOK, window
  <2>2. QED
    BY <1>1, <2>1 DEF TypeOK, collating, sockets, reading, counts
<1>3. EndRight' /\ SamplesRight' /\ SentOnce'
  BY <1>1, KeepWorkers DEF SameWorkers, window, collating
<1>4. \A q \in Rank : RankRight(q)'
  BY <1>1, KeepRanks DEF collating
<1>5. QED
  BY <1>2, <1>3, <1>4 DEF IInv

LEMMA StepRight == IInv /\ [Next]_vars => IInv'
<1> SUFFICES ASSUME IInv, [Next]_vars
             PROVE  IInv'
  OBVIOUS
<1>1. CASE RequestBatch
  BY <1>1, RequestBatchStep
<1>2. CASE DistributeBatch
  BY <1>2, DistributeBatchStep
<1>3. CASE DistributeEnd
  BY <1>3, DistributeEndStep
<1>4. ASSUME NEW w \in Worker, ReceiveEnd(w)
      PROVE  IInv'
  BY <1>4, ReceiveEndStep
<1>5. ASSUME NEW w \in Worker, ReceiveSamples(w)
      PROVE  IInv'
  BY <1>5, ReceiveSamplesStep
<1>6. ASSUME NEW r \in Rank, Connect(r) \/ HearNext(r) \/ HearClose(r) \/ Serve(r)
      PROVE  IInv'
  BY <1>6, ConnectStep, HearNextStep, HearCloseStep, ServeStep
<1>7. ASSUME NEW r \in Rank, Reader(r)
      PROVE  IInv'
  BY <1>7, OpenStep, AskNextStep, TakeBatchStep, WriteProgressStep, ReturnBatchStep, TakeEndStep
     DEF Reader
<1>8. ASSUME NEW r \in Rank, CloseEarly(r) \/ Interrupt(r)
      PROVE  IInv'
  BY <1>8, CloseEarlyStep, InterruptStep
<1>9. CASE Terminated \/ UNCHANGED vars
  BY <1>9, SameStep DEF Terminated
<1>10. QED
  BY <1>1, <1>2, <1>3, <1>4, <1>5, <1>6, <1>7, <1>8, <1>9 DEF Next, Daemon, Collator

(* The invariant: however the workers race, and whenever readers close,    *)
(* open and are interrupted.                                               *)
THEOREM Inductive == Spec => []IInv
BY InitRight, StepRight, PTL DEF Spec

(***************************************************************************)
(* What it means for the training code                                     *)
(***************************************************************************)
(* Every variable keeps its type.                                          *)
THEOREM TypeCorrect == Spec => []TypeOK
<1>1. IInv => TypeOK
  BY DEF IInv
<1>2. QED
  BY <1>1, Inductive, PTL

(* A request of a connected rank has one answer under way, so that a close *)
(* between two batches loses none.                                         *)
THEOREM OneAnswerHolds == Spec => []OneAnswerPerAsk
<1>1. IInv => OneAnswerPerAsk
  BY DEF IInv, RankRight, OneAnswer, OneAnswerPerAsk
<1>2. QED
  BY <1>1, Inductive, PTL

(* Whatever is closed or interrupted, a rank never receives a batch twice, *)
(* nor an earlier one after a later one, nor another rank's.               *)
THEOREM ReturnsAdvanceHolds == Spec => []ReturnsAdvance
<1>1. IInv => ReturnsAdvance
  <2> SUFFICES ASSUME IInv, NEW r \in Rank
               PROVE  /\ \A i \in DOMAIN delivered[r] : delivered[r][i] % Ranks = r
                      /\ \A i, j \in DOMAIN delivered[r] : i < j => delivered[r][i] < delivered[r][j]
    BY DEF ReturnsAdvance
  <2>1. InLine(r) /\ delivered[r] \in Seq(Batches)
    BY Typed DEF IInv, RankRight
  <2>2. \A i \in DOMAIN delivered[r] : delivered[r][i] \in Range(delivered[r]) /\ delivered[r][i] # End
    BY <2>1, InRange, Numbers
  <2>3. QED
    BY <2>1, <2>2 DEF InLine, Increasing
<1>2. QED
  BY <1>1, Inductive, PTL

(* The cursor of a checkpoint: every batch before it was returned, and it  *)
(* is itself the first that was not.                                       *)
THEOREM CursorHolds == Spec => []CursorIsFirstUnreturned
<1>1. IInv => CursorIsFirstUnreturned
  <2> SUFFICES ASSUME IInv, interrupts = 0, Synchronized
               PROVE  /\ \A n \in Batches : (\A c \in {progress[r] : r \in Rank} : n < c) => Returned(n)
                      /\ \A n \in Batches : IsCursor(n) => ~Returned(n)
    BY DEF CursorIsFirstUnreturned, CursorSkipsNothing
  <2>1. ASSUME NEW r \in Rank
        PROVE  /\ progress[r] \in Nat /\ progress[r] % Ranks = r /\ NextOf(r) = progress[r]
               /\ \A n \in Batches : n % Ranks = r => (n \in Range(delivered[r]) <=> n < progress[r])
               /\ \A n \in Range(delivered[r]) : n % Ranks = r
    <3>1. progress[r] \in Nat /\ NothingMissing(r) /\ InLine(r)
      BY Typed DEF IInv, RankRight
    <3>2. NextOf(r) = progress[r]
      BY DEF Synchronized, NextOf
    <3>3. QED
      BY <3>1, <3>2 DEF NothingMissing, InLine
  <2>2. ASSUME NEW n \in Batches, \A c \in {progress[r] : r \in Rank} : n < c
        PROVE  Returned(n)
    <3>1. n \in Nat
      BY Numbers
    <3> PICK r \in Rank : r = n % Ranks
      BY <3>1, NextOfRank
    <3>2. n < progress[r]
      BY <2>2
    <3>3. n \in Range(delivered[r])
      BY <2>1, <3>2
    <3>4. QED
      BY <3>3 DEF Returned
  <2>3. ASSUME NEW n \in Batches, IsCursor(n), Returned(n)
        PROVE  FALSE
    <3>1. PICK q \in Rank : progress[q] = n
      BY <2>3 DEF IsCursor
    <3>2. PICK r \in Rank : n \in Range(delivered[r])
      BY <2>3 DEF Returned
    <3>3. n % Ranks = q /\ n % Ranks = r /\ n \in Nat
      BY <2>1, <3>1, <3>2, Numbers
    <3>4. n < n
      BY <2>1, <3>1, <3>2, <3>3
    <3>5. QED
      BY <3>3, <3>4
  <2>4. QED
    BY <2>2, <2>3
<1>2. QED
  BY <1>1, Inductive, PTL

(***************************************************************************)
(* The stream it promises                                                  *)
(***************************************************************************)
LEMMA SameStream ==
  ASSUME \A q \in Rank : NextOf(q)' = NextOf(q), ended' = ended
  PROVE  UNCHANGED Stream!vars
<1>1. [q \in Rank |-> NextOf(q)]' = [q \in Rank |-> NextOf(q)]
  OBVIOUS
<1>2. QED
  BY <1>1 DEF Stream!vars

(* A batch that is returned is the next one of its rank.                   *)
LEMMA ReturnsNext ==
  ASSUME IInv, NEW r \in Rank, ReturnBatch(r)
  PROVE  Stream!Return(r)
<1>1. /\ reader[r] = "written" /\ reader' = [reader EXCEPT ![r] = "open"]
      /\ UNCHANGED <<progress, ended>> /\ \A q \in Rank \ {r} : current'[q] = current[q]
  BY DEF ReturnBatch, IInv, TypeOK
<1>2. /\ TypeOK /\ Connected(r)
  BY DEF IInv, RankRight
<1>3. /\ current[r] \in Batches /\ current[r] \in Nat /\ current[r] < EndAt
      /\ progress[r] = current[r] + Ranks
  <2>1. current[r] \in Batches /\ progress[r] = current[r] + Ranks
    BY <1>1, <1>2, Typed DEF Connected
  <2>2. QED
    BY <2>1, Numbers
<1>4. reader'[r] = "open" /\ \A q \in Rank \ {r} : reader'[q] = reader[q]
  BY <1>1, <1>2 DEF TypeOK
<1>5. NextOf(r) = current[r] /\ NextOf(r)' = current[r] + Ranks
  BY <1>1, <1>3, <1>4 DEF NextOf
<1>6. \A q \in Rank \ {r} : NextOf(q)' = NextOf(q)
  BY <1>1, <1>4 DEF NextOf
<1>7. [q \in Rank |-> NextOf(q)]' = [[q \in Rank |-> NextOf(q)] EXCEPT ![r] = @ + Ranks]
  BY <1>5, <1>6
<1>8. QED
  BY <1>1, <1>3, <1>5, <1>7 DEF Stream!Return

(* A loop ends when its next batch is past the end.                        *)
LEMMA EndsAfterLast ==
  ASSUME IInv, NEW r \in Rank, TakeEnd(r), interrupts = 0
  PROVE  Stream!End(r)
<1>1. /\ reader[r] = "waiting" /\ wire[r] # <<>> /\ Head(wire[r]) = End
      /\ reader' = [reader EXCEPT ![r] = "closed"]
      /\ ended' = ended \cup {r} /\ UNCHANGED <<progress, current>>
  BY DEF TakeEnd, Shut
<1>2. TypeOK /\ NothingMissing(r) /\ wire[r] \in Seq(Line) /\ progress[r] \in Nat
  BY Typed DEF IInv, RankRight
<1>3. End \in Range(wire[r])
  BY <1>1, <1>2, TailIs
<1>4. progress[r] >= EndAt
  <2>1. End = progress[r] \/ (End = End /\ progress[r] >= EndAt)
    BY <1>2, <1>3 DEF NothingMissing
  <2>2. QED
    BY <1>2, <2>1 DEF End
<1>5. NextOf(r) = progress[r]
  BY <1>1 DEF NextOf
<1>6. \A q \in Rank : NextOf(q)' = NextOf(q)
  BY <1>1, <1>2 DEF NextOf, TypeOK
<1>7. [q \in Rank |-> NextOf(q)]' = [q \in Rank |-> NextOf(q)]
  BY <1>6
<1>8. QED
  BY <1>1, <1>4, <1>5, <1>7 DEF Stream!End

(* Every other step leaves the streams of the ranks as they are.           *)
LEMMA StreamStep ==
  ASSUME IInv, [Next]_vars, interrupts' = 0
  PROVE  [Stream!Next]_Stream!vars
<1>1. TypeOK /\ interrupts \in Nat
  BY DeliveryAssumption DEF IInv, TypeOK
<1>2. CASE Daemon
  <2>1. UNCHANGED reading
    BY <1>2 DEF Daemon, RequestBatch, DistributeBatch, DistributeEnd
  <2>2. QED
    BY <2>1, SameStream DEF reading, NextOf
<1>3. CASE \E w \in Worker : ReceiveEnd(w) \/ ReceiveSamples(w)
  <2>1. UNCHANGED reading
    BY <1>3 DEF ReceiveEnd, ReceiveSamples
  <2>2. QED
    BY <2>1, SameStream DEF reading, NextOf
<1>4. ASSUME NEW r \in Rank, Connect(r) \/ Open(r) \/ AskNext(r) \/ TakeBatch(r) \/ CloseEarly(r)
      PROVE  UNCHANGED Stream!vars
  <2>1. /\ reader[r] \notin {"written"}
        /\ \E x \in {"listening", "open", "waiting", "took", "closed"} : reader' = [reader EXCEPT ![r] = x]
        /\ UNCHANGED <<progress, ended>> /\ \A q \in Rank \ {r} : current'[q] = current[q]
    BY <1>1, <1>4 DEF Connect, Open, AskNext, TakeBatch, CloseEarly, Shut, TypeOK
  <2>2. \A q \in Rank : NextOf(q)' = NextOf(q)
    BY <1>1, <2>1 DEF NextOf, TypeOK
  <2>3. QED
    BY <2>1, <2>2, SameStream
<1>5. ASSUME NEW r \in Rank, HearNext(r) \/ HearClose(r) \/ Serve(r)
      PROVE  UNCHANGED Stream!vars
  <2>1. UNCHANGED reading
    BY <1>5 DEF HearNext, HearClose, Serve
  <2>2. QED
    BY <2>1, SameStream DEF reading, NextOf
<1>6. ASSUME NEW r \in Rank, WriteProgress(r)
      PROVE  UNCHANGED Stream!vars
  <2>1. /\ reader[r] = "took" /\ reader' = [reader EXCEPT ![r] = "written"]
        /\ progress' = [progress EXCEPT ![r] = current[r] + Ranks]
        /\ UNCHANGED <<current, ended, interrupts>>
    BY <1>6 DEF WriteProgress, counts
  <2>2. current[r] = progress[r]
    BY <2>1 DEF IInv, RankRight, NothingMissing
  <2>3. \A q \in Rank : NextOf(q)' = NextOf(q)
    BY <1>1, <2>1, <2>2 DEF NextOf, TypeOK
  <2>4. QED
    BY <2>1, <2>3, SameStream
<1>7. ASSUME NEW r \in Rank, ReturnBatch(r)
      PROVE  Stream!Next
  BY <1>7, ReturnsNext DEF Stream!Next, Stream!Rank, Rank
<1>8. ASSUME NEW r \in Rank, TakeEnd(r)
      PROVE  Stream!Next
  <2>1. interrupts = 0
    BY <1>8 DEF TakeEnd, counts
  <2>2. QED
    BY <1>8, <2>1, EndsAfterLast DEF Stream!Next, Stream!Rank, Rank
<1>9. ASSUME NEW r \in Rank, Interrupt(r)
      PROVE  FALSE
  BY <1>1, <1>9 DEF Interrupt
<1>10. CASE Terminated \/ UNCHANGED vars
  <2>1. UNCHANGED reading
    BY <1>10 DEF Terminated, vars
  <2>2. QED
    BY <2>1, SameStream DEF reading, NextOf
<1>11. QED
  BY <1>2, <1>3, <1>4, <1>5, <1>6, <1>7, <1>8, <1>9, <1>10 DEF Next, Collator, Reader

(* Every rank gets its batches in order, without gap or repetition, and    *)
(* its loop ends only after the last, until an exception leaves __next__.  *)
THEOREM StreamImplemented == Spec => ImplementsStream
<1>1. Init => Stream!Init
  <2> SUFFICES ASSUME Init PROVE Stream!Init
    OBVIOUS
  <2>1. \A r \in Rank : NextOf(r) = FirstOf(r)
    BY DEF Init, NextOf
  <2>2. [r \in Rank |-> NextOf(r)] = [r \in Rank |-> FirstOf(r)]
    BY <2>1
  <2>3. ended = {}
    BY DEF Init
  <2>4. QED
    BY <2>2, <2>3 DEF Stream!Init, Stream!Rank, Stream!FirstOf, Rank, FirstOf
<1>2. IInv /\ [Next]_vars => [interrupts' = 0 => [Stream!Next]_Stream!vars]_vars
  BY StreamStep
<1>3. QED
  BY <1>1, <1>2, Inductive, PTL DEF Spec, ImplementsStream

(***************************************************************************)
(* No batch is lost but to an exception                                    *)
(***************************************************************************)
(* The requests of a rank, and answers to them, that nobody waits for: an  *)
(* exception left __next__ after it had asked.                             *)
Unasked(r) ==
  asks[r] + (IF r \in wanted THEN 1 ELSE 0) + Len(wire[r]) - (IF reader[r] = "waiting" THEN 1 ELSE 0)
SpareOf(r) == IF conn[r] = "open" THEN {<<r, i>> : i \in 1 .. Unasked(r)} ELSE {}
Spare == UNION {SpareOf(r) : r \in Rank}

(* The batches that were sent and are nowhere any more: returned, or lost. *)
Gone == Sent \ InFlight

LossRight ==
  /\ IsFiniteSet(Spare)
  /\ Cardinality(Gone) + Cardinality(Spare) <= returned + interrupts

(* What is gone and what is spare grow by less than what was returned and  *)
(* interrupted.                                                            *)
LEMMA LossGrows ==
  ASSUME TypeOK, TypeOK', LossRight, NEW A, NEW B, IsFiniteSet(A), IsFiniteSet(B),
         Gone' \subseteq Gone \cup A, Spare' \subseteq Spare \cup B,
         returned + interrupts + Cardinality(A) + Cardinality(B) <= returned' + interrupts'
  PROVE  LossRight'
<1>1. /\ returned \in Nat /\ interrupts \in Nat /\ returned' \in Nat /\ interrupts' \in Nat
      /\ emitted \in Nat /\ Start \in Nat
  BY Numbers, DeliveryAssumption DEF TypeOK, Window!TypeOK
<1>2. IsFiniteSet(Gone)
  <2>1. Start \in Int /\ Start + emitted - 1 \in Int
    BY <1>1
  <2>2. IsFiniteSet(Sent)
    BY <2>1, FS_Interval DEF Sent
  <2>3. QED
    BY <2>2, FS_Subset DEF Gone
<1>3. ASSUME NEW S, NEW T, NEW U, IsFiniteSet(S), IsFiniteSet(T), U \subseteq S \cup T
      PROVE  /\ IsFiniteSet(U) /\ Cardinality(U) \in Nat /\ Cardinality(S) \in Nat /\ Cardinality(T) \in Nat
             /\ Cardinality(U) <= Cardinality(S) + Cardinality(T)
  <2>1. /\ IsFiniteSet(S \cup T)
        /\ Cardinality(S \cup T) = Cardinality(S) + Cardinality(T) - Cardinality(S \cap T)
    BY <1>3, FS_Union
  <2>2. IsFiniteSet(U) /\ Cardinality(U) <= Cardinality(S \cup T)
    BY <1>3, <2>1, FS_Subset
  <2>3. IsFiniteSet(S \cap T)
    BY <1>3, FS_Subset
  <2>4. /\ Cardinality(U) \in Nat /\ Cardinality(S) \in Nat /\ Cardinality(T) \in Nat
        /\ Cardinality(S \cap T) \in Nat /\ Cardinality(S \cup T) \in Nat
    BY <1>3, <2>1, <2>2, <2>3, FS_CardinalityType
  <2>5. QED
    BY <2>1, <2>2, <2>4
<1>4. /\ Cardinality(Gone') \in Nat /\ Cardinality(Gone) \in Nat /\ Cardinality(A) \in Nat
      /\ Cardinality(Gone') <= Cardinality(Gone) + Cardinality(A)
  BY <1>2, <1>3
<1>5. IsFiniteSet(Spare) /\ Cardinality(Gone) + Cardinality(Spare) <= returned + interrupts
  BY DEF LossRight
<1>6. /\ IsFiniteSet(Spare') /\ Cardinality(Spare') \in Nat /\ Cardinality(Spare) \in Nat
      /\ Cardinality(B) \in Nat
      /\ Cardinality(Spare') <= Cardinality(Spare) + Cardinality(B)
  BY <1>3, <1>5
<1>7. Cardinality(Gone') + Cardinality(Spare') <= returned' + interrupts'
  BY <1>1, <1>4, <1>5, <1>6
<1>8. QED
  BY <1>6, <1>7 DEF LossRight

(* Most steps lose nothing.                                                *)
LEMMA LossStays ==
  ASSUME TypeOK, TypeOK', LossRight, Gone' \subseteq Gone, Spare' \subseteq Spare,
         returned' = returned, interrupts' = interrupts
  PROVE  LossRight'
<1>1. IsFiniteSet({}) /\ Cardinality({}) = 0
  BY FS_EmptySet
<1>2. returned \in Nat /\ interrupts \in Nat
  BY DeliveryAssumption DEF TypeOK, Window!TypeOK
<1>3. returned + interrupts + Cardinality({}) + Cardinality({}) <= returned' + interrupts'
  BY <1>1, <1>2
<1>4. QED
  BY <1>1, <1>3, LossGrows

LEMMA LossOne ==
  ASSUME TypeOK, TypeOK', LossRight, NEW x,
         \/ Gone' \subseteq Gone \cup {x} /\ Spare' \subseteq Spare
         \/ Gone' \subseteq Gone /\ Spare' \subseteq Spare \cup {x},
         returned' + interrupts' = returned + interrupts + 1
  PROVE  LossRight'
<1>1. IsFiniteSet({}) /\ Cardinality({}) = 0 /\ IsFiniteSet({x}) /\ Cardinality({x}) = 1
  BY FS_EmptySet, FS_Singleton
<1>2. returned \in Nat /\ interrupts \in Nat
  BY DeliveryAssumption DEF TypeOK, Window!TypeOK
<1>3. /\ returned + interrupts + Cardinality({x}) + Cardinality({}) <= returned' + interrupts'
      /\ returned + interrupts + Cardinality({}) + Cardinality({x}) <= returned' + interrupts'
  BY <1>1, <1>2
<1>4. CASE Gone' \subseteq Gone \cup {x} /\ Spare' \subseteq Spare
  <2>1. Spare' \subseteq Spare \cup {}
    BY <1>4
  <2>2. QED
    BY <1>1, <1>3, <1>4, <2>1, LossGrows
<1>5. CASE Gone' \subseteq Gone /\ Spare' \subseteq Spare \cup {x}
  <2>1. Gone' \subseteq Gone \cup {}
    BY <1>5
  <2>2. QED
    BY <1>1, <1>3, <1>5, <2>1, LossGrows
<1>6. QED
  BY <1>4, <1>5

(* A step of rank r: what it had and has not any more is in A, and it has  *)
(* no more spare answers than before.                                      *)
SameStore == UNCHANGED <<emitted, queue, assembling, finished>>

SameHands(q) == outbox'[q] = outbox[q] /\ wire'[q] = wire[q] /\ current'[q] = current[q]

LEMMA GoneOfRank ==
  ASSUME SameStore, NEW r \in Rank, \A q \in Rank \ {r} : SameHands(q), NEW A,
         \A n \in Batches : n \in AtRank(r) => n \in AtRank(r)' \/ n \in A
  PROVE  Gone' \subseteq Gone \cup A
<1>1. \A q \in Rank \ {r} : AtRank(q)' = AtRank(q)
  BY DEF AtRank, SameHands
<1>2. /\ Sent' = Sent /\ assembling' = assembling /\ finished' = finished
      /\ \A n : Queued(n)' <=> Queued(n)
  BY DEF SameStore, Sent, Queued
<1>3. ASSUME NEW n \in InFlight, n \notin A
      PROVE  n \in InFlight'
  <2>1. n \in Batches
    BY InFlightIs
  <2>2. \A q \in Rank : n \in AtRank(q) => n \in AtRank(q)'
    BY <1>1, <1>3, <2>1
  <2>3. QED
    BY <1>2, <2>1, <2>2, InFlightIs
<1>4. QED
  BY <1>2, <1>3 DEF Gone

SameAsking(q) ==
  /\ conn'[q] = conn[q] /\ asks'[q] = asks[q] /\ (q \in wanted' <=> q \in wanted)
  /\ wire'[q] = wire[q] /\ reader'[q] = reader[q]

LEMMA SpareOfRank ==
  ASSUME NEW r \in Rank, \A q \in Rank \ {r} : SameAsking(q), NEW B, SpareOf(r)' \subseteq SpareOf(r) \cup B
  PROVE  Spare' \subseteq Spare \cup B
<1>1. \A q \in Rank \ {r} : SpareOf(q)' = SpareOf(q)
  BY DEF SpareOf, Unasked, SameAsking
<1>2. QED
  BY <1>1 DEF Spare

(* How much is spare is a number.                                          *)
LEMMA UnaskedTyped ==
  ASSUME NEW r \in Rank
  PROVE  /\ TypeOK => Unasked(r) \in Int /\ asks[r] \in Nat /\ Len(wire[r]) \in Nat
         /\ TypeOK' => Unasked(r)' \in Int /\ asks'[r] \in Nat /\ Len(wire'[r]) \in Nat
<1>0. ASSUME NEW a \in Nat, NEW l \in Nat, NEW w \in Nat, NEW v \in Nat
      PROVE  a + w + l - v \in Int
  OBVIOUS
<1>1. ASSUME NEW s \in Seq(Line)
      PROVE  Len(s) \in Nat
  OBVIOUS
<1>2. ASSUME TypeOK
      PROVE  Unasked(r) \in Int /\ asks[r] \in Nat /\ Len(wire[r]) \in Nat
  <2>1. asks[r] \in Nat /\ wire[r] \in Seq(Line)
    BY <1>2 DEF TypeOK, Line
  <2>2. Len(wire[r]) \in Nat
    BY <1>1, <2>1
  <2>3. QED
    <3> PICK a \in Nat, l \in Nat, w \in Nat, v \in Nat :
           /\ a = asks[r] /\ l = Len(wire[r])
           /\ w = (IF r \in wanted THEN 1 ELSE 0) /\ v = (IF reader[r] = "waiting" THEN 1 ELSE 0)
      BY <2>1, <2>2
    <3>1. Unasked(r) = a + w + l - v
      BY DEF Unasked
    <3>2. a + w + l - v \in Int
      BY <1>0
    <3>3. QED
      BY <2>1, <2>2, <3>1, <3>2
<1>3. ASSUME TypeOK'
      PROVE  Unasked(r)' \in Int /\ asks'[r] \in Nat /\ Len(wire'[r]) \in Nat
  <2>1. asks' \in [Rank -> Nat] /\ wire' \in [Rank -> Seq(Line)]
    BY <1>3 DEF TypeOK, Line
  <2>2. asks'[r] \in Nat /\ wire'[r] \in Seq(Line)
    BY <2>1
  <2>3. Len(wire'[r]) \in Nat
    BY <1>1, <2>2
  <2>4. QED
    <3> PICK a \in Nat, l \in Nat, w \in Nat, v \in Nat :
           /\ a = asks'[r] /\ l = Len(wire'[r])
           /\ w = (IF r \in wanted' THEN 1 ELSE 0) /\ v = (IF reader'[r] = "waiting" THEN 1 ELSE 0)
      BY <2>2, <2>3
    <3>1. Unasked(r)' = a + w + l - v
      BY DEF Unasked
    <3>2. a + w + l - v \in Int
      BY <1>0
    <3>3. QED
      BY <2>2, <2>3, <3>1, <3>2
<1>4. QED
  BY <1>2, <1>3

LEMMA SpareShrinks ==
  ASSUME TypeOK, TypeOK', NEW r \in Rank, \A q \in Rank \ {r} : SameAsking(q),
         conn'[r] = "open" => conn[r] = "open" /\ Unasked(r)' <= Unasked(r)
  PROVE  Spare' \subseteq Spare
<1>1. Unasked(r) \in Int /\ Unasked(r)' \in Int
  BY UnaskedTyped
<1>2. SpareOf(r)' \subseteq SpareOf(r) \cup {}
  <2>1. CASE conn'[r] = "open"
    <3> PICK k \in Int, l \in Int : k = Unasked(r) /\ l = Unasked(r)'
      BY <1>1
    <3>1. 1 .. l \subseteq 1 .. k
      BY <2>1
    <3>2. SpareOf(r) = {<<r, i>> : i \in 1 .. k} /\ SpareOf(r)' = {<<r, i>> : i \in 1 .. l}
      BY <2>1 DEF SpareOf
    <3>3. QED
      BY <3>1, <3>2
  <2>2. CASE conn'[r] # "open"
    BY <2>2 DEF SpareOf
  <2>3. QED
    BY <2>1, <2>2
<1>3. Spare' \subseteq Spare \cup {}
  BY <1>2, SpareOfRank
<1>4. QED
  BY <1>3

(* A step of rank r that loses nothing.                                    *)
LEMMA LossOfRank ==
  ASSUME TypeOK, TypeOK', LossRight, SameStore, NEW r \in Rank,
         \A q \in Rank \ {r} : SameHands(q) /\ SameAsking(q),
         \A n \in Batches : n \in AtRank(r) => n \in AtRank(r)',
         conn'[r] = "open" => conn[r] = "open" /\ Unasked(r)' <= Unasked(r),
         returned' = returned, interrupts' = interrupts
  PROVE  LossRight'
<1>1. Gone' \subseteq Gone \cup {}
  BY GoneOfRank
<1>2. Spare' \subseteq Spare
  BY SpareShrinks
<1>3. QED
  BY <1>1, <1>2, LossStays

(* Connecting, asking and writing the progress file lose nothing.          *)
LEMMA LossWhenConnected ==
  ASSUME IInv, IInv', LossRight, NEW r \in Rank, Connect(r)
  PROVE  LossRight'
<1> USE DEF window, collating, reading, counts
<1>1. /\ conn[r] = "none" /\ conn' = [conn EXCEPT ![r] = "open"]
      /\ reader' = [reader EXCEPT ![r] = "open"]
      /\ UNCHANGED <<emitted, returned, queue, collating, outbox, asks, wire, wanted, current, counts>>
  BY DEF Connect, Window!Activate
<1>2. TypeOK /\ TypeOK' /\ Connected(r)
  BY DEF IInv, RankRight
<1>3. \A q \in Rank \ {r} : SameHands(q) /\ SameAsking(q)
  BY <1>1, <1>2 DEF TypeOK, SameHands, SameAsking
<1>4. conn'[r] = "open" /\ reader'[r] = "open"
  BY <1>1, <1>2 DEF TypeOK
<1>5. asks[r] = 0 /\ r \notin wanted /\ Len(wire[r]) = 0
  BY <1>1, <1>2 DEF Connected
<1>6. Unasked(r)' = 0
  BY <1>1, <1>4, <1>5 DEF Unasked
<1>7. SpareOf(r)' = {}
  <2>1. 1 .. 0 = {}
    OBVIOUS
  <2>2. QED
    BY <1>6, <2>1 DEF SpareOf
<1>8. Spare' \subseteq Spare \cup {}
  BY <1>3, <1>7, SpareOfRank
<1>9. Gone' \subseteq Gone \cup {}
  <2>1. SameStore /\ AtRank(r)' = AtRank(r)
    BY <1>1 DEF SameStore, AtRank
  <2>2. QED
    BY <1>3, <2>1, GoneOfRank
<1>10. QED
  BY <1>1, <1>2, <1>8, <1>9, LossStays

LEMMA LossWhenAsking ==
  ASSUME IInv, IInv', LossRight, NEW r \in Rank,
         HearNext(r) \/ HearClose(r) \/ Open(r) \/ AskNext(r) \/ WriteProgress(r)
  PROVE  LossRight'
<1> USE DEF window, collating, sockets, reading, counts
<1>1. UNCHANGED <<emitted, returned, queue, collating, outbox, wire, current, interrupts>>
  BY DEF HearNext, HearClose, Open, AskNext, WriteProgress
<1>2. TypeOK /\ TypeOK' /\ Connected(r)
  BY DEF IInv, RankRight
<1>3. SameStore /\ AtRank(r)' = AtRank(r) /\ \A q \in Rank \ {r} : SameHands(q)
  BY <1>1 DEF SameStore, AtRank, SameHands
<1>4. \A q \in Rank \ {r} : SameAsking(q)
  BY <1>2 DEF TypeOK, SameAsking, HearNext, HearClose, Open, AskNext, WriteProgress
<1>5. asks[r] \in Nat /\ Len(wire[r]) \in Nat
  BY <1>2, UnaskedTyped
<1> PICK a \in Nat, l \in Nat : a = asks[r] /\ l = Len(wire[r])
  BY <1>5
<1>6. conn'[r] = "open" => conn[r] = "open" /\ Unasked(r)' <= Unasked(r)
  <2>1. CASE HearNext(r)
    <3>1. asks'[r] = a - 1 /\ r \in wanted' /\ conn' = conn /\ reader' = reader /\ wire' = wire
      BY <1>2, <2>1 DEF HearNext, TypeOK
    <3> PICK d \in Nat : d = (IF reader[r] = "waiting" THEN 1 ELSE 0)
      OBVIOUS
    <3>2. Unasked(r)' = a - 1 + 1 + l - d
      BY <3>1 DEF Unasked
    <3>3. Unasked(r) = a + 1 + l - d \/ Unasked(r) = a + 0 + l - d
      BY DEF Unasked
    <3>4. Unasked(r)' <= Unasked(r)
      <4>1. a - 1 + 1 + l - d <= a + 1 + l - d /\ a - 1 + 1 + l - d <= a + 0 + l - d
        BY ONLY TRUE
      <4>2. QED
        BY <3>2, <3>3, <4>1
    <3>5. QED
      BY <3>1, <3>4
  <2>2. CASE HearClose(r)
    BY <1>2, <2>2 DEF HearClose, TypeOK
  <2>3. CASE Open(r)
    <3>1. reader[r] # "waiting" /\ reader'[r] # "waiting" /\ UNCHANGED <<conn, asks, wanted, wire>>
      BY <1>2, <2>3 DEF Open, TypeOK
    <3>2. Unasked(r)' = Unasked(r)
      BY <3>1 DEF Unasked
    <3>3. QED
      BY <1>2, <3>1, <3>2, UnaskedTyped
  <2>4. CASE AskNext(r)
    <3>1. /\ reader[r] # "waiting" /\ reader'[r] = "waiting" /\ asks'[r] = a + 1
          /\ UNCHANGED <<conn, wanted, wire>>
      BY <1>2, <2>4 DEF AskNext, TypeOK
    <3> PICK d \in Nat : d = (IF r \in wanted THEN 1 ELSE 0)
      OBVIOUS
    <3>2. Unasked(r)' = a + 1 + d + l - 1
      BY <3>1 DEF Unasked
    <3>3. Unasked(r) = a + d + l - 0
      BY <3>1 DEF Unasked
    <3>4. QED
      BY <3>1, <3>2, <3>3
  <2>5. CASE WriteProgress(r)
    <3>1. reader[r] # "waiting" /\ reader'[r] # "waiting" /\ UNCHANGED <<conn, asks, wanted, wire>>
      BY <1>2, <2>5 DEF WriteProgress, TypeOK
    <3>2. Unasked(r)' = Unasked(r)
      BY <3>1 DEF Unasked
    <3>3. QED
      BY <1>2, <3>1, <3>2, UnaskedTyped
  <2>6. QED
    BY <2>1, <2>2, <2>3, <2>4, <2>5
<1>7. QED
  BY <1>1, <1>2, <1>3, <1>4, <1>6, LossOfRank

(* A batch moves from the outbox to the wire, and from there to __next__.  *)
LEMMA LossWhenServed ==
  ASSUME IInv, IInv', LossRight, NEW r \in Rank, Serve(r)
  PROVE  LossRight'
<1> USE DEF window, collating, reading, counts
<1> PICK h : h = Head(outbox[r])
  OBVIOUS
<1>1. /\ r \in wanted /\ outbox[r] # <<>> /\ wanted' = wanted \ {r}
      /\ \/ /\ conn[r] = "open"
            /\ wire' = [wire EXCEPT ![r] = Append(@, h)]
            /\ outbox' = [outbox EXCEPT ![r] = IF h = End THEN outbox[r] ELSE Tail(outbox[r])]
            /\ UNCHANGED <<conn, asks>>
         \/ /\ conn[r] # "open"
            /\ conn' = [conn EXCEPT ![r] = "none"]
            /\ asks' = [asks EXCEPT ![r] = 0]
            /\ UNCHANGED <<wire, outbox>>
      /\ UNCHANGED <<window, nextWorker, queue, collating, reading, counts>>
  BY DEF Serve, AfterSend, Unanswered
<1>2. TypeOK /\ TypeOK'
  BY DEF IInv
<1>3. \A q \in Rank \ {r} : SameHands(q) /\ SameAsking(q)
  BY <1>1, <1>2 DEF TypeOK, SameHands, SameAsking
<1>4. /\ outbox[r] \in Seq(Line) /\ wire[r] \in Seq(Line) /\ h \in Line
      /\ Range(outbox[r]) = Range(Tail(outbox[r])) \cup {h}
      /\ Range(Append(wire[r], h)) = Range(wire[r]) \cup {h}
      /\ Len(Append(wire[r], h)) = Len(wire[r]) + 1
  <2>1. outbox[r] \in Seq(Line) /\ wire[r] \in Seq(Line)
    BY <1>2, Typed
  <2>2. QED
    BY <1>1, <2>1, TailIs, AppendIs
<1>5. SameStore
  BY <1>1 DEF SameStore
<1>6. CASE conn[r] = "open"
  <2>1. /\ wire'[r] = Append(wire[r], h)
        /\ outbox'[r] = IF h = End THEN outbox[r] ELSE Tail(outbox[r])
        /\ conn' = conn /\ asks' = asks /\ r \notin wanted' /\ reader' = reader /\ current' = current
    BY <1>1, <1>2, <1>6 DEF TypeOK
  <2>2. \A n \in Batches : n \in AtRank(r) => n \in AtRank(r)'
    <3>1. Range(outbox[r]) \subseteq Range(outbox'[r]) \cup {h}
      BY <1>4, <2>1
    <3>2. Range(wire'[r]) = Range(wire[r]) \cup {h}
      BY <1>4, <2>1
    <3>3. QED
      BY <2>1, <3>1, <3>2 DEF AtRank
  <2>3. Unasked(r)' = Unasked(r)
    <3> PICK a \in Nat, l \in Nat : a = asks[r] /\ l = Len(wire[r])
      BY <1>2, UnaskedTyped
    <3> PICK d \in Nat : d = (IF reader[r] = "waiting" THEN 1 ELSE 0)
      OBVIOUS
    <3>1. Unasked(r)' = a + 0 + (l + 1) - d
      BY <1>4, <2>1 DEF Unasked
    <3>2. Unasked(r) = a + 1 + l - d
      BY <1>1 DEF Unasked
    <3>3. a + 0 + (l + 1) - d = a + 1 + l - d
      BY ONLY TRUE
    <3>4. QED
      BY <3>1, <3>2, <3>3
  <2>4. Unasked(r)' <= Unasked(r)
    BY <1>2, <2>3, UnaskedTyped
  <2>5. QED
    BY <1>1, <1>2, <1>3, <1>5, <1>6, <2>2, <2>4, LossOfRank
<1>7. CASE conn[r] # "open"
  <2>1. UNCHANGED <<wire, outbox, current>> /\ conn'[r] = "none"
    BY <1>1, <1>2, <1>7 DEF TypeOK
  <2>2. AtRank(r)' = AtRank(r)
    BY <2>1 DEF AtRank
  <2>3. QED
    BY <1>1, <1>2, <1>3, <1>5, <2>1, <2>2, LossOfRank
<1>8. QED
  BY <1>6, <1>7

LEMMA LossWhenTaken ==
  ASSUME IInv, IInv', LossRight, NEW r \in Rank, TakeBatch(r)
  PROVE  LossRight'
<1> USE DEF window, collating, counts
<1> PICK h : h = Head(wire[r])
  OBVIOUS
<1>1. /\ reader[r] = "waiting" /\ wire[r] # <<>>
      /\ wire' = [wire EXCEPT ![r] = Tail(@)] /\ current' = [current EXCEPT ![r] = h]
      /\ reader' = [reader EXCEPT ![r] = "took"]
      /\ UNCHANGED <<emitted, returned, queue, collating, outbox, conn, asks, wanted, counts>>
  BY DEF TakeBatch
<1>2. TypeOK /\ TypeOK' /\ current[r] = None
  BY <1>1 DEF IInv, RankRight, Connected
<1>3. \A q \in Rank \ {r} : SameHands(q) /\ SameAsking(q)
  BY <1>1, <1>2 DEF TypeOK, SameHands, SameAsking
<1>4. /\ wire[r] \in Seq(Line) /\ Range(wire[r]) = Range(Tail(wire[r])) \cup {h}
      /\ Len(Tail(wire[r])) = Len(wire[r]) - 1
  <2>1. wire[r] \in Seq(Line)
    BY <1>2, Typed
  <2>2. QED
    BY <1>1, <2>1, TailIs
<1>5. SameStore
  BY <1>1 DEF SameStore
<1>6. wire'[r] = Tail(wire[r]) /\ current'[r] = h /\ outbox'[r] = outbox[r] /\ reader'[r] = "took"
  BY <1>1, <1>2 DEF TypeOK
<1>7. \A n \in Batches : n \in AtRank(r) => n \in AtRank(r)'
  <2>1. \A n \in Batches : n # None
    BY Numbers
  <2>2. QED
    BY <1>2, <1>4, <1>6, <2>1 DEF AtRank
<1>8. Unasked(r)' = Unasked(r)
  <2> PICK a \in Nat, l \in Nat : a = asks[r] /\ l = Len(wire[r])
    BY <1>2, UnaskedTyped
  <2> PICK d \in Nat : d = (IF r \in wanted THEN 1 ELSE 0)
    OBVIOUS
  <2>1. Unasked(r)' = a + d + (l - 1) - 0
    BY <1>1, <1>4, <1>6 DEF Unasked
  <2>2. Unasked(r) = a + d + l - 1
    BY <1>1 DEF Unasked
  <2>3. a + d + (l - 1) - 0 = a + d + l - 1
    OBVIOUS
  <2>4. QED
    BY <2>1, <2>2, <2>3
<1>9. Unasked(r)' <= Unasked(r)
  BY <1>2, <1>8, UnaskedTyped
<1>10. QED
  BY <1>1, <1>2, <1>3, <1>5, <1>7, <1>9, LossOfRank

(* A batch that is returned is gone; that is one more that was returned.   *)
LEMMA LossWhenReturned ==
  ASSUME IInv, IInv', LossRight, NEW r \in Rank, ReturnBatch(r)
  PROVE  LossRight'
<1> USE DEF collating, sockets, counts
<1>1. /\ reader[r] = "written" /\ reader' = [reader EXCEPT ![r] = "open"]
      /\ current' = [current EXCEPT ![r] = None] /\ returned' = returned + 1
      /\ UNCHANGED <<emitted, queue, collating, outbox, sockets, counts>>
  BY DEF ReturnBatch, Window!Return
<1>2. TypeOK /\ TypeOK'
  BY DEF IInv
<1>3. \A q \in Rank \ {r} : SameHands(q) /\ SameAsking(q)
  BY <1>1, <1>2 DEF TypeOK, SameHands, SameAsking
<1>4. SameStore /\ \A n \in Batches : n \in AtRank(r) => n \in AtRank(r)' \/ n \in {current[r]}
  BY <1>1 DEF SameStore, AtRank
<1>5. Gone' \subseteq Gone \cup {current[r]}
  BY <1>3, <1>4, GoneOfRank
<1>6. Unasked(r)' = Unasked(r)
  <2>1. reader[r] # "waiting" /\ reader'[r] # "waiting"
    BY <1>1, <1>2 DEF TypeOK
  <2>2. QED
    BY <1>1, <2>1 DEF Unasked
<1>7. Spare' \subseteq Spare
  <2>1. Unasked(r)' <= Unasked(r)
    BY <1>2, <1>6, UnaskedTyped
  <2>2. QED
    BY <1>1, <1>2, <1>3, <2>1, SpareShrinks
<1>8. returned' + interrupts' = returned + interrupts + 1
  <2>1. returned \in Nat /\ interrupts \in Nat
    BY <1>2, DeliveryAssumption DEF TypeOK, Window!TypeOK
  <2>2. QED
    BY <1>1, <2>1
<1>9. QED
  BY <1>2, <1>5, <1>7, <1>8, LossOne

(* An exception costs the batch __next__ had, or makes the answer to its   *)
(* request a spare one.                                                    *)
LEMMA LossWhenInterrupted ==
  ASSUME IInv, IInv', LossRight, NEW r \in Rank, Interrupt(r)
  PROVE  LossRight'
<1> USE DEF window, collating, sockets
<1>1. /\ reader[r] \in {"waiting", "took", "written"} /\ reader' = [reader EXCEPT ![r] = "open"]
      /\ current' = [current EXCEPT ![r] = None] /\ interrupts' = interrupts + 1
      /\ UNCHANGED <<emitted, returned, queue, collating, outbox, sockets>>
  BY DeliveryAssumption DEF Interrupt
<1>2. TypeOK /\ TypeOK' /\ Connected(r)
  BY DEF IInv, RankRight
<1>3. \A q \in Rank \ {r} : SameHands(q) /\ SameAsking(q)
  BY <1>1, <1>2 DEF TypeOK, SameHands, SameAsking
<1>4. returned' + interrupts' = returned + interrupts + 1
  <2>1. returned \in Nat /\ interrupts \in Nat
    BY <1>2, DeliveryAssumption DEF TypeOK, Window!TypeOK
  <2>2. QED
    BY <1>1, <2>1
<1>5. SameStore /\ reader'[r] = "open"
  BY <1>1, <1>2 DEF SameStore, TypeOK
<1>6. CASE reader[r] = "waiting"
  <2>1. current[r] = None /\ current'[r] = None
    BY <1>1, <1>2, <1>6 DEF Connected, TypeOK
  <2>2. AtRank(r)' = AtRank(r)
    BY <1>1, <2>1 DEF AtRank
  <2>3. Gone' \subseteq Gone \cup {}
    BY <1>3, <1>5, <2>2, GoneOfRank
  <2> PICK k \in Int : k = Unasked(r)
    BY <1>2, UnaskedTyped
  <2>4. Unasked(r)' = k + 1
    <3> PICK a \in Nat, l \in Nat : a = asks[r] /\ l = Len(wire[r])
      BY <1>2, UnaskedTyped
    <3> PICK d \in Nat : d = (IF r \in wanted THEN 1 ELSE 0)
      OBVIOUS
    <3>1. Unasked(r)' = a + d + l - 0
      BY <1>1, <1>5 DEF Unasked
    <3>2. Unasked(r) = a + d + l - 1
      BY <1>6 DEF Unasked
    <3>3. a + d + l - 0 = (a + d + l - 1) + 1
      OBVIOUS
    <3>4. QED
      BY <3>1, <3>2, <3>3
  <2>5. SpareOf(r)' \subseteq SpareOf(r) \cup {<<r, k + 1>>}
    <3>1. 1 .. k + 1 \subseteq (1 .. k) \cup {k + 1}
      OBVIOUS
    <3>2. conn' = conn
      BY <1>1
    <3>3. QED
      BY <2>4, <3>1, <3>2 DEF SpareOf
  <2>6. Spare' \subseteq Spare \cup {<<r, k + 1>>}
    BY <1>3, <2>5, SpareOfRank
  <2>7. QED
    BY <1>2, <1>4, <2>3, <2>6, LossOne
<1>7. CASE reader[r] # "waiting"
  <2>1. \A n \in Batches : n \in AtRank(r) => n \in AtRank(r)' \/ n \in {current[r]}
    BY <1>1 DEF AtRank
  <2>2. Gone' \subseteq Gone \cup {current[r]}
    BY <1>3, <1>5, <2>1, GoneOfRank
  <2>3. Unasked(r)' = Unasked(r)
    BY <1>1, <1>5, <1>7 DEF Unasked
  <2>4. Spare' \subseteq Spare
    <3>1. Unasked(r)' <= Unasked(r)
      BY <1>2, <2>3, UnaskedTyped
    <3>2. QED
      BY <1>1, <1>2, <1>3, <3>1, SpareShrinks
  <2>5. QED
    BY <1>2, <1>4, <2>2, <2>4, LossOne
<1>8. QED
  BY <1>6, <1>7

(* A reader that closes after the last batch drops only End.               *)
LEMMA LossWhenOver ==
  ASSUME IInv, IInv', LossRight, NEW r \in Rank, TakeEnd(r)
  PROVE  LossRight'
<1> USE DEF window, collating, counts
<1>1. /\ wire[r] # <<>> /\ Head(wire[r]) = End
      /\ reader' = [reader EXCEPT ![r] = "closed"] /\ conn' = [conn EXCEPT ![r] = "half"]
      /\ wire' = [wire EXCEPT ![r] = <<>>]
      /\ UNCHANGED <<emitted, returned, queue, collating, outbox, asks, wanted, current, counts>>
  BY DEF TakeEnd, Shut
<1>2. TypeOK /\ TypeOK' /\ InLine(r) /\ wire[r] \in Seq(Int)
  BY Typed DEF IInv, RankRight
<1>3. \A q \in Rank \ {r} : SameHands(q) /\ SameAsking(q)
  BY <1>1, <1>2 DEF TypeOK, SameHands, SameAsking
<1>4. BatchesIn(wire[r]) = {}
  BY <1>1, <1>2, LeavesLine DEF InLine
<1>5. \A n \in Batches : n \in AtRank(r) => n \in AtRank(r)'
  <2>1. \A n \in Batches : n \notin Range(wire[r])
    BY <1>4, Numbers DEF BatchesIn
  <2>2. outbox' = outbox /\ current' = current
    BY <1>1
  <2>3. QED
    BY <2>1, <2>2 DEF AtRank
<1>6. SameStore /\ conn'[r] = "half"
  BY <1>1, <1>2 DEF SameStore, TypeOK
<1>7. QED
  BY <1>1, <1>2, <1>3, <1>5, <1>6, LossOfRank

(* As many batches are lost as answers were spare.                         *)
LEMMA LossMoves ==
  ASSUME LossRight, NEW A, NEW D, D \subseteq Spare, IsFiniteSet(A), Cardinality(A) <= Cardinality(D),
         IsFiniteSet(Gone), Gone' \subseteq Gone \cup A, Spare' \subseteq Spare \ D,
         returned \in Nat, interrupts \in Nat, returned' = returned, interrupts' = interrupts
  PROVE  LossRight'
<1>1. IsFiniteSet(Spare) /\ Cardinality(Gone) + Cardinality(Spare) <= returned + interrupts
  BY DEF LossRight
<1>2. /\ IsFiniteSet(Spare \ D) /\ IsFiniteSet(D)
      /\ Cardinality(Spare \ D) = Cardinality(Spare) - Cardinality(D)
  <2>1. Spare \cap D = D
    OBVIOUS
  <2>2. QED
    BY <1>1, <2>1, FS_Difference, FS_Subset
<1>3. IsFiniteSet(Spare') /\ Cardinality(Spare') <= Cardinality(Spare \ D)
  BY <1>2, FS_Subset
<1>4. /\ IsFiniteSet(Gone \cup A) /\ IsFiniteSet(Gone \cap A)
      /\ Cardinality(Gone \cup A) = Cardinality(Gone) + Cardinality(A) - Cardinality(Gone \cap A)
  BY FS_Union, FS_Subset
<1>5. IsFiniteSet(Gone') /\ Cardinality(Gone') <= Cardinality(Gone \cup A)
  BY <1>4, FS_Subset
<1>6. /\ Cardinality(Gone) \in Nat /\ Cardinality(Spare) \in Nat /\ Cardinality(A) \in Nat
      /\ Cardinality(D) \in Nat /\ Cardinality(Gone \cap A) \in Nat
      /\ Cardinality(Gone') \in Nat /\ Cardinality(Spare') \in Nat
  BY <1>1, <1>2, <1>3, <1>4, <1>5, FS_CardinalityType
<1>7. Cardinality(Gone') + Cardinality(Spare') <= returned' + interrupts'
  BY <1>1, <1>2, <1>3, <1>4, <1>5, <1>6
<1>8. QED
  BY <1>3, <1>7 DEF LossRight

LEMMA GoneFinite ==
  ASSUME TypeOK
  PROVE  IsFiniteSet(Gone)
<1>1. Start \in Int /\ Start + emitted - 1 \in Int
  BY Numbers DEF TypeOK, Window!TypeOK
<1>2. IsFiniteSet(Sent)
  BY <1>1, FS_Interval DEF Sent
<1>3. QED
  BY <1>2, FS_Subset DEF Gone

(* A reader that closes between two batches drops what is on the wire: the *)
(* answers nobody waited for.                                              *)
LEMMA LossWhenClosed ==
  ASSUME IInv, IInv', LossRight, NEW r \in Rank, CloseEarly(r)
  PROVE  LossRight'
<1> USE DEF window, collating
<1>1. /\ reader[r] = "open"
      /\ reader' = [reader EXCEPT ![r] = "closed"] /\ conn' = [conn EXCEPT ![r] = "half"]
      /\ wire' = [wire EXCEPT ![r] = <<>>]
      /\ UNCHANGED <<emitted, returned, queue, collating, outbox, asks, wanted, current, interrupts>>
  BY DEF CloseEarly, Shut
<1>2. TypeOK /\ TypeOK' /\ Connected(r) /\ wire[r] \in Seq(Line)
  BY Typed DEF IInv, RankRight
<1>3. \A q \in Rank \ {r} : SameHands(q) /\ SameAsking(q)
  BY <1>1, <1>2 DEF TypeOK, SameHands, SameAsking
<1> PICK A : A = Range(wire[r])
  OBVIOUS
<1>4. Gone' \subseteq Gone \cup A
  <2>1. SameStore /\ outbox' = outbox /\ current' = current
    BY <1>1 DEF SameStore
  <2>2. \A n \in Batches : n \in AtRank(r) => n \in AtRank(r)' \/ n \in A
    BY <2>1 DEF AtRank
  <2>3. QED
    BY <1>3, <2>1, <2>2, GoneOfRank
<1>5. /\ DOMAIN wire[r] = 1 .. Len(wire[r]) /\ \A x \in A : \E i \in DOMAIN wire[r] : wire[r][i] = x
  BY <1>2, InRange
<1>6. SpareOf(r) = {<<r, i>> : i \in 1 .. Unasked(r)} /\ SpareOf(r) \subseteq Spare
  <2>1. conn[r] = "open"
    BY <1>1, <1>2 DEF Connected
  <2>2. QED
    BY <2>1 DEF SpareOf, Spare
<1>7. \A i \in DOMAIN wire[r] : <<r, i>> \in SpareOf(r)
  <2> PICK a \in Nat, l \in Nat, k \in Int : a = asks[r] /\ l = Len(wire[r]) /\ k = Unasked(r)
    BY <1>2, UnaskedTyped
  <2> PICK d \in Nat : d = (IF r \in wanted THEN 1 ELSE 0)
    OBVIOUS
  <2>1. k = a + d + l - 0
    BY <1>1 DEF Unasked
  <2>2. 1 .. l \subseteq 1 .. k
    BY ONLY <2>1
  <2>3. QED
    BY <1>5, <1>6, <2>2
<1>8. IsFiniteSet(SpareOf(r))
  BY <1>6, FS_Subset DEF LossRight
<1>9. IsFiniteSet(A) /\ Cardinality(A) <= Cardinality(SpareOf(r))
  <2> DEFINE at(x) == CHOOSE i \in DOMAIN wire[r] : wire[r][i] = x
             f == [x \in A |-> <<r, at(x)>>]
  <2>1. \A x \in A : at(x) \in DOMAIN wire[r] /\ wire[r][at(x)] = x
    BY <1>5
  <2>2. f \in [A -> SpareOf(r)]
    BY <1>7, <2>1
  <2>3. \A x, y \in A : f[x] = f[y] => x = y
    <3> SUFFICES ASSUME NEW x \in A, NEW y \in A, f[x] = f[y]
                 PROVE  x = y
      OBVIOUS
    <3> HIDE DEF at
    <3>1. <<r, at(x)>> = <<r, at(y)>>
      OBVIOUS
    <3>2. at(x) = at(y)
      BY <3>1
    <3>3. QED
      BY <2>1, <3>2
  <2> HIDE DEF f
  <2>4. f \in Injection(A, SpareOf(r))
    BY <2>2, <2>3 DEF Injection, IsInjective
  <2>5. QED
    BY <1>8, <2>4, FS_Injection
<1>10. Spare' \subseteq Spare \ SpareOf(r)
  <2>1. \A q \in Rank \ {r} : SpareOf(q)' = SpareOf(q)
    BY <1>3 DEF SpareOf, Unasked, SameAsking
  <2>2. SpareOf(r)' = {}
    BY <1>1, <1>2 DEF SpareOf, TypeOK
  <2>3. \A q \in Rank \ {r} : SpareOf(q) \cap SpareOf(r) = {}
    BY DEF SpareOf
  <2>4. QED
    BY <2>1, <2>2, <2>3 DEF Spare
<1>11. returned \in Nat /\ interrupts \in Nat
  BY <1>2, DeliveryAssumption DEF TypeOK, Window!TypeOK
<1>12. QED
  BY <1>1, <1>2, <1>4, <1>6, <1>9, <1>10, <1>11, GoneFinite, LossMoves

(* The steps before the outboxes lose nothing either.                      *)
LEMMA LossElsewhere ==
  ASSUME TypeOK, TypeOK', LossRight, UNCHANGED <<sockets, reader, returned, interrupts>>,
         Sent' \subseteq Sent \cup InFlight', InFlight \subseteq InFlight'
  PROVE  LossRight'
<1>1. \A q \in Rank : SpareOf(q)' = SpareOf(q)
  BY DEF SpareOf, Unasked, sockets
<1>2. Spare' \subseteq Spare
  BY <1>1 DEF Spare
<1>3. Gone' \subseteq Gone
  BY DEF Gone
<1>4. QED
  BY <1>2, <1>3, LossStays

LEMMA LossWhenRequested ==
  ASSUME IInv, IInv', LossRight, RequestBatch \/ UNCHANGED vars
  PROVE  LossRight'
<1> USE DEF window, collating, counts
<1>1. UNCHANGED <<emitted, returned, queue, collating, outbox, sockets, reading, counts>>
  BY DEF RequestBatch, Window!Request, vars
<1>2. /\ UNCHANGED <<emitted, returned, interrupts, queue, assembling, finished, outbox, wire, current>>
      /\ UNCHANGED <<sockets, reader>>
  BY <1>1 DEF sockets, reading
<1>3. \A n : (Queued(n)' <=> Queued(n)) /\ \A q \in Rank : AtRank(q)' = AtRank(q)
  BY <1>2 DEF Queued, AtRank
<1>4. InFlight \subseteq InFlight' /\ Sent' = Sent
  BY <1>2, <1>3, InFlightIs DEF Sent
<1>5. QED
  BY <1>2, <1>4, LossElsewhere DEF IInv

LEMMA LossWhenDistributed ==
  ASSUME IInv, IInv', LossRight, DistributeBatch
  PROVE  LossRight'
<1> USE DEF window, collating, counts
<1> PICK n : n = Start + emitted
  OBVIOUS
<1>1. /\ emitted < EndAt - Start /\ emitted' = emitted + 1 /\ returned' = returned
      /\ UNCHANGED <<interrupts, assembling, finished, outbox, sockets, reading>>
  BY DEF DistributeBatch, Window!Emit
<1>2. TypeOK /\ TypeOK' /\ emitted \in Nat /\ nextWorker \in Worker
  BY DEF IInv, TypeOK, Window!TypeOK
<1>3. n \in Batches /\ n \in Nat
  BY <1>1, <1>2, Numbers DEF Batches
<1>4. \A w \in Worker : \A i \in DOMAIN queue[w] : i \in DOMAIN queue'[w] /\ queue'[w][i] = queue[w][i]
  BY <1>2, <1>3, EmitIs
<1>5. \A k : Queued(k) => Queued(k)'
  BY <1>4 DEF Queued
<1>6. Queued(n)'
  <2>1. PICK i \in Indices(n) : i \in Nat
    BY <1>3, Numbers
  <2> PICK w : w = (nextWorker + i) % Workers
    OBVIOUS
  <2>2. w \in Worker
    <3>1. Workers \in Nat \ {0} /\ Worker = 0 .. Workers - 1
      BY Numbers
    <3>2. nextWorker + i \in Nat
      BY <1>2, <2>1, <3>1
    <3>3. (nextWorker + i) % Workers \in 0 .. Workers - 1
      BY <3>1, <3>2
    <3>4. QED
      BY <3>1, <3>3
  <2>3. Part(n, w) # {}
    BY DEF Part
  <2>4. \E k \in DOMAIN queue'[w] : queue'[w][k] = [batch |-> n, samples |-> Part(n, w)]
    BY <1>2, <1>3, <2>2, <2>3, EmitIs
  <2>5. QED
    BY <2>2, <2>4 DEF Queued
<1>7. \A q \in Rank : AtRank(q)' = AtRank(q)
  BY <1>1 DEF AtRank, sockets, reading
<1>8. InFlight \subseteq InFlight' /\ n \in InFlight'
  BY <1>1, <1>3, <1>5, <1>6, <1>7, InFlightIs
<1>9. Sent' \subseteq Sent \cup {n}
  <2>1. Start \in Nat
    BY Numbers
  <2>2. Sent' = Start .. Start + (emitted + 1) - 1
    BY <1>1 DEF Sent
  <2>3. Start .. Start + (emitted + 1) - 1 \subseteq (Start .. Start + emitted - 1) \cup {n}
    BY <1>2, <2>1
  <2>4. QED
    BY <2>2, <2>3 DEF Sent
<1>10. QED
  BY <1>1, <1>2, <1>8, <1>9, LossElsewhere DEF reading

LEMMA LossWhenEnding ==
  ASSUME IInv, IInv', LossRight, DistributeEnd
  PROVE  LossRight'
<1> USE DEF window, collating, counts
<1>1. /\ queue' = [w \in Worker |-> Append(queue[w], EndMessage)]
      /\ UNCHANGED <<emitted, returned, interrupts, assembling, finished, outbox, sockets, reading>>
  BY DEF DistributeEnd, Window!End
<1>2. TypeOK /\ TypeOK'
  BY DEF IInv
<1>3. \A w \in Worker : \A i \in DOMAIN queue[w] : i \in DOMAIN queue'[w] /\ queue'[w][i] = queue[w][i]
  <2> SUFFICES ASSUME NEW w \in Worker, NEW i \in DOMAIN queue[w]
               PROVE  i \in DOMAIN queue'[w] /\ queue'[w][i] = queue[w][i]
    OBVIOUS
  <2> PICK s, t : s = queue[w] /\ t = Append(s, EndMessage)
    OBVIOUS
  <2>1. /\ DOMAIN t = 1 .. Len(s) + 1 /\ DOMAIN s = 1 .. Len(s) /\ Len(s) \in Nat
        /\ \A k \in 1 .. Len(s) : t[k] = s[k]
    BY <1>2, QueueTyped, MessageIs, AppendIs
  <2>2. \A k \in DOMAIN s : k \in DOMAIN t /\ t[k] = s[k]
    BY ONLY <2>1
  <2>3. queue'[w] = t
    BY <1>1
  <2>4. QED
    BY <2>2, <2>3
<1>4. \A k : Queued(k) => Queued(k)'
  BY <1>3 DEF Queued
<1>5. \A q \in Rank : AtRank(q)' = AtRank(q)
  BY <1>1 DEF AtRank, sockets, reading
<1>6. InFlight \subseteq InFlight' /\ Sent' = Sent
  BY <1>1, <1>4, <1>5, InFlightIs DEF Sent
<1>7. QED
  BY <1>1, <1>2, <1>6, LossElsewhere DEF reading

LEMMA LossWhenEnded ==
  ASSUME IInv, IInv', LossRight, NEW w \in Worker, ReceiveEnd(w)
  PROVE  LossRight'
<1> USE DEF window, collating, counts
<1>1. /\ queue[w] # <<>> /\ Head(queue[w]) = EndMessage
      /\ queue' = [queue EXCEPT ![w] = Tail(@)]
      /\ outbox' = IF endCount' = Workers THEN [r \in Rank |-> Append(outbox[r], End)] ELSE outbox
      /\ UNCHANGED <<emitted, returned, interrupts, assembling, finished, sockets, reading>>
  BY DEF ReceiveEnd, EveryWorkerEnded
<1>2. TypeOK /\ TypeOK'
  BY DEF IInv
<1>3. ASSUME NEW n \in Batches, Queued(n)
      PROVE  Queued(n)'
  <2>1. PICK v \in Worker : \E i \in DOMAIN queue[v] : queue[v][i].batch = n
    BY <1>3 DEF Queued
  <2>2. PICK i \in DOMAIN queue[v] : queue[v][i].batch = n
    BY <2>1
  <2>3. CASE v # w
    <3>1. queue'[v] = queue[v]
      BY <1>1, <1>2, <2>3 DEF TypeOK
    <3>2. QED
      BY <2>2, <3>1 DEF Queued
  <2>4. CASE v = w
    <3> PICK s, t : s = queue[w] /\ t = Tail(s)
      OBVIOUS
    <3>1. /\ DOMAIN t = 1 .. Len(s) - 1 /\ DOMAIN s = 1 .. Len(s) /\ Len(s) \in Nat \ {0}
          /\ \A k \in 1 .. Len(s) - 1 : t[k] = s[k + 1]
          /\ s[1] = EndMessage
      BY <1>1, <1>2, QueueTyped, TailIs
    <3>2. i # 1 /\ i \in DOMAIN s /\ s[i].batch = n
      BY <2>2, <2>4, <3>1, MessageIs
    <3>3. i - 1 \in DOMAIN t /\ t[i - 1] = s[i]
      <4>1. i \in Int /\ i >= 2 /\ i <= Len(s)
        BY ONLY <3>1, <3>2
      <4>2. i - 1 \in 1 .. Len(s) - 1 /\ (i - 1) + 1 = i
        BY ONLY <3>1, <4>1
      <4>3. QED
        BY <3>1, <4>2
    <3>4. queue'[w] = t
      BY <1>1, <1>2 DEF TypeOK
    <3>5. QED
      BY <3>2, <3>3, <3>4 DEF Queued
  <2>5. QED
    BY <2>3, <2>4
<1>4. ASSUME NEW q \in Rank
      PROVE  AtRank(q) \subseteq AtRank(q)'
  <2>1. Range(outbox[q]) \subseteq Range(outbox'[q])
    <3>1. outbox[q] \in Seq(Line) /\ End \in Line
      BY <1>2, Typed DEF Line
    <3>2. Range(Append(outbox[q], End)) = Range(outbox[q]) \cup {End}
      BY <3>1, AppendIs
    <3>3. outbox'[q] = Append(outbox[q], End) \/ outbox'[q] = outbox[q]
      BY <1>1
    <3>4. QED
      BY <3>2, <3>3
  <2>2. QED
    BY <1>1, <2>1 DEF AtRank, sockets, reading
<1>5. InFlight \subseteq InFlight' /\ Sent' = Sent
  <2>1. Sent' = Sent
    BY <1>1 DEF Sent
  <2>2. ASSUME NEW n \in InFlight
        PROVE  n \in InFlight'
    BY <1>1, <1>3, <1>4, InFlightIs
  <2>3. QED
    BY <2>1, <2>2
<1>6. QED
  BY <1>1, <1>2, <1>5, LossElsewhere DEF reading

LEMMA LossWhenReceived ==
  ASSUME IInv, IInv', LossRight, NEW w \in Worker, ReceiveSamples(w)
  PROVE  LossRight'
<1>1. UNCHANGED <<sockets, reader, returned, interrupts>> /\ emitted' = emitted
  BY DEF ReceiveSamples, window, reading, counts
<1>2. InFlight \subseteq InFlight' /\ Sent' = Sent
  BY <1>1, ReceiveSamplesStep DEF Sent
<1>3. QED
  BY <1>1, <1>2, LossElsewhere DEF IInv

LEMMA LossStep == IInv /\ IInv' /\ LossRight /\ [Next]_vars => LossRight'
<1> SUFFICES ASSUME IInv, IInv', LossRight, [Next]_vars
             PROVE  LossRight'
  OBVIOUS
<1>1. CASE Daemon
  BY <1>1, LossWhenRequested, LossWhenDistributed, LossWhenEnding DEF Daemon
<1>2. ASSUME NEW w \in Worker, ReceiveEnd(w) \/ ReceiveSamples(w)
      PROVE  LossRight'
  BY <1>2, LossWhenEnded, LossWhenReceived
<1>3. ASSUME NEW r \in Rank, Connect(r) \/ HearNext(r) \/ HearClose(r) \/ Serve(r)
      PROVE  LossRight'
  BY <1>3, LossWhenConnected, LossWhenAsking, LossWhenServed
<1>4. ASSUME NEW r \in Rank, Reader(r)
      PROVE  LossRight'
  BY <1>4, LossWhenAsking, LossWhenTaken, LossWhenReturned, LossWhenOver DEF Reader
<1>5. ASSUME NEW r \in Rank, CloseEarly(r) \/ Interrupt(r)
      PROVE  LossRight'
  BY <1>5, LossWhenClosed, LossWhenInterrupted
<1>6. CASE Terminated \/ UNCHANGED vars
  BY <1>6, LossWhenRequested DEF Terminated
<1>7. QED
  BY <1>1, <1>2, <1>3, <1>4, <1>5, <1>6 DEF Next, Collator

LEMMA LossInit == Init => LossRight
<1> SUFFICES ASSUME Init
             PROVE  LossRight
  OBVIOUS
<1>1. \A r \in Rank : SpareOf(r) = {}
  BY DEF Init, SpareOf
<1>2. Spare = {}
  BY <1>1 DEF Spare
<1>3. Gone = {}
  <2>1. Start \in Nat /\ emitted = 0
    BY Numbers DEF Init, Window!Init
  <2>2. Sent = {}
    BY <2>1 DEF Sent
  <2>3. QED
    BY <2>2 DEF Gone
<1>4. returned = 0 /\ interrupts = 0
  BY DEF Init, Window!Init
<1>5. QED
  BY <1>2, <1>3, <1>4, FS_EmptySet DEF LossRight

(* Every batch emitted and not returned is in flight, but for at most one  *)
(* for each exception that left __next__, however often readers are closed *)
(* and opened again.                                                       *)
THEOREM LossBoundedHolds == Spec => []LossBounded
<1>1. IInv /\ LossRight => LossBounded
  <2> SUFFICES ASSUME IInv, LossRight
               PROVE  LossBounded
    OBVIOUS
  <2>1. TypeOK /\ emitted \in Nat /\ returned \in Nat /\ interrupts \in Nat /\ Start \in Nat
    <3>1. TypeOK
      BY DEF IInv
    <3>2. emitted \in Nat /\ returned \in Nat /\ interrupts \in Nat
      BY <3>1, DeliveryAssumption DEF TypeOK, Window!TypeOK
    <3>3. QED
      BY <3>1, <3>2, Numbers
  <2>2. IsFiniteSet(Sent) /\ Cardinality(Sent) = emitted
    <3> PICK a \in Int, b \in Int : a = Start /\ b = Start + emitted - 1
      BY <2>1
    <3>1. IsFiniteSet(a .. b) /\ Cardinality(a .. b) = IF a > b THEN 0 ELSE b - a + 1
      BY FS_Interval
    <3>2. (IF a > b THEN 0 ELSE b - a + 1) = emitted
      BY <2>1
    <3>3. QED
      BY <3>1, <3>2 DEF Sent
  <2>3. IsFiniteSet(InFlight) /\ IsFiniteSet(Gone)
    <3>1. Start \in Int /\ EndAt - 1 \in Int /\ Batches = Start .. EndAt - 1
      BY Numbers
    <3>2. IsFiniteSet(Batches)
      BY <3>1, FS_Interval
    <3>3. InFlight \subseteq Batches
      BY DEF InFlight
    <3>4. QED
      BY <2>1, <3>2, <3>3, FS_Subset, GoneFinite
  <2>4. /\ IsFiniteSet(Gone \cup InFlight) /\ IsFiniteSet(Gone \cap InFlight)
        /\ Cardinality(Gone \cup InFlight)
             = Cardinality(Gone) + Cardinality(InFlight) - Cardinality(Gone \cap InFlight)
    BY <2>3, FS_Union, FS_Subset
  <2>5. Cardinality(Sent) <= Cardinality(Gone \cup InFlight)
    <3>1. Sent \subseteq Gone \cup InFlight
      BY DEF Gone
    <3>2. QED
      BY <2>4, <3>1, FS_Subset
  <2>6. /\ Cardinality(Gone) \in Nat /\ Cardinality(InFlight) \in Nat
        /\ Cardinality(Gone \cap InFlight) \in Nat /\ Cardinality(Spare) \in Nat
    BY <2>3, <2>4, FS_CardinalityType DEF LossRight
  <2>7. Cardinality(Gone) + Cardinality(Spare) <= returned + interrupts
    BY DEF LossRight
  <2>8. emitted - returned - Cardinality(InFlight) <= interrupts
    BY <2>1, <2>2, <2>4, <2>5, <2>6, <2>7
  <2>9. QED
    BY <2>8 DEF LossBounded
<1>2. QED
  BY <1>1, LossInit, LossStep, Inductive, PTL DEF Spec
=============================================================================
