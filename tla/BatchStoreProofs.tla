-------------------------- MODULE BatchStoreProofs --------------------------
(* For every batch, every row limit and any number of submissions, faults and  *)
(* unresolved captures: rows, chunks and idempotency keys keep to their        *)
(* captures.                                                                   *)
EXTENDS BatchStore, FiniteSetTheorems, SequenceTheorems, TLAPS

(* The inductive invariant. *)

\* The offsets of chunks, and the keys under which rows are recorded.
Starts == {s \in Nat : \E q \in 0..s : s = q * Limit}

Keys == Starts \X (1..Limit)

\* The number of the row that is sent under a key.
Number(key) == key[1] + key[2]

\* The number of the row a capture has when none before it went unresolved.
Rank(c) == Cardinality((1..c) \ Refused)

Location == [item : Items, n : Nat \ {0}]

Revisions == [of : Captures \cup {0}, frozen : BOOLEAN]

\* Whose content a revision is.
Content(r) == revs[r.item][r.n].of

\* A revision of the batch, where it belongs.
Stored(r) ==
    /\ r \in Location
    /\ r.n \in DOMAIN revs[r.item]
    /\ Content(r) \in Captures \ Refused
    /\ OnItsItem(Content(r), r)

StoreTypes ==
    /\ revs \in [Items -> Seq(Revisions)]
    /\ published \in [Items -> Nat]
    /\ \A i \in Items : published[i] \in {None} \cup DOMAIN revs[i]
    /\ replay \in [DOMAIN replay -> Location]
    /\ DOMAIN replay \subseteq Keys

\* What is recorded under a key is there, and what the batch wrote is recorded.
StoreInv ==
    /\ \A key \in DOMAIN replay : Stored(replay[key])
    /\ \A i \in Items : \A n \in DOMAIN revs[i] :
          revs[i][n].of # 0 => \E key \in DOMAIN replay : replay[key] = [item |-> i, n |-> n]

\* A key belongs to one capture: through its rank as long as no capture went
\* unresolved, and through the rows in a first submission.
KeysInv ==
    \A key \in DOMAIN replay :
        /\ lookups = 0 => Rank(Content(replay[key])) = Number(key)
        /\ submissions <= 1 => /\ Number(key) \in DOMAIN rows
                               /\ rows[Number(key)].capture = Content(replay[key])

RowType == [capture : Captures, item : Items, was : BOOLEAN]

\* The item of a row is the one its capture names or one that says much the same.
Placed(c, i) ==
    \/ i = Batch[c].item
    \/ /\ ~Batch[c].revises /\ Within(c, i)
       /\ \E n \in DOMAIN revs[i] : Overlaps(Batch[c].text, Says(i, n).text)

\* Rows keep the order of the captures, and number them unless one went unresolved.
RowsInv ==
    /\ rows \in Seq(RowType)
    /\ \A k \in DOMAIN rows :
          /\ rows[k].capture \notin Refused
          /\ Placed(rows[k].capture, rows[k].item)
          /\ rows[k].was => Batch[rows[k].capture].revises
          /\ lookups = 0 => Rank(rows[k].capture) = k
    /\ \A j, k \in DOMAIN rows : j < k => rows[j].capture < rows[k].capture

PrepInv ==
    pc = "prep" =>
        /\ done \in 0..Len(Batch)
        /\ \A k \in DOMAIN rows : rows[k].capture <= done
        /\ lookups = 0 => Len(rows) = Rank(done)
        /\ created = <<>>

\* What the server answered for row k.
Owned(r, k) ==
    r # Failed => Stored(r) /\ (SameRows => Content(r) = rows[k].capture)

CreatedInv ==
    /\ created \in Seq(Location \cup {Failed})
    /\ Len(created) <= Len(rows)
    /\ Len(created) < Len(rows) => Len(created) \in Starts
    /\ \A k \in DOMAIN created : Owned(created[k], k)

ReplyInv ==
    /\ reply \in Seq(Location \cup {Failed})
    /\ pc = "serve" =>
          /\ Len(created) < Len(rows)
          /\ Len(reply) <= Len(Chunk.rows)
          /\ \A k \in DOMAIN reply : Owned(reply[k], Len(created) + k)

PhaseInv ==
    /\ pc \in {"start", "prep", "write", "serve", "post", "raised", "returned"}
    /\ done \in Nat /\ submissions \in Nat /\ lookups \in Nat
    /\ pc \in {"write", "serve"} => done = 0
    /\ pc = "post" => Len(created) = Len(rows) /\ done <= Len(rows)
    /\ submissions = 0 => pc = "start" /\ DOMAIN replay = {}

\* Each capture is answered or still has its turn, in a row or to become one.
Accounted(c) ==
    \/ results[c] # Open
    \/ pc = "prep" /\ c > done
    \/ /\ pc # "returned"
       /\ \E k \in DOMAIN rows : rows[k].capture = c /\ (pc = "post" => k > done)

\* A capture that is answered as stored is answered with its own revision.
Answered(c) ==
    results[c] \notin {Open, Failed} /\ SameRows =>
        c \notin Refused /\ Stored(results[c]) /\ Content(results[c]) = c

ResultsInv ==
    /\ results \in [Captures -> Location \cup {Open, Failed}]
    /\ pc \notin {"start", "raised"} => \A c \in Captures : Accounted(c)
    /\ \A c \in Captures : Answered(c)

\* A row whose tags are dealt with and that carried `published` forward is published,
\* or a row after it is.
RecalledInv ==
    pc \in {"post", "returned"} /\ SameRows =>
        \A k \in DOMAIN rows :
            (pc = "post" => k <= done) /\ rows[k].was /\ results[rows[k].capture] # Failed =>
               /\ published[rows[k].item] \in DOMAIN revs[rows[k].item]
               /\ revs[rows[k].item][published[rows[k].item]].of >= rows[k].capture

Inv == /\ StoreTypes /\ StoreInv /\ KeysInv /\ RowsInv /\ PrepInv /\ CreatedInv /\ ReplyInv
       /\ PhaseInv /\ ResultsInv /\ RecalledInv

---------------------------------------------------------------------------
(* Keys and ranks. *)

LEMMA BatchFacts ==
    /\ Len(Batch) \in Nat /\ Captures = 1..Len(Batch) /\ Captures \subseteq Nat
    /\ \A c \in Captures : Batch[c].item \in Items /\ Batch[c].revises \in BOOLEAN
    /\ Limit \in Nat \ {0}
<1>1. /\ Batch \in Seq([revises : BOOLEAN, item : Items, publish : BOOLEAN, text : Texts,
                          type : STRING])
      /\ Limit \in Nat \ {0}
  BY BatchAssumption
<1>2. Len(Batch) \in Nat /\ Captures = 1..Len(Batch)
  BY <1>1 DEF Captures
<1>3. \A c \in Captures : Batch[c] \in [revises : BOOLEAN, item : Items, publish : BOOLEAN,
                                       text : Texts, type : STRING]
  BY <1>1, <1>2, ElementOfSeq
<1> QED
  BY <1>1, <1>2, <1>3

LEMMA Appended ==
    ASSUME NEW S, NEW s \in Seq(S), NEW e \in S
    PROVE  /\ Append(s, e) \in Seq(S) /\ Len(Append(s, e)) = Len(s) + 1
           /\ DOMAIN Append(s, e) = DOMAIN s \cup {Len(s) + 1} /\ DOMAIN s = 1..Len(s)
           /\ Append(s, e)[Len(s) + 1] = e
           /\ \A j \in DOMAIN s : j # Len(s) + 1 /\ Append(s, e)[j] = s[j]
OBVIOUS

LEMMA Joined ==
    ASSUME NEW S, NEW s \in Seq(S), NEW t \in Seq(S)
    PROVE  /\ s \o t \in Seq(S) /\ Len(s \o t) = Len(s) + Len(t)
           /\ DOMAIN (s \o t) = 1..(Len(s) + Len(t))
           /\ \A j \in DOMAIN s : (s \o t)[j] = s[j]
           /\ \A j \in DOMAIN t : (s \o t)[Len(s) + j] = t[j]
<1>1. s \o t \in Seq(S) /\ Len(s \o t) = Len(s) + Len(t)
  OBVIOUS
<1>2. DOMAIN (s \o t) = 1..(Len(s) + Len(t))
  BY <1>1
<1>3. \A j \in DOMAIN s : (s \o t)[j] = s[j]
  OBVIOUS
<1>4. \A j \in DOMAIN t : (s \o t)[Len(s) + j] = t[j]
  OBVIOUS
<1> QED
  BY <1>1, <1>2, <1>3, <1>4

LEMMA RowTypes ==
    ASSUME RowsInv, NEW k \in DOMAIN rows
    PROVE  /\ k \in Nat \ {0} /\ k <= Len(rows)
           /\ rows[k].capture \in Captures /\ rows[k].capture \in Nat \ {0}
           /\ rows[k].item \in Items /\ rows[k].was \in BOOLEAN
<1>1. rows \in Seq(RowType)
  BY DEF RowsInv
<1>2. k \in Nat \ {0} /\ k <= Len(rows) /\ rows[k] \in RowType
  BY <1>1
<1>3. Captures \subseteq Nat \ {0}
  BY BatchFacts
<1> QED
  BY <1>2, <1>3 DEF RowType

\* Two chunks do not overlap, so a row has one key only.
LEMMA StartsApart ==
    ASSUME NEW q \in Nat, NEW p \in Nat, q < p
    PROVE  q * Limit + Limit <= p * Limit
<1> DEFINE d == p - q - 1
<1>1. d \in Nat /\ p = q + 1 + d
  OBVIOUS
<1>2. Limit \in Nat
  BY BatchFacts
<1>3. d * Limit \in Nat
  BY <1>1, <1>2
<1>4. p * Limit = q * Limit + Limit + d * Limit
  BY <1>1, <1>2
<1> QED
  BY <1>2, <1>3, <1>4

LEMMA KeysDiffer ==
    ASSUME NEW a \in Keys, NEW b \in Keys, Number(a) = Number(b)
    PROVE  a = b
<1>1. /\ a = <<a[1], a[2]>> /\ b = <<b[1], b[2]>>
      /\ a[1] \in Starts /\ b[1] \in Starts /\ a[2] \in 1..Limit /\ b[2] \in 1..Limit
  BY DEF Keys
<1>2. PICK q \in Nat : a[1] = q * Limit
  BY <1>1 DEF Starts
<1>3. PICK p \in Nat : b[1] = p * Limit
  BY <1>1 DEF Starts
<1>4. /\ a[1] \in Nat /\ b[1] \in Nat /\ a[2] \in Nat /\ b[2] \in Nat /\ Limit \in Nat
      /\ a[2] > 0 /\ b[2] > 0 /\ a[2] <= Limit /\ b[2] <= Limit
  BY <1>1, BatchFacts DEF Starts
<1>5. a[1] + a[2] = b[1] + b[2]
  BY DEF Number
<1>6. ~(q < p)
  <2> SUFFICES ASSUME q < p PROVE FALSE
    OBVIOUS
  <2>1. a[1] + Limit <= b[1]
    BY <1>2, <1>3, StartsApart
  <2> QED
    BY <1>4, <1>5, <2>1
<1>7. ~(p < q)
  <2> SUFFICES ASSUME p < q PROVE FALSE
    OBVIOUS
  <2>1. b[1] + Limit <= a[1]
    BY <1>2, <1>3, StartsApart
  <2> QED
    BY <1>4, <1>5, <2>1
<1>8. a[1] = b[1]
  <2>1. q = p
    BY <1>6, <1>7
  <2> QED
    BY <1>2, <1>3, <2>1
<1> QED
  BY <1>1, <1>4, <1>5, <1>8

\* The next chunk starts where this one ends.
LEMMA NextStart ==
    ASSUME NEW s \in Starts
    PROVE  s + Limit \in Starts
<1>1. PICK q \in 0..s : s = q * Limit
  BY DEF Starts
<1>2. s \in Nat /\ Limit \in Nat \ {0} /\ q \in Nat
  BY <1>1, BatchFacts DEF Starts
<1>3. s + Limit = (q + 1) * Limit
  BY <1>1, <1>2
<1>4. q + 1 \in 0..(s + Limit)
  BY <1>1, <1>2
<1>5. s + Limit \in Nat
  BY <1>2
<1> QED
  BY <1>3, <1>4, <1>5 DEF Starts

LEMMA ZeroStarts == 0 \in Starts
<1>1. 0 = 0 * Limit
  BY BatchFacts
<1> QED
  BY <1>1 DEF Starts

LEMMA RankStep ==
    ASSUME NEW c \in Nat
    PROVE  /\ Rank(c) \in Nat
           /\ Rank(c + 1) = IF c + 1 \in Refused THEN Rank(c) ELSE Rank(c) + 1
<1> DEFINE S == (1..c) \ Refused
           T == (1..(c + 1)) \ Refused
<1>1. IsFiniteSet(1..c)
  BY FS_Interval
<1>2. IsFiniteSet(S)
  BY <1>1, FS_Subset
<1>3. Cardinality(S) \in Nat
  BY <1>2, FS_CardinalityType
<1>4. 1..(c + 1) = (1..c) \cup {c + 1}
  OBVIOUS
<1>5. CASE c + 1 \in Refused
  <2>1. T = S
    BY <1>4, <1>5
  <2> QED
    BY <1>3, <1>5, <2>1 DEF Rank
<1>6. CASE c + 1 \notin Refused
  <2>1. T = S \cup {c + 1} /\ c + 1 \notin S
    BY <1>4, <1>6
  <2>2. Cardinality(T) = Cardinality(S) + 1
    BY <1>2, <2>1, FS_AddElement
  <2> QED
    BY <1>3, <1>6, <2>2 DEF Rank
<1> QED
  BY <1>5, <1>6

LEMMA RankZero == Rank(0) = 0
<1>1. (1..0) \ Refused = {}
  OBVIOUS
<1> QED
  BY <1>1, FS_EmptySet DEF Rank

\* Captures that are not refused differ in rank.
LEMMA RanksDiffer ==
    ASSUME NEW c \in Nat \ {0}, NEW d \in Nat \ {0}, c \notin Refused, d \notin Refused,
           Rank(c) = Rank(d)
    PROVE  c = d
<1>1. ASSUME NEW a \in Nat \ {0}, NEW b \in Nat \ {0}, a < b, b \notin Refused
      PROVE  Rank(a) # Rank(b)
  <2> DEFINE S == (1..a) \ Refused
             T == (1..b) \ Refused
  <2>1. IsFiniteSet(T)
    <3>1. IsFiniteSet(1..b)
      BY FS_Interval
    <3> QED
      BY <3>1, FS_Subset
  <2>2. S \in SUBSET T
    BY <1>1
  <2>3. b \in T /\ b \notin S
    BY <1>1
  <2> QED
    BY <2>1, <2>2, <2>3, FS_Subset DEF Rank
<1> QED
  BY <1>1

---------------------------------------------------------------------------
(* What the store keeps. *)

\* Revisions stay where they are and keep their content.
Grows ==
    /\ revs \in [Items -> Seq(Revisions)] /\ revs' \in [Items -> Seq(Revisions)]
    /\ \A i \in Items : \A n \in DOMAIN revs[i] :
          n \in DOMAIN revs'[i] /\ revs'[i][n].of = revs[i][n].of

\* No revision is created; one may be published.
Settled ==
    /\ Grows
    /\ \A i \in Items : DOMAIN revs'[i] = DOMAIN revs[i]
    /\ published' \in [Items -> Nat]
    /\ \A i \in Items : published'[i] \in {None} \cup DOMAIN revs[i]
    /\ replay' = replay

LEMMA SaysKept ==
    ASSUME Grows, NEW i \in Items, NEW n \in DOMAIN revs[i]
    PROVE  Says(i, n)' = Says(i, n)
BY DEF Grows, Says

LEMMA StoredKept ==
    ASSUME Grows, NEW r \in Location, Stored(r)
    PROVE  Stored(r)' /\ Content(r)' = Content(r)
<1>1. r.item \in Items /\ r.n \in Nat \ {0} /\ r.n \in DOMAIN revs[r.item]
  BY DEF Stored, Location
<1>2. r.n \in DOMAIN revs'[r.item] /\ Content(r)' = Content(r)
  BY <1>1 DEF Grows, Content
<1>3. Content(r) \in Captures \ Refused /\ OnItsItem(Content(r), r)
  BY DEF Stored
<1>4. \A n \in 1..(r.n - 1) : n \in DOMAIN revs[r.item]
  BY <1>1 DEF Grows
<1>5. ASSUME NEW c, OnItsItem(c, r)
      PROVE  OnItsItem(c, r)'
  <2>1. \A n \in 1..(r.n - 1) : Says(r.item, n)' = Says(r.item, n)
    BY <1>1, <1>4, SaysKept
  <2> QED
    BY <1>5, <2>1 DEF OnItsItem, Within
<1>6. PICK c : c = Content(r)
  OBVIOUS
<1>7. OnItsItem(c, r)'
  BY <1>3, <1>5, <1>6
<1>8. Content(r)' = c
  BY <1>2, <1>6
<1>9. OnItsItem(Content(r), r)'
  BY <1>7, <1>8 DEF OnItsItem, Within
<1> QED
  BY <1>2, <1>3, <1>9 DEF Stored

LEMMA PlacedKept ==
    ASSUME Grows, NEW c \in Captures, NEW i \in Items, Placed(c, i)
    PROVE  Placed(c, i)'
<1>1. \A n \in DOMAIN revs[i] : n \in DOMAIN revs'[i] /\ Says(i, n)' = Says(i, n)
  BY SaysKept DEF Grows
<1> QED
  BY <1>1 DEF Placed, Within

LEMMA UnchangedSettles ==
    ASSUME StoreTypes, UNCHANGED store
    PROVE  Settled
BY DEF StoreTypes, store, Settled, Grows

LEMMA TagSettles ==
    ASSUME StoreTypes, NEW r \in Location, r.n \in DOMAIN revs[r.item], TagPublished(r),
           replay' = replay
    PROVE  /\ Settled
           /\ published' = [published EXCEPT ![r.item] = r.n]
<1>1. r.item \in Items /\ r.n \in Nat
  BY DEF Location
<1>2. revs' = [revs EXCEPT ![r.item][r.n].frozen = TRUE]
  BY DEF TagPublished
<1>3. revs \in [Items -> Seq(Revisions)]
  BY DEF StoreTypes
<1>4. revs[r.item] \in Seq(Revisions) /\ revs[r.item][r.n] \in Revisions
  BY <1>1, <1>3
<1> DEFINE new == [revs[r.item][r.n] EXCEPT !.frozen = TRUE]
           line == [revs[r.item] EXCEPT ![r.n] = new]
<1>5. new \in Revisions /\ new.of = revs[r.item][r.n].of
  BY <1>4 DEF Revisions
<1>6. line \in Seq(Revisions) /\ DOMAIN line = DOMAIN revs[r.item]
  BY <1>4, <1>5
<1>7. revs' = [revs EXCEPT ![r.item] = line]
  BY <1>2
<1>8. revs' \in [Items -> Seq(Revisions)]
  BY <1>1, <1>3, <1>6, <1>7
<1>9. \A i \in Items : DOMAIN revs'[i] = DOMAIN revs[i]
  BY <1>1, <1>3, <1>6, <1>7
<1>10. \A i \in Items : \A n \in DOMAIN revs[i] : revs'[i][n].of = revs[i][n].of
  <2> SUFFICES ASSUME NEW i \in Items, NEW n \in DOMAIN revs[i]
               PROVE  revs'[i][n].of = revs[i][n].of
    OBVIOUS
  <2>1. CASE i = r.item
    BY <1>1, <1>3, <1>4, <1>5, <1>7, <2>1
  <2>2. CASE i # r.item
    BY <1>1, <1>3, <1>7, <2>2
  <2> QED
    BY <2>1, <2>2
<1>11. published' = [published EXCEPT ![r.item] = r.n] /\ published' \in [Items -> Nat]
  BY <1>1 DEF TagPublished, StoreTypes
<1>12. \A i \in Items : published'[i] \in {None} \cup DOMAIN revs[i]
  BY <1>1, <1>11 DEF StoreTypes
<1> QED
  BY <1>3, <1>8, <1>9, <1>10, <1>11, <1>12 DEF Settled, Grows

LEMMA StoreKept ==
    ASSUME Settled, StoreTypes, StoreInv
    PROVE  StoreTypes' /\ StoreInv'
<1>1. StoreTypes'
  BY DEF Settled, Grows, StoreTypes
<1>2. \A key \in DOMAIN replay' : Stored(replay[key])'
  <2> SUFFICES ASSUME NEW key \in DOMAIN replay'
               PROVE  Stored(replay[key])'
    OBVIOUS
  <2>1. key \in DOMAIN replay /\ replay' = replay
    BY DEF Settled
  <2>2. PICK r \in Location : r = replay[key]
    BY <2>1 DEF StoreTypes
  <2>3. Stored(r)
    BY <2>1, <2>2 DEF StoreInv
  <2>4. Stored(r)'
    BY <2>3, StoredKept DEF Settled
  <2>5. r = replay[key]'
    BY <2>1, <2>2
  <2> QED
    BY <2>4, <2>5 DEF Stored, Content, OnItsItem, Within, Says
<1>3. \A i \in Items : \A n \in DOMAIN revs'[i] :
         revs'[i][n].of # 0 => \E key \in DOMAIN replay' : replay'[key] = [item |-> i, n |-> n]
  BY DEF Settled, Grows, StoreInv
<1> QED
  BY <1>1, <1>2, <1>3 DEF StoreInv

\* What a later submission knows of the earlier ones only weakens.
SameOrFewer == SameRows' => SameRows

LEMMA KeysKept ==
    ASSUME Settled, StoreTypes, StoreInv, KeysInv,
           lookups' = lookups \/ lookups' # 0,
           submissions' <= 1 => submissions <= 1,
           submissions' <= 1 => \A k \in DOMAIN rows : k \in DOMAIN rows' /\ rows'[k] = rows[k]
    PROVE  KeysInv'
<1> SUFFICES ASSUME NEW key \in DOMAIN replay'
             PROVE  /\ lookups' = 0 => Rank(Content(replay[key]))' = Number(key)
                    /\ submissions' <= 1 => /\ Number(key) \in DOMAIN rows'
                                            /\ rows'[Number(key)].capture = Content(replay[key])'
  BY DEF KeysInv, Number, Rank
<1>1. key \in DOMAIN replay /\ replay' = replay
  BY DEF Settled
<1>2. PICK r \in Location : r = replay[key]
  BY <1>1 DEF StoreTypes
<1>3. Stored(r)
  BY <1>1, <1>2 DEF StoreInv
<1>4. Content(r)' = Content(r)
  BY <1>3, StoredKept DEF Settled
<1>5. Content(replay[key])' = Content(replay[key])
  BY <1>1, <1>2, <1>4 DEF Content
<1>6. /\ lookups = 0 => Rank(Content(replay[key])) = Number(key)
      /\ submissions <= 1 => /\ Number(key) \in DOMAIN rows
                             /\ rows[Number(key)].capture = Content(replay[key])
  BY <1>1 DEF KeysInv
<1>7. lookups' = 0 => Rank(Content(replay[key]))' = Number(key)
  BY <1>5, <1>6 DEF Rank
<1>8. submissions' <= 1 => /\ Number(key) \in DOMAIN rows'
                           /\ rows'[Number(key)].capture = Content(replay[key])'
  BY <1>5, <1>6
<1> QED
  BY <1>7, <1>8

LEMMA RowsKept ==
    ASSUME Grows, RowsInv, rows' = rows, lookups' = lookups \/ lookups' # 0
    PROVE  RowsInv'
<1>1. \A k \in DOMAIN rows : Placed(rows[k].capture, rows[k].item)'
  <2> SUFFICES ASSUME NEW k \in DOMAIN rows
               PROVE  Placed(rows[k].capture, rows[k].item)'
    OBVIOUS
  <2>1. rows[k].capture \in Captures /\ rows[k].item \in Items
    BY RowTypes
  <2>2. PICK c \in Captures : c = rows[k].capture
    BY <2>1
  <2>3. PICK i \in Items : i = rows[k].item
    BY <2>1
  <2>4. Placed(c, i)'
    BY <2>2, <2>3, PlacedKept DEF RowsInv
  <2> QED
    BY <2>2, <2>3, <2>4 DEF Placed, Within, Says
<1> QED
  BY <1>1 DEF RowsInv, Rank

LEMMA OwnedKept ==
    ASSUME Grows, NEW r \in Location \cup {Failed}, NEW k, Owned(r, k), SameOrFewer,
           rows'[k] = rows[k]
    PROVE  Owned(r, k)'
<1> SUFFICES ASSUME r # Failed
             PROVE  Stored(r)' /\ (SameRows' => Content(r)' = rows'[k].capture)
  BY DEF Owned, Failed, None
<1>1. r \in Location
  OBVIOUS
<1>2. Stored(r) /\ (SameRows => Content(r) = rows[k].capture)
  BY DEF Owned
<1>3. Stored(r)' /\ Content(r)' = Content(r)
  BY <1>1, <1>2, StoredKept
<1> QED
  BY <1>2, <1>3 DEF SameOrFewer

LEMMA CreatedKept ==
    ASSUME Grows, CreatedInv, SameOrFewer, created' = created, rows' = rows
    PROVE  CreatedInv'
<1>1. \A k \in DOMAIN created : Owned(created[k], k)'
  <2> SUFFICES ASSUME NEW k \in DOMAIN created
               PROVE  Owned(created[k], k)'
    OBVIOUS
  <2>1. PICK r \in Location \cup {Failed} : r = created[k]
    BY DEF CreatedInv
  <2>2. Owned(r, k)'
    BY <2>1, OwnedKept DEF CreatedInv
  <2> QED
    BY <2>1, <2>2 DEF Owned, Stored, Content, OnItsItem, Within, Says
<1> QED
  BY <1>1 DEF CreatedInv, Starts

LEMMA AnsweredKept ==
    ASSUME Grows, SameOrFewer, ResultsInv, NEW c \in Captures, results'[c] = results[c]
    PROVE  Answered(c)'
<1> SUFFICES ASSUME results[c] \notin {Open, Failed}, SameRows'
             PROVE  c \notin Refused /\ Stored(results[c])' /\ Content(results[c])' = c
  BY DEF Answered, Open, Failed, None, Stored, Content, OnItsItem, Within, Says
<1>1. c \notin Refused /\ Stored(results[c]) /\ Content(results[c]) = c
  BY DEF ResultsInv, Answered, SameOrFewer
<1>2. PICK r \in Location : r = results[c]
  BY DEF ResultsInv
<1>3. Stored(r)' /\ Content(r)' = Content(r)
  BY <1>1, <1>2, StoredKept
<1>4. r = results'[c]
  BY <1>2
<1> QED
  BY <1>1, <1>2, <1>3, <1>4 DEF Stored, Content, OnItsItem, Within, Says

LEMMA ReplyKept ==
    ASSUME ReplyInv, reply' = reply, pc' # "serve"
    PROVE  ReplyInv'
BY DEF ReplyInv

\* The parts of the invariant about what is written, where a step writes nothing.
Ledger == StoreTypes /\ StoreInv /\ KeysInv /\ RowsInv /\ CreatedInv

LEMMA WrittenKept ==
    ASSUME Inv, Settled, UNCHANGED <<rows, created, submissions, lookups>>
    PROVE  Ledger' /\ SameOrFewer
<1>1. StoreTypes' /\ StoreInv'
  BY StoreKept DEF Inv
<1>2. SameOrFewer
  BY DEF SameOrFewer, SameRows
<1>3. KeysInv'
  BY KeysKept DEF Inv
<1>4. RowsInv' /\ CreatedInv'
  BY <1>2, RowsKept, CreatedKept DEF Inv, Settled
<1> QED
  BY <1>1, <1>2, <1>3, <1>4 DEF Ledger

\* The next chunk is the rows from its offset on, and full unless it is the last.
LEMMA ChunkRows ==
    ASSUME RowsInv, CreatedInv, Len(created) < Len(rows)
    PROVE  /\ Chunk.start = Len(created) /\ Len(created) \in Nat
           /\ Len(Chunk.rows) \in 1..Limit
           /\ DOMAIN Chunk.rows = 1..Len(Chunk.rows)
           /\ Len(created) + Len(Chunk.rows) <= Len(rows)
           /\ Len(Chunk.rows) = Limit \/ Len(created) + Len(Chunk.rows) = Len(rows)
           /\ \A k \in DOMAIN Chunk.rows :
                 Len(created) + k \in DOMAIN rows /\ Chunk.rows[k] = rows[Len(created) + k]
<1> DEFINE s == Len(created)
           e == IF s + Limit < Len(rows) THEN s + Limit ELSE Len(rows)
<1>1. s \in Nat /\ Len(rows) \in Nat /\ Limit \in Nat \ {0} /\ rows \in Seq(RowType)
  BY BatchFacts DEF RowsInv, CreatedInv
<1>2. Chunk.rows = SubSeq(rows, s + 1, e) /\ Chunk.start = s
  BY DEF Chunk, RowsFrom
<1>3. e \in Nat /\ s < e /\ e <= Len(rows) /\ e <= s + Limit /\ (e = s + Limit \/ e = Len(rows))
  BY <1>1
<1> HIDE DEF e, s
<1>4. /\ SubSeq(rows, s + 1, e) \in Seq(RowType)
      /\ Len(SubSeq(rows, s + 1, e)) = e - s
      /\ \A k \in 1..(e - s) : SubSeq(rows, s + 1, e)[k] = rows[s + k]
  BY <1>1, <1>3
<1>5. Len(Chunk.rows) = e - s /\ DOMAIN Chunk.rows = 1..(e - s)
  BY <1>2, <1>4
<1>6. \A k \in 1..(e - s) : s + k \in DOMAIN rows /\ Chunk.rows[k] = rows[s + k]
  <2>1. \A k \in 1..(e - s) : s + k \in 1..Len(rows)
    BY <1>1, <1>3
  <2>2. DOMAIN rows = 1..Len(rows)
    BY <1>1
  <2> QED
    BY <1>2, <1>4, <2>1, <2>2
<1> USE DEF s
<1> QED
  BY <1>1, <1>2, <1>3, <1>5, <1>6

---------------------------------------------------------------------------
(* Each step keeps the invariant. *)

LEMMA StepSubmit == Inv /\ Submit => Inv'
<1> SUFFICES ASSUME Inv, Submit PROVE Inv'
  OBVIOUS
<1> USE DEF Submit
<1>1. Settled
  BY UnchangedSettles DEF Inv, server
<1>2. submissions \in Nat /\ (submissions = 0 => DOMAIN replay = {})
  BY DEF Inv, PhaseInv
<1>3. StoreTypes' /\ StoreInv'
  BY <1>1, StoreKept DEF Inv
<1>4. replay' = replay
  BY <1>1 DEF Settled
<1>5. KeysInv'
  <2>1. CASE submissions = 0
    BY <1>2, <1>4, <2>1 DEF KeysInv
  <2>2. CASE submissions # 0
    <3>1. ~(submissions' <= 1)
      BY <1>2, <2>2
    <3> QED
      BY <1>1, <3>1, KeysKept DEF Inv
  <2> QED
    BY <2>1, <2>2
<1>6. rows' = <<>> /\ created' = <<>> /\ rows' \in Seq(RowType)
      /\ created' \in Seq(Location \cup {Failed}) /\ Len(rows') = 0 /\ Len(created') = 0
      /\ DOMAIN rows' = {} /\ DOMAIN created' = {}
  OBVIOUS
<1>7. RowsInv' /\ CreatedInv'
  BY <1>6 DEF RowsInv, CreatedInv
<1>8. PrepInv'
  BY <1>6, BatchFacts, RankZero DEF PrepInv, Rank
<1>9. ReplyInv'
  BY ReplyKept DEF Inv
<1>10. PhaseInv'
  BY <1>2 DEF Inv, PhaseInv
<1>11. ResultsInv'
  <2>1. results' \in [Captures -> Location \cup {Open, Failed}]
    OBVIOUS
  <2>2. \A c \in Captures : Accounted(c)'
    BY BatchFacts DEF Accounted, Captures
  <2>3. \A c \in Captures : Answered(c)'
    BY DEF Answered
  <2> QED
    BY <2>1, <2>2, <2>3 DEF ResultsInv
<1>12. RecalledInv'
  BY DEF RecalledInv
<1> QED
  BY <1>3, <1>5, <1>7, <1>8, <1>9, <1>10, <1>11, <1>12 DEF Inv

\* A capture that becomes no row.
LEMMA StepFails == Inv /\ (Refuse \/ Unresolved) => Inv'
<1> SUFFICES ASSUME Inv, Refuse \/ Unresolved PROVE Inv'
  OBVIOUS
<1> DEFINE c == done + 1
<1>1. /\ pc = "prep" /\ pc' = "prep" /\ c \in Captures /\ done' = c
      /\ results' = [results EXCEPT ![c] = Failed]
      /\ UNCHANGED <<server, rows, created, reply, submissions>>
      /\ (lookups' = lookups /\ c \in Refused) \/ lookups' = lookups + 1
  BY BatchAssumption DEF Refuse, Unresolved, counters
<1>2. done \in Nat /\ c \in Nat /\ lookups \in Nat
  BY DEF Inv, PhaseInv
<1>3. lookups' = lookups \/ lookups' # 0
  BY <1>1, <1>2
<1>4. Settled
  BY <1>1, UnchangedSettles DEF Inv, server
<1>5. SameOrFewer
  BY <1>1, <1>2 DEF SameOrFewer, SameRows
<1>6. StoreTypes' /\ StoreInv' /\ KeysInv' /\ RowsInv' /\ CreatedInv' /\ ReplyInv'
  BY <1>1, <1>3, <1>4, <1>5, StoreKept, KeysKept, RowsKept, CreatedKept, ReplyKept DEF Inv, Settled
<1>7. PrepInv'
  <2>1. created' = <<>> /\ c \in 0..Len(Batch)
    BY <1>1, <1>2, BatchFacts DEF Inv, PrepInv
  <2>2. \A k \in DOMAIN rows' : rows'[k].capture <= c
    <3> SUFFICES ASSUME NEW k \in DOMAIN rows PROVE rows[k].capture <= c
      BY <1>1
    <3>1. rows[k].capture <= done
      BY <1>1 DEF Inv, PrepInv
    <3>2. rows[k].capture \in Nat
      BY RowTypes DEF Inv
    <3> QED
      BY <1>2, <3>1, <3>2
  <2>3. lookups' = 0 => Len(rows') = Rank(c)
    <3>1. lookups' = 0 => lookups = 0 /\ c \in Refused
      BY <1>1, <1>2
    <3>2. c \in Refused => Rank(c) = Rank(done)
      BY <1>2, RankStep
    <3> QED
      BY <1>1, <3>1, <3>2 DEF Inv, PrepInv
  <2> QED
    BY <1>1, <2>1, <2>2, <2>3 DEF PrepInv, Rank
<1>8. PhaseInv'
  BY <1>1, <1>2, <1>4 DEF Inv, PhaseInv, Settled
<1>9. ResultsInv'
  <2>1. results' \in [Captures -> Location \cup {Open, Failed}]
    BY <1>1 DEF Inv, ResultsInv
  <2>2. ASSUME NEW d \in Captures
        PROVE  Accounted(d)' /\ Answered(d)'
    <3>1. CASE d = c
      <4>1. results'[d] = Failed
        BY <1>1, <3>1 DEF Inv, ResultsInv
      <4> QED
        BY <4>1 DEF Accounted, Answered, Open, Failed, None
    <3>2. CASE d # c
      <4>1. results'[d] = results[d]
        BY <1>1, <3>2 DEF Inv, ResultsInv
      <4>2. Answered(d)'
        BY <1>4, <1>5, <4>1, AnsweredKept DEF Inv, Settled
      <4>3. Accounted(d)
        BY <1>1 DEF Inv, ResultsInv
      <4>4. d \in Nat
        BY BatchFacts
      <4>5. Accounted(d)'
        BY <1>1, <1>2, <3>2, <4>1, <4>3, <4>4 DEF Accounted
      <4> QED
        BY <4>2, <4>5
    <3> QED
      BY <3>1, <3>2
  <2> QED
    BY <2>1, <2>2 DEF ResultsInv
<1>10. RecalledInv'
  BY <1>1 DEF RecalledInv
<1> QED
  BY <1>6, <1>7, <1>8, <1>9, <1>10 DEF Inv

\* The preparation raises, a call is not answered, or the tool raises.
LEMMA StepWaits == Inv /\ (PrepareRaises \/ WriteLost \/ WriteRaises) => Inv'
<1> SUFFICES ASSUME Inv, PrepareRaises \/ WriteLost \/ WriteRaises PROVE Inv'
  OBVIOUS
<1>1. /\ UNCHANGED <<server, results, rows, created, reply, done, submissions, lookups>>
      /\ pc \in {"prep", "write", "serve"}
      /\ pc' = "raised" \/ (pc # "prep" /\ pc' = "write")
  BY DEF PrepareRaises, WriteLost, WriteRaises, Served
<1>2. Settled
  BY <1>1, UnchangedSettles DEF Inv, server
<1>3. Ledger' /\ SameOrFewer /\ ReplyInv'
  BY <1>1, <1>2, WrittenKept, ReplyKept DEF Inv
<1>4. PrepInv' /\ RecalledInv'
  BY <1>1 DEF PrepInv, RecalledInv
<1>5. PhaseInv'
  BY <1>1, <1>2 DEF Inv, PhaseInv, Settled
<1>6. ResultsInv'
  <2>1. \A c \in Captures : Answered(c)'
    BY <1>1, <1>2, <1>3, AnsweredKept DEF Inv, Settled
  <2>2. pc' # "raised" => \A c \in Captures : Accounted(c)'
    BY <1>1 DEF Inv, ResultsInv, Accounted
  <2> QED
    BY <1>1, <2>1, <2>2 DEF Inv, ResultsInv
<1> QED
  BY <1>3, <1>4, <1>5, <1>6 DEF Inv, Ledger

\* A row for the next capture, on an item that is its own or says much the same.
LEMMA StepPrepare ==
    ASSUME Inv, NEW c \in Captures, NEW i \in Items, NEW was \in BOOLEAN,
           Prepare(c, i, was), Placed(c, i), was => Batch[c].revises
    PROVE  Inv'
<1> DEFINE row == [capture |-> c, item |-> i, was |-> was]
           n == Len(rows) + 1
<1>1. /\ pc = "prep" /\ pc' = "prep" /\ c = done + 1 /\ done' = c /\ c \notin Refused
      /\ rows' = Append(rows, row)
      /\ UNCHANGED <<server, results, created, reply, submissions, lookups>>
  BY DEF Prepare
<1>2. done \in Nat /\ c \in Nat /\ lookups \in Nat
  BY BatchFacts DEF Inv, PhaseInv
<1>3. row \in RowType /\ rows \in Seq(RowType) /\ n \in Nat
  BY DEF RowType, Inv, RowsInv
<1>4. /\ rows' \in Seq(RowType) /\ Len(rows') = n /\ DOMAIN rows' = DOMAIN rows \cup {n}
      /\ DOMAIN rows = 1..(n - 1)
      /\ rows'[n] = row /\ \A k \in DOMAIN rows : k # n /\ rows'[k] = rows[k]
  <2>1. n - 1 = Len(rows)
    BY <1>3
  <2> QED
    BY <1>1, <1>3, <2>1, Appended
<1> HIDE DEF n
<1>5. Settled
  BY <1>1, UnchangedSettles DEF Inv, server
<1>6. SameOrFewer
  BY <1>1 DEF SameOrFewer, SameRows
<1>7. StoreTypes' /\ StoreInv' /\ KeysInv' /\ ReplyInv'
  BY <1>1, <1>4, <1>5, StoreKept, KeysKept, ReplyKept DEF Inv
<1>8. \A k \in DOMAIN rows : rows[k].capture <= done /\ rows[k].capture \in Nat
  <2>1. \A k \in DOMAIN rows : rows[k].capture <= done
    BY <1>1 DEF Inv, PrepInv
  <2> QED
    BY <2>1, RowTypes DEF Inv
<1>9. RowsInv'
  <2>1. ASSUME NEW k \in DOMAIN rows'
        PROVE  /\ rows'[k].capture \notin Refused
               /\ Placed(rows[k].capture, rows[k].item)'
               /\ rows'[k].was => Batch[rows'[k].capture].revises
               /\ lookups' = 0 => Rank(rows'[k].capture) = k
    <3>1. CASE k = n
      <4>1. Placed(c, i)'
        BY <1>5, PlacedKept DEF Settled
      <4>2. lookups' = 0 => Rank(c) = n
        <5>1. lookups' = 0 => Len(rows) = Rank(done)
          BY <1>1 DEF Inv, PrepInv
        <5>2. Rank(c) = Rank(done) + 1
          BY <1>1, <1>2, RankStep
        <5> QED
          BY <1>3, <5>1, <5>2 DEF n
      <4>3. rows'[k] = row
        BY <1>4, <3>1
      <4>4. rows'[k].capture = c /\ rows'[k].item = i /\ rows'[k].was = was
        BY <4>3
      <4>5. Placed(rows[k].capture, rows[k].item)'
        BY <4>1, <4>4 DEF Placed, Within, Says
      <4> QED
        BY <1>1, <3>1, <4>2, <4>4, <4>5
    <3>2. CASE k \in DOMAIN rows
      <4>1. rows'[k] = rows[k] /\ rows[k] \in RowType
        BY <1>3, <1>4, <3>2
      <4>2. PICK d \in Captures : d = rows[k].capture
        BY <4>1 DEF RowType
      <4>3. PICK j \in Items : j = rows[k].item
        BY <4>1 DEF RowType
      <4>4. Placed(d, j)'
        BY <1>5, <3>2, <4>2, <4>3, PlacedKept DEF Inv, RowsInv, Settled
      <4>5. Placed(rows[k].capture, rows[k].item)'
        <5>1. rows'[k].capture = d /\ rows'[k].item = j
          BY <4>1, <4>2, <4>3
        <5> QED
          BY <4>4, <5>1 DEF Placed, Within, Says
      <4> QED
        BY <1>1, <3>2, <4>1, <4>5 DEF Inv, RowsInv
    <3> QED
      BY <1>4, <3>1, <3>2
  <2>2. ASSUME NEW j \in DOMAIN rows', NEW k \in DOMAIN rows', j < k
        PROVE  rows'[j].capture < rows'[k].capture
    <3>1. j \in DOMAIN rows
      BY <1>3, <1>4, <2>2 DEF n
    <3>2. CASE k = n
      BY <1>1, <1>2, <1>4, <1>8, <3>1, <3>2
    <3>3. CASE k \in DOMAIN rows
      BY <1>4, <2>2, <3>1, <3>3 DEF Inv, RowsInv
    <3> QED
      BY <1>4, <3>2, <3>3
  <2> QED
    BY <1>4, <2>1, <2>2 DEF RowsInv, Rank
<1>10. PrepInv'
  <2>1. c \in 0..Len(Batch)
    BY BatchFacts
  <2>2. \A k \in DOMAIN rows' : rows'[k].capture <= c
    BY <1>1, <1>2, <1>4, <1>8
  <2>3. lookups' = 0 => Len(rows') = Rank(c)
    <3>1. lookups' = 0 => Len(rows) = Rank(done)
      BY <1>1 DEF Inv, PrepInv
    <3>2. Rank(c) = Rank(done) + 1
      BY <1>1, <1>2, RankStep
    <3> QED
      BY <1>3, <1>4, <3>1, <3>2 DEF n
  <2> QED
    BY <1>1, <2>1, <2>2, <2>3 DEF PrepInv, Rank, Inv
<1>11. CreatedInv'
  <2>1. created' = <<>> /\ Len(created') = 0 /\ DOMAIN created' = {}
    BY <1>1 DEF Inv, PrepInv
  <2>2. created' \in Seq(Location \cup {Failed})
    BY <1>1 DEF Inv, CreatedInv
  <2> QED
    BY <1>3, <1>4, <2>1, <2>2, ZeroStarts DEF CreatedInv, n, Starts
<1>12. PhaseInv'
  BY <1>1, <1>2, <1>5 DEF Inv, PhaseInv, Settled
<1>13. ResultsInv'
  <2>1. ASSUME NEW d \in Captures
        PROVE  Accounted(d)' /\ Answered(d)'
    <3>1. Answered(d)'
      BY <1>1, <1>5, <1>6, AnsweredKept DEF Inv, Settled
    <3>2. CASE d = c
      BY <1>1, <1>4, <3>1, <3>2 DEF Accounted
    <3>3. CASE d # c
      <4>1. Accounted(d) /\ d \in Nat
        BY <1>1, BatchFacts DEF Inv, ResultsInv
      <4> QED
        BY <1>1, <1>2, <1>4, <3>1, <3>3, <4>1 DEF Accounted
    <3> QED
      BY <3>2, <3>3
  <2> QED
    BY <1>1, <2>1 DEF Inv, ResultsInv
<1>14. RecalledInv'
  BY <1>1 DEF RecalledInv
<1> QED
  BY <1>7, <1>9, <1>10, <1>11, <1>12, <1>13, <1>14 DEF Inv

LEMMA StepPrepareRevise ==
    ASSUME Inv, NEW c \in Captures, PrepareRevise(c)
    PROVE  Inv'
<1> DEFINE i == Batch[c].item
<1>1. PICK was \in BOOLEAN : i \in Items /\ Batch[c].revises /\ Prepare(c, i, was)
  BY BatchFacts DEF PrepareRevise
<1>2. Placed(c, i)
  BY DEF Placed
<1> QED
  BY <1>1, <1>2, StepPrepare

LEMMA StepStack ==
    ASSUME Inv, NEW c \in Captures, NEW i \in Items, Stack(c, i)
    PROVE  Inv'
<1>1. PICK n \in Profile(i) : ShouldStack(c, i, Says(i, n))
  BY DEF Stack
<1>2. /\ ~Batch[c].revises /\ Within(c, i) /\ revs[i] # <<>> /\ Prepare(c, i, FALSE)
  BY DEF Stack, Candidates
<1>3. Overlaps(Batch[c].text, Says(i, n).text)
  BY <1>1 DEF ShouldStack
<1>4. published[i] \in {None} \cup DOMAIN revs[i] /\ revs[i] \in Seq(Revisions)
  BY DEF Inv, StoreTypes
<1>5. n \in DOMAIN revs[i]
  <2>1. Len(revs[i]) \in DOMAIN revs[i]
    BY <1>2, <1>4
  <2> QED
    BY <1>1, <1>4, <2>1 DEF Profile
<1>6. Placed(c, i)
  BY <1>2, <1>3, <1>5 DEF Placed
<1> QED
  BY <1>2, <1>6, StepPrepare

LEMMA StepMint ==
    ASSUME Inv, NEW c \in Captures, Mint(c)
    PROVE  Inv'
<1>1. Batch[c].item \in Items /\ Prepare(c, Batch[c].item, FALSE)
  BY BatchFacts DEF Mint
<1>2. Placed(c, Batch[c].item)
  BY DEF Placed
<1> QED
  BY <1>1, <1>2, StepPrepare

\* The preparation, the calls and the tags are over.
LEMMA StepTurns == Inv /\ (Prepared \/ Written \/ Return) => Inv'
<1> SUFFICES ASSUME Inv, Prepared \/ Written \/ Return PROVE Inv'
  OBVIOUS
<1>1. /\ UNCHANGED <<server, results, rows, created, reply, counters>>
      /\ pc' \in {"write", "post", "returned"}
  BY DEF Prepared, Written, Return
<1>2. Settled
  BY <1>1, UnchangedSettles DEF Inv, server
<1>3. Ledger' /\ SameOrFewer /\ ReplyInv'
  BY <1>1, <1>2, WrittenKept, ReplyKept DEF Inv, counters
<1>4. PrepInv'
  BY <1>1 DEF PrepInv
<1>5. rows \in Seq(RowType) /\ created \in Seq(Location \cup {Failed})
  BY DEF Inv, RowsInv, CreatedInv
<1>6. PhaseInv'
  <2>1. CASE Prepared
    BY <1>1, <1>2, <2>1 DEF Inv, PhaseInv, Prepared, Settled, counters
  <2>2. CASE Written
    BY <1>1, <1>2, <1>5, <2>2 DEF Inv, PhaseInv, Written, Settled, counters
  <2>3. CASE Return
    BY <1>1, <1>2, <2>3 DEF Inv, PhaseInv, Return, Settled, counters
  <2> QED
    BY <2>1, <2>2, <2>3
<1>7. ResultsInv'
  <2>1. ASSUME NEW c \in Captures
        PROVE  Accounted(c)'
    <3>1. CASE Prepared
      <4>1. pc = "prep" /\ done = Len(Batch) /\ c <= done /\ Accounted(c)
            /\ pc' = IF rows = <<>> THEN "returned" ELSE "write"
        BY <3>1, BatchFacts DEF Prepared, Inv, ResultsInv, Captures
      <4>2. results[c] # Open \/ \E k \in DOMAIN rows : rows[k].capture = c
        BY <4>1, BatchFacts DEF Accounted
      <4>3. (\E k \in DOMAIN rows : rows[k].capture = c) => pc' = "write"
        BY <4>1, <1>5
      <4> QED
        BY <1>1, <4>2, <4>3 DEF Accounted
    <3>2. CASE Written
      <4>1. pc = "write" /\ pc' = "post" /\ done' = done /\ Accounted(c)
        BY <3>2 DEF Written, Inv, ResultsInv
      <4>2. done = 0 /\ \A k \in DOMAIN rows : k > 0
        BY <1>5, <4>1 DEF Inv, PhaseInv
      <4> QED
        BY <1>1, <4>1, <4>2 DEF Accounted
    <3>3. CASE Return
      <4>1. pc = "post" /\ done = Len(rows) /\ Accounted(c)
        BY <3>3 DEF Return, Inv, ResultsInv
      <4>2. results[c] # Open
        BY <1>5, <4>1 DEF Accounted
      <4> QED
        BY <1>1, <4>2 DEF Accounted
    <3> QED
      BY <3>1, <3>2, <3>3
  <2>2. \A c \in Captures : Answered(c)'
    BY <1>1, <1>2, <1>3, AnsweredKept DEF Inv, Settled
  <2> QED
    BY <1>1, <2>1, <2>2 DEF Inv, ResultsInv
<1>8. RecalledInv'
  <2>1. CASE Prepared
    <3>1. pc' \in {"post", "returned"} => rows' = <<>>
      BY <1>1, <2>1 DEF Prepared
    <3> QED
      BY <3>1 DEF RecalledInv
  <2>2. CASE Written
    <3>1. pc' = "post" /\ done' = 0
      BY <2>2 DEF Written, Inv, PhaseInv
    <3>2. \A k \in DOMAIN rows : ~(k <= 0)
      BY <1>5
    <3> QED
      BY <1>1, <3>1, <3>2 DEF RecalledInv
  <2>3. CASE Return
    <3>1. /\ pc = "post" /\ done = Len(rows) /\ \A k \in DOMAIN rows : k <= done
      BY <1>5, <2>3 DEF Return
    <3> QED
      BY <1>1, <1>3, <3>1 DEF RecalledInv, Inv, server, store, SameOrFewer
  <2> QED
    BY <2>1, <2>2, <2>3
<1> QED
  BY <1>3, <1>4, <1>6, <1>7, <1>8 DEF Inv, Ledger

\* The row the server is at, its number and its key.
LEMMA ServeFacts ==
    ASSUME Inv, NEW k, Serve(k)
    PROVE  /\ Len(created) < Len(rows) /\ Len(created) \in Nat
           /\ k \in 1..Limit /\ k = Len(reply) + 1 /\ k <= Len(Chunk.rows)
           /\ Len(created) + k \in DOMAIN rows
           /\ Chunk.rows[k] = rows[Len(created) + k]
           /\ Key(k) \in Keys /\ Number(Key(k)) = Len(created) + k
<1>1. pc = "serve" /\ k \in DOMAIN Chunk.rows /\ k = Len(reply) + 1
  BY DEF Serve
<1>2. Len(created) < Len(rows)
  BY <1>1 DEF Inv, ReplyInv
<1>3. /\ Chunk.start = Len(created) /\ Len(created) \in Nat
      /\ Len(Chunk.rows) \in 1..Limit /\ k \in 1..Len(Chunk.rows)
      /\ Len(created) + k \in DOMAIN rows /\ Chunk.rows[k] = rows[Len(created) + k]
  BY <1>1, <1>2, ChunkRows DEF Inv
<1>4. Len(created) \in Starts
  BY <1>2 DEF Inv, CreatedInv
<1>5. k \in 1..Limit /\ k <= Len(Chunk.rows)
  BY <1>3, BatchFacts
<1>6. Key(k) = <<Len(created), k>>
  BY <1>3 DEF Key
<1>7. Key(k) \in Keys
  BY <1>4, <1>5, <1>6 DEF Keys
<1>8. Number(Key(k)) = Len(created) + k
  BY <1>6 DEF Number
<1> QED
  BY <1>1, <1>2, <1>3, <1>5, <1>7, <1>8

\* One row more is answered.
LEMMA Replies ==
    ASSUME Inv, NEW k, Serve(k), NEW r \in Location \cup {Failed},
           reply' = Append(reply, r), UNCHANGED <<pc, rows, created>>, Grows, SameOrFewer,
           Owned(r, Len(created) + k)'
    PROVE  ReplyInv'
<1>1. /\ Len(created) < Len(rows) /\ k = Len(reply) + 1 /\ k <= Len(Chunk.rows)
      /\ Len(created) \in Nat
  BY ServeFacts
<1>2. reply \in Seq(Location \cup {Failed})
  BY DEF Inv, ReplyInv
<1>3. /\ reply' \in Seq(Location \cup {Failed}) /\ Len(reply') = k
      /\ DOMAIN reply' = DOMAIN reply \cup {k} /\ reply'[k] = r
      /\ \A j \in DOMAIN reply : reply'[j] = reply[j]
  BY <1>1, <1>2, Appended
<1>4. Chunk' = Chunk
  BY DEF Chunk, RowsFrom
<1>5. ASSUME NEW j \in DOMAIN reply'
      PROVE  Owned(reply[j], Len(created) + j)'
  <2>1. CASE j = k
    <3>1. reply'[j] = r /\ created' = created
      BY <1>3, <2>1
    <3> QED
      BY <2>1, <3>1 DEF Owned, Stored, Content, OnItsItem, Within, Says
  <2>2. CASE j \in DOMAIN reply
    <3>1. PICK q \in Location \cup {Failed} : q = reply[j]
      BY <1>2, <2>2
    <3>2. PICK m : m = Len(created) + j
      OBVIOUS
    <3>3. Owned(q, m)
      BY <2>2, <3>1, <3>2 DEF Inv, ReplyInv, Serve
    <3>4. Owned(q, m)'
      BY <3>3, OwnedKept
    <3>5. reply'[j] = q /\ m = Len(created') + j
      BY <1>3, <2>2, <3>1, <3>2
    <3> QED
      BY <3>4, <3>5 DEF Owned, Stored, Content, OnItsItem, Within, Says
  <2> QED
    BY <1>3, <2>1, <2>2
<1> QED
  BY <1>1, <1>3, <1>4, <1>5 DEF ReplyInv

\* A call leaves the results alone.
LEMMA CallKeeps ==
    ASSUME Inv, Grows, SameOrFewer, pc \in {"write", "serve"}, pc' \in {"write", "serve"},
           UNCHANGED <<results, rows, done, submissions, lookups>>
    PROVE  PrepInv' /\ PhaseInv' /\ ResultsInv' /\ RecalledInv'
<1>1. PrepInv' /\ RecalledInv'
  BY DEF PrepInv, RecalledInv
<1>2. PhaseInv'
  BY DEF Inv, PhaseInv
<1>3. \A c \in Captures : Answered(c)'
  BY AnsweredKept DEF Inv
<1>4. \A c \in Captures : Accounted(c)'
  BY DEF Inv, ResultsInv, Accounted
<1> QED
  BY <1>1, <1>2, <1>3, <1>4 DEF Inv, ResultsInv

LEMMA StepWrite == Inv /\ Write => Inv'
<1> SUFFICES ASSUME Inv, Write PROVE Inv'
  OBVIOUS
<1>1. /\ UNCHANGED <<server, results, rows, created, done, counters>>
      /\ pc = "write" /\ pc' = "serve" /\ reply' = <<>> /\ Len(created) < Len(rows)
  BY DEF Write
<1>2. Settled
  BY <1>1, UnchangedSettles DEF Inv, server
<1>3. Ledger' /\ SameOrFewer
  BY <1>1, <1>2, WrittenKept DEF counters
<1>4. ReplyInv'
  <2>1. /\ reply' \in Seq(Location \cup {Failed}) /\ Len(reply') = 0 /\ DOMAIN reply' = {}
    BY <1>1
  <2>2. Len(Chunk.rows) \in 1..Limit
    BY <1>1, ChunkRows DEF Inv
  <2>3. Chunk' = Chunk
    BY <1>1 DEF Chunk, RowsFrom
  <2>4. 0 <= Len(Chunk.rows)
    BY <2>2, BatchFacts
  <2> QED
    BY <1>1, <2>1, <2>3, <2>4 DEF ReplyInv
<1>5. PrepInv' /\ PhaseInv' /\ ResultsInv' /\ RecalledInv'
  BY <1>1, <1>2, <1>3, CallKeeps DEF counters, Settled
<1> QED
  BY <1>3, <1>4, <1>5 DEF Inv, Ledger

\* What is recorded under the key of a row is the row's capture.
LEMMA StepReplay ==
    ASSUME Inv, NEW k, Replay(k)
    PROVE  Inv'
<1>1. /\ Serve(k) /\ Key(k) \in DOMAIN replay /\ reply' = Append(reply, replay[Key(k)])
      /\ UNCHANGED <<server, pc, results, rows, created, done, counters>>
      /\ pc = "serve"
  BY DEF Replay, Serve
<1>2. Settled
  BY <1>1, UnchangedSettles DEF Inv, server
<1>3. Ledger' /\ SameOrFewer
  BY <1>1, <1>2, WrittenKept DEF counters
<1> DEFINE m == Len(created) + k
<1>4. PICK r \in Location : r = replay[Key(k)]
  BY <1>1 DEF Inv, StoreTypes
<1>5. m \in DOMAIN rows /\ Number(Key(k)) = m
  BY <1>1, ServeFacts
<1>6. Stored(r)
  BY <1>1, <1>4 DEF Inv, StoreInv
<1>7. SameRows => Content(r) = rows[m].capture
  <2>1. CASE lookups = 0
    <3>1. Rank(Content(r)) = m /\ Rank(rows[m].capture) = m
      BY <1>1, <1>4, <1>5, <2>1 DEF Inv, KeysInv, RowsInv
    <3>2. Content(r) \in Captures \ Refused
      BY <1>6 DEF Stored
    <3>3. rows[m].capture \in Captures \ Refused
      BY <1>5, RowTypes DEF Inv, RowsInv
    <3>4. Captures \subseteq Nat \ {0}
      BY BatchFacts
    <3> QED
      BY <3>1, <3>2, <3>3, <3>4, RanksDiffer
  <2>2. CASE submissions <= 1
    BY <1>1, <1>4, <1>5, <2>2 DEF Inv, KeysInv
  <2> QED
    BY <2>1, <2>2 DEF SameRows
<1>8. Owned(r, m)
  BY <1>6, <1>7 DEF Owned
<1>9. PICK q : q = m
  OBVIOUS
<1>10. Owned(r, q)'
  BY <1>1, <1>2, <1>3, <1>8, <1>9, OwnedKept DEF Settled
<1>11. Owned(r, m)'
  <2>1. q = Len(created') + k
    BY <1>1, <1>9
  <2> QED
    BY <1>10, <2>1 DEF Owned
<1>12. ReplyInv'
  BY <1>1, <1>2, <1>3, <1>4, <1>11, Replies DEF Settled
<1>13. PrepInv' /\ PhaseInv' /\ ResultsInv' /\ RecalledInv'
  BY <1>1, <1>2, <1>3, CallKeeps DEF counters, Settled
<1> QED
  BY <1>3, <1>12, <1>13 DEF Inv, Ledger

LEMMA StepReject ==
    ASSUME Inv, NEW k, Reject(k)
    PROVE  Inv'
<1>1. /\ Serve(k) /\ reply' = Append(reply, Failed) /\ pc = "serve"
      /\ UNCHANGED <<server, pc, results, rows, created, done, submissions, lookups>>
  BY DEF Reject, Serve
<1>2. Settled
  BY <1>1, UnchangedSettles DEF Inv, server
<1>3. Ledger' /\ SameOrFewer
  BY <1>1, <1>2, WrittenKept
<1>4. Owned(Failed, Len(created) + k)'
  BY DEF Owned, Failed, None
<1>5. ReplyInv'
  BY <1>1, <1>2, <1>3, <1>4, Replies DEF Settled
<1>6. PrepInv' /\ PhaseInv' /\ ResultsInv' /\ RecalledInv'
  BY <1>1, <1>2, <1>3, CallKeeps DEF Settled
<1> QED
  BY <1>3, <1>5, <1>6 DEF Inv, Ledger

\* A revision is created under the key of its row.
LEMMA StepCreate ==
    ASSUME Inv, NEW k, Create(k)
    PROVE  Inv'
<1>0. PICK m, c, i, n :
         m = Len(created) + k /\ c = rows[m].capture /\ i = rows[m].item /\ n = Len(revs[i]) + 1
  OBVIOUS
<1> DEFINE r == [item |-> i, n |-> n]
           new == [of |-> c, frozen |-> FALSE]
<1>1. /\ Serve(k) /\ pc = "serve" /\ Key(k) \notin DOMAIN replay
      /\ Chunk.rows[k] = rows[m] /\ m \in DOMAIN rows
      /\ Key(k) \in Keys /\ Number(Key(k)) = m
  BY <1>0, ServeFacts DEF Create, Serve
<1>2. /\ UNCHANGED <<published, members, edges, pc, results, rows, created, done, counters>>
      /\ revs' = [revs EXCEPT ![i] = Append(@, new)]
      /\ replay' = [key \in DOMAIN replay \cup {Key(k)} |->
                       IF key = Key(k) THEN r ELSE replay[key]]
      /\ reply' = Append(reply, r)
  BY <1>0, <1>1 DEF Create
<1>3. c \in Captures /\ i \in Items /\ c \notin Refused /\ Placed(c, i)
  <2>1. c \in Captures /\ i \in Items
    BY <1>0, <1>1, RowTypes DEF Inv
  <2>2. rows[m].capture \notin Refused /\ Placed(rows[m].capture, rows[m].item)
    BY <1>1 DEF Inv, RowsInv
  <2> QED
    BY <1>0, <2>1, <2>2
<1>4. revs \in [Items -> Seq(Revisions)] /\ revs[i] \in Seq(Revisions)
  BY <1>3 DEF Inv, StoreTypes
<1>5. new \in Revisions /\ c # 0
  BY <1>3, BatchFacts DEF Revisions
<1>6. /\ n \in Nat \ {0} /\ n - 1 = Len(revs[i]) /\ r \in Location
      /\ DOMAIN revs[i] = 1..(n - 1)
  BY <1>0, <1>3, <1>4 DEF Location
<1>7. /\ Append(revs[i], new) \in Seq(Revisions)
      /\ DOMAIN Append(revs[i], new) = DOMAIN revs[i] \cup {n}
      /\ Append(revs[i], new)[n] = new
      /\ \A j \in DOMAIN revs[i] : j # n /\ Append(revs[i], new)[j] = revs[i][j]
  BY <1>0, <1>4, <1>5, Appended
<1>8. /\ revs' \in [Items -> Seq(Revisions)]
      /\ revs'[i] = Append(revs[i], new)
      /\ \A j \in Items : j # i => revs'[j] = revs[j]
  BY <1>2, <1>3, <1>4, <1>7
<1> HIDE DEF r, new
<1>9. Grows
  BY <1>4, <1>7, <1>8 DEF Grows
<1>10. n \in DOMAIN revs'[i] /\ revs'[i][n] = new /\ new.of = c
  BY <1>7, <1>8 DEF new
<1>11. r.item = i /\ r.n = n
  BY DEF r
<1>12. SameOrFewer
  BY <1>2 DEF SameOrFewer, SameRows, counters
<1>13. Stored(r)' /\ Content(r)' = c
  <2>1. Content(r)' = c
    BY <1>10, <1>11 DEF Content
  <2>2. OnItsItem(c, r)'
    <3>1. CASE i = Batch[c].item
      BY <1>11, <3>1 DEF OnItsItem
    <3>2. CASE i # Batch[c].item
      <4>1. /\ ~Batch[c].revises /\ Within(c, i)
            /\ \E j \in DOMAIN revs[i] : Overlaps(Batch[c].text, Says(i, j).text)
        BY <1>3, <3>2 DEF Placed
      <4>2. PICK j \in 1..(n - 1) : Overlaps(Batch[c].text, Says(i, j).text)
        BY <1>6, <4>1
      <4>3. Says(i, j)' = Says(i, j)
        BY <1>3, <1>6, <1>9, SaysKept
      <4>4. Overlaps(Batch[c].text, Says(i, j)'.text)
        BY <4>2, <4>3
      <4> QED
        BY <1>11, <4>1, <4>2, <4>4 DEF OnItsItem, Within
    <3> QED
      BY <3>1, <3>2
  <2>3. OnItsItem(Content(r), r)'
    BY <2>1, <2>2 DEF OnItsItem, Within, Says
  <2>4. r.n \in DOMAIN revs'[r.item]
    BY <1>10, <1>11
  <2>5. Content(r)' \in Captures \ Refused
    BY <1>3, <2>1
  <2> QED
    BY <1>6, <2>1, <2>3, <2>4, <2>5 DEF Stored
<1>14. /\ DOMAIN replay' = DOMAIN replay \cup {Key(k)} /\ replay'[Key(k)] = r
       /\ \A key \in DOMAIN replay : key # Key(k) /\ replay'[key] = replay[key]
  BY <1>1, <1>2
<1>15. StoreTypes'
  <2>1. replay' \in [DOMAIN replay' -> Location]
    BY <1>2, <1>6, <1>14 DEF Inv, StoreTypes
  <2>2. \A j \in Items : published'[j] \in {None} \cup DOMAIN revs'[j]
    BY <1>2, <1>7, <1>8 DEF Inv, StoreTypes
  <2> QED
    BY <1>1, <1>2, <1>8, <1>14, <2>1, <2>2 DEF Inv, StoreTypes
<1>16. ASSUME NEW key \in DOMAIN replay
       PROVE  Stored(replay[key])' /\ Content(replay[key])' = Content(replay[key])
  <2>1. PICK q \in Location : q = replay[key]
    BY DEF Inv, StoreTypes
  <2>2. Stored(q)' /\ Content(q)' = Content(q)
    BY <1>9, <2>1, StoredKept DEF Inv, StoreInv
  <2>3. q = replay'[key]
    BY <1>14, <2>1
  <2>4. Stored(replay[key])'
    BY <2>2, <2>3 DEF Stored, Content, OnItsItem, Within, Says
  <2>5. Content(replay[key])' = Content(replay[key])
    BY <2>1, <2>2, <2>3 DEF Content
  <2> QED
    BY <2>4, <2>5
<1>17. StoreInv'
  <2>1. ASSUME NEW key \in DOMAIN replay'
        PROVE  Stored(replay[key])'
    <3>1. CASE key = Key(k)
      <4>1. replay'[key] = r
        BY <1>14, <3>1
      <4> QED
        BY <1>13, <4>1 DEF Stored, Content, OnItsItem, Within, Says
    <3>2. CASE key \in DOMAIN replay
      BY <1>16, <3>2
    <3> QED
      BY <1>14, <3>1, <3>2
  <2>2. ASSUME NEW j \in Items, NEW x \in DOMAIN revs'[j], revs'[j][x].of # 0
        PROVE  \E key \in DOMAIN replay' : replay'[key] = [item |-> j, n |-> x]
    <3>1. CASE j = i /\ x = n
      BY <1>14, <3>1 DEF r
    <3>2. CASE ~(j = i /\ x = n)
      <4>1. x \in DOMAIN revs[j] /\ revs'[j][x] = revs[j][x]
        BY <1>7, <1>8, <3>2
      <4>2. PICK key \in DOMAIN replay : replay[key] = [item |-> j, n |-> x]
        BY <2>2, <4>1 DEF Inv, StoreInv
      <4> QED
        BY <1>14, <4>2
    <3> QED
      BY <3>1, <3>2
  <2> QED
    BY <2>1, <2>2 DEF StoreInv
<1>18. KeysInv'
  <2>1. ASSUME NEW key \in DOMAIN replay'
        PROVE  /\ lookups' = 0 => Rank(Content(replay[key]))' = Number(key)
               /\ submissions' <= 1 => /\ Number(key) \in DOMAIN rows'
                                       /\ rows'[Number(key)].capture = Content(replay[key])'
    <3>1. CASE key = Key(k)
      <4>1. Content(replay[key])' = c
        <5>1. replay'[key] = r
          BY <1>14, <3>1
        <5> QED
          BY <1>13, <5>1 DEF Content
      <4>2. lookups' = 0 => Rank(c) = m
        BY <1>0, <1>1, <1>2 DEF Inv, RowsInv, counters
      <4>3. Rank(Content(replay[key]))' = Rank(c)
        BY <4>1 DEF Rank
      <4> QED
        BY <1>0, <1>1, <1>2, <3>1, <4>1, <4>2, <4>3
    <3>2. CASE key \in DOMAIN replay
      <4>1. Content(replay[key])' = Content(replay[key])
        BY <1>16, <3>2
      <4>2. Rank(Content(replay[key]))' = Rank(Content(replay[key]))
        BY <4>1 DEF Rank
      <4> QED
        BY <1>2, <3>2, <4>1, <4>2 DEF Inv, KeysInv, counters
    <3> QED
      BY <1>14, <3>1, <3>2
  <2> QED
    BY <2>1 DEF KeysInv, Number, Rank
<1>19. RowsInv' /\ CreatedInv'
  BY <1>2, <1>9, <1>12, RowsKept, CreatedKept DEF Inv, counters
<1>20. Owned(r, m)'
  <2>1. Content(r)' = rows'[m].capture
    BY <1>0, <1>2, <1>13
  <2> QED
    BY <1>13, <2>1 DEF Owned
<1>21. ReplyInv'
  <2>1. Owned(r, Len(created) + k)'
    <3>1. m = Len(created') + k
      BY <1>0, <1>2
    <3> QED
      BY <1>20, <3>1 DEF Owned, Stored, Content, OnItsItem, Within, Says
  <2> QED
    BY <1>1, <1>2, <1>6, <1>9, <1>12, <2>1, Replies
<1>22. PrepInv' /\ PhaseInv' /\ ResultsInv' /\ RecalledInv'
  BY <1>1, <1>2, <1>9, <1>12, CallKeeps DEF counters
<1> QED
  BY <1>15, <1>17, <1>18, <1>19, <1>21, <1>22 DEF Inv

\* The results of a call are those of the rows from its offset on.
LEMMA StepReceive == Inv /\ Receive => Inv'
<1> SUFFICES ASSUME Inv, Receive PROVE Inv'
  OBVIOUS
<1>1. /\ UNCHANGED <<server, results, rows, reply, done, counters>>
      /\ pc = "serve" /\ pc' = "write" /\ created' = created \o reply
      /\ Len(reply) = Len(Chunk.rows) /\ Len(created) < Len(rows)
  BY DEF Receive, Served, Inv, ReplyInv
<1>2. Settled
  BY <1>1, UnchangedSettles DEF Inv, server
<1>3. SameOrFewer
  BY <1>1 DEF SameOrFewer, SameRows, counters
<1>4. StoreTypes' /\ StoreInv' /\ KeysInv' /\ RowsInv' /\ ReplyInv'
  BY <1>1, <1>2, StoreKept, KeysKept, RowsKept, ReplyKept DEF Inv, Settled, counters
<1>5. CreatedInv'
  <2>1. /\ created \in Seq(Location \cup {Failed}) /\ reply \in Seq(Location \cup {Failed})
        /\ rows \in Seq(RowType)
    BY DEF Inv, CreatedInv, ReplyInv, RowsInv
  <2>2. /\ created' \in Seq(Location \cup {Failed})
        /\ Len(created') = Len(created) + Len(reply)
        /\ \A j \in DOMAIN created : created'[j] = created[j]
        /\ \A j \in DOMAIN reply : created'[Len(created) + j] = reply[j]
        /\ DOMAIN created' = 1..(Len(created) + Len(reply))
    <3>1. DOMAIN (created \o reply) = 1..(Len(created) + Len(reply))
      BY <2>1, Joined
    <3>2. /\ created \o reply \in Seq(Location \cup {Failed})
          /\ Len(created \o reply) = Len(created) + Len(reply)
      BY <2>1, Joined
    <3>3. /\ \A j \in DOMAIN created : (created \o reply)[j] = created[j]
          /\ \A j \in DOMAIN reply : (created \o reply)[Len(created) + j] = reply[j]
      BY <2>1, Joined
    <3> QED
      BY <1>1, <3>1, <3>2, <3>3
  <2>3. /\ Len(reply) \in Nat /\ Len(created) \in Nat
        /\ Len(created) + Len(reply) <= Len(rows)
        /\ Len(reply) = Limit \/ Len(created) + Len(reply) = Len(rows)
    BY <1>1, <2>1, ChunkRows DEF Inv
  <2>4. Len(created') < Len(rows) => Len(created') \in Starts
    <3>1. Len(created) + Limit \in Starts
      BY <1>1, NextStart DEF Inv, CreatedInv
    <3>2. Len(created') < Len(rows) => Len(reply) = Limit
      BY <2>2, <2>3
    <3> QED
      BY <2>2, <3>1, <3>2
  <2>5. ASSUME NEW j \in DOMAIN created'
        PROVE  Owned(created[j], j)'
    <3>1. CASE j \in DOMAIN created
      <4>1. PICK r \in Location \cup {Failed} : r = created[j]
        BY <2>1, <3>1
      <4>2. Owned(r, j)'
        BY <1>1, <1>2, <1>3, <3>1, <4>1, OwnedKept DEF Inv, CreatedInv, Settled
      <4>3. r = created'[j]
        BY <2>2, <3>1, <4>1
      <4> QED
        BY <4>2, <4>3 DEF Owned, Stored, Content, OnItsItem, Within, Says
    <3>2. CASE j \notin DOMAIN created
      <4>1. PICK x \in DOMAIN reply : j = Len(created) + x
        <5>1. j - Len(created) \in DOMAIN reply
          BY <2>1, <2>2, <2>3, <3>2
        <5> QED
          BY <2>2, <2>3, <5>1
      <4>2. PICK r \in Location \cup {Failed} : r = reply[x]
        BY <2>1
      <4>3. Owned(r, j)
        BY <1>1, <4>1, <4>2 DEF Inv, ReplyInv
      <4>4. Owned(r, j)'
        BY <1>1, <1>2, <1>3, <4>3, OwnedKept DEF Settled
      <4>5. r = created'[j]
        BY <2>2, <4>1, <4>2
      <4> QED
        BY <4>4, <4>5 DEF Owned, Stored, Content, OnItsItem, Within, Says
    <3> QED
      BY <3>1, <3>2
  <2> QED
    BY <1>1, <2>2, <2>3, <2>4, <2>5 DEF CreatedInv, Starts
<1>6. PrepInv' /\ PhaseInv' /\ ResultsInv' /\ RecalledInv'
  BY <1>1, <1>2, <1>3, CallKeeps DEF counters, Settled
<1> QED
  BY <1>4, <1>5, <1>6 DEF Inv

---------------------------------------------------------------------------
(* The answers. *)

\* `published` now is on what the row created.
Moves(j) ==
    SameRows => published'[j] \in DOMAIN revs[j] /\ revs[j][published'[j]].of = Row.capture

LEMMA RowFacts ==
    ASSUME Inv, pc = "post", done < Len(rows)
    PROVE  /\ done + 1 \in DOMAIN rows /\ Row = rows[done + 1] /\ done \in Nat
           /\ Row.capture \in Captures \ Refused /\ Row.item \in Items
           /\ Placed(Row.capture, Row.item)
           /\ Row.was => Batch[Row.capture].revises
           /\ Revision \in Location \cup {Failed}
           /\ Revision # Failed => /\ Revision \in Location /\ Stored(Revision)
                                   /\ SameRows => Content(Revision) = Row.capture
<1>1. done \in Nat /\ Len(created) = Len(rows)
  BY DEF Inv, PhaseInv
<1>2. done + 1 \in DOMAIN rows /\ rows[done + 1] \in RowType
  BY <1>1 DEF Inv, RowsInv
<1>3. done + 1 \in DOMAIN created /\ created[done + 1] \in Location \cup {Failed}
  BY <1>1 DEF Inv, CreatedInv
<1>4. Owned(created[done + 1], done + 1)
  BY <1>3 DEF Inv, CreatedInv
<1> QED
  BY <1>1, <1>2, <1>3, <1>4 DEF Row, Revision, Owned, RowType, Inv, RowsInv

\* The answer of a row is its capture's, and leaves what earlier rows published or puts
\* the row's own revision in its place.
LEMMA StepAnswer ==
    ASSUME Inv, pc = "post", done < Len(rows), NEW a \in Location \cup {Failed}, Answer(a),
           Settled,
           a # Failed => Stored(a) /\ (SameRows => Content(a) = Row.capture),
           \A j \in Items : published'[j] = published[j] \/ Moves(j),
           Row.was /\ a # Failed => Moves(Row.item)
    PROVE  Inv'
<1> DEFINE m == done + 1
           c == rows[m].capture
<1>1. /\ results' = [results EXCEPT ![c] = a] /\ done' = m
      /\ UNCHANGED <<replay, pc, rows, created, reply, submissions, lookups>>
  BY DEF Answer, Row
<1>2. m \in DOMAIN rows /\ c \in Captures \ Refused /\ done \in Nat
  BY RowFacts DEF Row
<1>3. Ledger' /\ SameOrFewer /\ ReplyInv'
  BY <1>1, WrittenKept, ReplyKept DEF Inv
<1>4. PrepInv'
  BY <1>1 DEF PrepInv
<1>5. PhaseInv'
  BY <1>1, <1>2 DEF Inv, PhaseInv, RowsInv
<1>6. /\ results' \in [Captures -> Location \cup {Open, Failed}] /\ results'[c] = a
      /\ \A d \in Captures : d # c => results'[d] = results[d]
  BY <1>1, <1>2 DEF Inv, ResultsInv
<1>7. a # Open
  BY DEF Location, Open, Failed, None
<1>8. ResultsInv'
  <2>1. ASSUME NEW d \in Captures
        PROVE  Accounted(d)' /\ Answered(d)'
    <3>1. CASE d = c
      <4>1. results'[d] = a
        BY <1>6, <3>1
      <4>2. a # Failed /\ SameRows' => Stored(a)' /\ Content(a)' = d
        BY <1>3, <3>1, StoredKept DEF SameOrFewer, Settled, Row
      <4>3. Answered(d)'
        <5> SUFFICES ASSUME a # Failed, SameRows'
                     PROVE  d \notin Refused /\ Stored(results[d])' /\ Content(results[d])' = d
          BY <4>1 DEF Answered, Open, Failed, None
        <5>1. Stored(results[d])'
          BY <4>1, <4>2 DEF Stored, Content, OnItsItem, Within, Says
        <5>2. Content(results[d])' = d
          BY <4>1, <4>2 DEF Content
        <5> QED
          BY <1>2, <3>1, <5>1, <5>2
      <4>4. results'[d] # Open
        BY <1>7, <4>1
      <4>5. Accounted(d)'
        BY <4>4 DEF Accounted, Open, None
      <4> QED
        BY <4>3, <4>5
    <3>2. CASE d # c
      <4>1. results'[d] = results[d] /\ Accounted(d)
        BY <1>6, <3>2 DEF Inv, ResultsInv
      <4>2. Answered(d)'
        BY <1>3, <4>1, AnsweredKept DEF Inv, Settled
      <4>3. Accounted(d)'
        <5>1. CASE results[d] # Open
          BY <4>1, <5>1 DEF Accounted
        <5>2. CASE results[d] = Open
          <6>1. PICK k \in DOMAIN rows : rows[k].capture = d /\ k > done
            BY <4>1, <5>2 DEF Accounted
          <6>2. k # m /\ k \in Nat
            BY <3>2, <6>1 DEF Inv, RowsInv
          <6>3. k > m
            BY <1>2, <6>1, <6>2
          <6> QED
            BY <1>1, <6>1, <6>3 DEF Accounted
        <5> QED
          BY <5>1, <5>2
      <4> QED
        BY <4>2, <4>3
    <3> QED
      BY <3>1, <3>2
  <2> QED
    BY <1>6, <2>1 DEF ResultsInv
<1>9. RecalledInv'
  <2> SUFFICES ASSUME SameRows', NEW k \in DOMAIN rows, k <= m, rows[k].was,
                      results'[rows[k].capture] # Failed
               PROVE  /\ published'[rows[k].item] \in DOMAIN revs'[rows[k].item]
                      /\ revs'[rows[k].item][published'[rows[k].item]].of >= rows[k].capture
    BY <1>1 DEF RecalledInv
  <2> DEFINE i == rows[k].item
             d == rows[k].capture
  <2>1. i \in Items /\ d \in Captures /\ d \in Nat /\ c \in Nat /\ SameRows /\ k \in Nat
    BY <1>2, <1>3, RowTypes DEF Inv, SameOrFewer
  <2>2. \A x \in DOMAIN revs[i] : x \in DOMAIN revs'[i] /\ revs'[i][x].of = revs[i][x].of
    BY <2>1 DEF Settled, Grows
  <2>3. d <= c
    BY <1>2, <2>1 DEF Inv, RowsInv
  <2>4. CASE Moves(i)
    <3>1. published'[i] \in DOMAIN revs[i] /\ revs[i][published'[i]].of = c
      BY <2>1, <2>4 DEF Moves, Row
    <3> QED
      BY <2>1, <2>2, <2>3, <3>1
  <2>5. CASE ~Moves(i)
    <3>1. published'[i] = published[i]
      BY <2>1, <2>5
    <3>2. k # m
      BY <1>6, <2>5 DEF Row
    <3>3. k <= done /\ d < c
      BY <1>2, <2>1, <3>2 DEF Inv, RowsInv
    <3>4. results[d] # Failed
      BY <1>6, <2>1, <3>3
    <3>5. published[i] \in DOMAIN revs[i] /\ revs[i][published[i]].of >= d
      BY <2>1, <3>3, <3>4 DEF Inv, RecalledInv
    <3> QED
      BY <2>2, <3>1, <3>5
  <2> QED
    BY <2>4, <2>5
<1> QED
  BY <1>3, <1>4, <1>5, <1>8, <1>9 DEF Inv, Ledger

LEMMA StepAnswerRejected == Inv /\ AnswerRejected => Inv'
<1> SUFFICES ASSUME Inv, AnswerRejected PROVE Inv'
  OBVIOUS
<1>1. /\ pc = "post" /\ done < Len(rows) /\ Answer(Failed)
      /\ UNCHANGED <<revs, published, replay>>
  BY DEF AnswerRejected, Answer
<1>2. Settled
  BY <1>1, UnchangedSettles DEF Inv, store
<1>3. \A j \in Items : published'[j] = published[j]
  BY <1>1
<1> QED
  BY <1>1, <1>2, <1>3, StepAnswer

\* A tag moves to the row's own revision, or none does.
LEMMA AnswerTags ==
    ASSUME Inv, pc = "post", done < Len(rows), Revision # Failed, replay' = replay,
           TagPublished(Revision) \/ UNCHANGED <<revs, published>>
    PROVE  /\ Settled
           /\ \A j \in Items : published'[j] = published[j] \/ Moves(j)
           /\ TagPublished(Revision) => Moves(Revision.item)
<1>1. /\ Revision \in Location /\ Stored(Revision)
      /\ SameRows => Content(Revision) = Row.capture
  BY RowFacts
<1>2. CASE TagPublished(Revision)
  <2>1. PICK r \in Location : r = Revision
    BY <1>1
  <2>2. r.n \in DOMAIN revs[r.item] /\ r.item \in Items /\ TagPublished(r)
    BY <1>1, <1>2, <2>1 DEF Stored, Location, TagPublished
  <2>3. Settled /\ published' = [published EXCEPT ![r.item] = r.n]
    BY <2>2, TagSettles DEF Inv
  <2>4. published \in [Items -> Nat]
    BY DEF Inv, StoreTypes
  <2>5. published'[r.item] = r.n /\ \A j \in Items : j # r.item => published'[j] = published[j]
    BY <2>2, <2>3, <2>4
  <2>6. Moves(r.item)
    BY <1>1, <2>1, <2>2, <2>5 DEF Moves, Content
  <2> QED
    BY <2>1, <2>3, <2>5, <2>6
<1>3. CASE UNCHANGED <<revs, published>>
  <2>1. Settled
    BY <1>3, UnchangedSettles DEF Inv, store
  <2>2. TagPublished(Revision) => Moves(Revision.item)
    BY <1>2
  <2> QED
    BY <1>3, <2>1, <2>2
<1> QED
  BY <1>2, <1>3

LEMMA StepAnswerNew == Inv /\ AnswerNew => Inv'
<1> SUFFICES ASSUME Inv, AnswerNew PROVE Inv'
  OBVIOUS
<1>1. /\ pc = "post" /\ done < Len(rows) /\ Revision # Failed /\ replay' = replay
      /\ ~Batch[Row.capture].revises /\ Answer(Revision)
      /\ TagPublished(Revision) \/ UNCHANGED <<revs, published>>
  BY DEF AnswerNew, Answer
<1>2. /\ Settled
      /\ \A j \in Items : published'[j] = published[j] \/ Moves(j)
  BY <1>1, AnswerTags
<1>3. /\ ~Row.was /\ Revision \in Location /\ Stored(Revision)
      /\ SameRows => Content(Revision) = Row.capture
  BY <1>1, RowFacts
<1> QED
  BY <1>1, <1>2, <1>3, StepAnswer

\* A correction lies on the item its row was prepared for.
LEMMA StepAnswerRevised == Inv /\ AnswerRevised => Inv'
<1> SUFFICES ASSUME Inv, AnswerRevised PROVE Inv'
  OBVIOUS
<1>1. /\ pc = "post" /\ done < Len(rows) /\ Revision # Failed /\ replay' = replay
      /\ Batch[Row.capture].revises /\ Answer(Revision)
      /\ TagPublished(Revision) \/ UNCHANGED <<revs, published>>
      /\ Row.was => TagPublished(Revision)
  BY DEF AnswerRevised, Answer
<1>2. /\ Settled
      /\ \A j \in Items : published'[j] = published[j] \/ Moves(j)
      /\ Row.was => Moves(Revision.item)
  BY <1>1, AnswerTags
<1>3. /\ Revision \in Location /\ Stored(Revision) /\ Placed(Row.capture, Row.item)
      /\ SameRows => Content(Revision) = Row.capture
  BY <1>1, RowFacts
<1>4. Row.item = Batch[Row.capture].item
  BY <1>1, <1>3 DEF Placed
<1>5. SameRows => Revision.item = Batch[Row.capture].item
  <2>1. OnItsItem(Content(Revision), Revision)
    BY <1>3 DEF Stored
  <2> QED
    BY <1>1, <1>3, <2>1 DEF OnItsItem
<1>6. Row.was => Moves(Row.item)
  BY <1>2, <1>4, <1>5 DEF Moves
<1> QED
  BY <1>1, <1>2, <1>3, <1>6, StepAnswer

LEMMA StepAnswerNotMoved == Inv /\ AnswerNotMoved => Inv'
<1> SUFFICES ASSUME Inv, AnswerNotMoved PROVE Inv'
  OBVIOUS
<1>1. /\ pc = "post" /\ done < Len(rows) /\ Revision # Failed /\ replay' = replay
      /\ Answer(Failed)
      /\ TagPublished(Revision) \/ UNCHANGED <<revs, published>>
  BY DEF AnswerNotMoved, Answer
<1>2. /\ Settled
      /\ \A j \in Items : published'[j] = published[j] \/ Moves(j)
  BY <1>1, AnswerTags
<1> QED
  BY <1>1, <1>2, StepAnswer

---------------------------------------------------------------------------
LEMMA InvInit == Init => Inv
<1> SUFFICES ASSUME Init PROVE Inv
  OBVIOUS
<1> USE DEF Init
<1>1. \A i \in Items : \A n \in DOMAIN revs[i] : n = 1 /\ revs[i][n].of = 0
  BY DEF OlderRevision
<1>2. revs \in [Items -> Seq(Revisions)]
  <2>1. \A b \in BOOLEAN : OlderRevision(b) \in Seq(Revisions)
    BY DEF OlderRevision, Revisions
  <2>2. <<>> \in Seq(Revisions)
    BY Zenon, EmptySeq
  <2> QED
    BY <2>1, <2>2
<1>3. StoreTypes
  <2>1. \A i \in Items : published[i] \in {None} \cup DOMAIN revs[i] /\ published[i] \in Nat
    BY DEF OlderRevision, None
  <2>2. DOMAIN replay = {} /\ replay \in [{} -> Location]
    OBVIOUS
  <2> QED
    BY <1>2, <2>1, <2>2 DEF StoreTypes
<1>4. StoreInv /\ KeysInv
  BY <1>1 DEF StoreInv, KeysInv
<1>5. Len(rows) = 0 /\ Len(created) = 0 /\ DOMAIN rows = {} /\ DOMAIN created = {}
  OBVIOUS
<1>6. RowsInv /\ PrepInv /\ CreatedInv /\ ReplyInv
  BY <1>5 DEF RowsInv, PrepInv, CreatedInv, ReplyInv
<1>7. PhaseInv
  BY DEF PhaseInv
<1>8. ResultsInv
  <2>1. \A c \in Captures : Answered(c)
    BY DEF Answered
  <2> QED
    BY <2>1 DEF ResultsInv
<1>9. RecalledInv
  BY DEF RecalledInv
<1> QED
  BY <1>3, <1>4, <1>6, <1>7, <1>8, <1>9 DEF Inv

LEMMA InvStutter == Inv /\ UNCHANGED vars => Inv'
<1> SUFFICES ASSUME Inv, UNCHANGED vars PROVE Inv'
  OBVIOUS
<1> USE DEF vars, server, store, counters
<1>1. Settled
  BY UnchangedSettles DEF Inv
<1>2. Ledger' /\ SameOrFewer
  BY <1>1, WrittenKept
<1>3. PrepInv' /\ PhaseInv' /\ RecalledInv'
  BY DEF Inv, PrepInv, PhaseInv, RecalledInv, Rank, SameRows
<1>4. ReplyInv'
  <2>1. pc = "serve" => \A k \in DOMAIN reply : Owned(reply[k], Len(created) + k)'
    BY DEF Inv, ReplyInv, Owned, Stored, Content, OnItsItem, Within, Says, SameRows
  <2>2. Chunk' = Chunk
    BY DEF Chunk, RowsFrom
  <2> QED
    BY <2>1, <2>2 DEF Inv, ReplyInv
<1>5. ResultsInv'
  <2>1. \A c \in Captures : Answered(c)'
    BY <1>1, <1>2, AnsweredKept DEF Inv, Settled
  <2> QED
    BY <2>1 DEF Inv, ResultsInv, Accounted
<1> QED
  BY <1>2, <1>3, <1>4, <1>5 DEF Inv, Ledger

\* The rows, the chunks, the keys and the answers of every batch keep to their captures,
\* whatever is refused, rejected, lost or submitted again.
THEOREM BatchInvariant == Spec => []Inv
<1>1. Inv /\ [Next]_vars => Inv'
  <2> SUFFICES ASSUME Inv, [Next]_vars PROVE Inv'
    OBVIOUS
  <2>1. CASE Submit
    BY <2>1, StepSubmit
  <2>2. CASE Refuse \/ Unresolved
    BY <2>2, StepFails
  <2>3. CASE PrepareRaises \/ WriteLost \/ WriteRaises
    BY <2>3, StepWaits
  <2>4. CASE Prepared \/ Written \/ Return
    BY <2>4, StepTurns
  <2>5. ASSUME NEW c \in Captures, PrepareRevise(c) \/ Mint(c)
        PROVE  Inv'
    BY <2>5, StepPrepareRevise, StepMint
  <2>6. ASSUME NEW c \in Captures, NEW i \in Items, Stack(c, i)
        PROVE  Inv'
    BY <2>6, StepStack
  <2>7. CASE Write
    BY <2>7, StepWrite
  <2>8. CASE Receive
    BY <2>8, StepReceive
  <2>9. ASSUME NEW k, Replay(k) \/ Reject(k) \/ Create(k)
        PROVE  Inv'
    BY <2>9, StepReplay, StepReject, StepCreate
  <2>10. CASE AnswerRejected \/ AnswerNew
    BY <2>10, StepAnswerRejected, StepAnswerNew
  <2>11. CASE AnswerRevised \/ AnswerNotMoved
    BY <2>11, StepAnswerRevised, StepAnswerNotMoved
  <2>12. CASE UNCHANGED vars
    BY <2>12, InvStutter
  <2> QED
    BY <2>1, <2>2, <2>3, <2>4, <2>5, <2>6, <2>7, <2>8, <2>9, <2>10, <2>11, <2>12 DEF Next
<1> QED
  BY InvInit, <1>1, PTL DEF Spec

\* The answer of each capture is its own, on the item it belongs to, and none is left
\* open: over chunks, refused and unresolved captures, rejected rows, lost answers and
\* submissions that raised.
THEOREM OwnAnswers == Spec => []AnswersAreOwn
<1>1. Inv => AnswersAreOwn
  <2> SUFFICES ASSUME Inv, SameRows, NEW c \in Captures
               PROVE  /\ results[c] \notin {Open, Failed} =>
                            /\ c \notin Refused
                            /\ revs[results[c].item][results[c].n].of = c
                            /\ OnItsItem(c, results[c])
                      /\ pc = "returned" => results[c] # Open
    BY DEF AnswersAreOwn
  <2>1. Answered(c) /\ (pc = "returned" => Accounted(c))
    BY DEF Inv, ResultsInv
  <2>2. ASSUME results[c] \notin {Open, Failed}
        PROVE  /\ c \notin Refused /\ revs[results[c].item][results[c].n].of = c
               /\ OnItsItem(c, results[c])
    <3>1. c \notin Refused /\ Stored(results[c]) /\ Content(results[c]) = c
      BY <2>1, <2>2 DEF Answered
    <3> QED
      BY <3>1 DEF Stored, Content
  <2>3. pc = "returned" => results[c] # Open
    BY <2>1 DEF Accounted
  <2> QED
    BY <2>2, <2>3
<1> QED
  BY BatchInvariant, <1>1, PTL

\* No capture is written twice, however often its row is sent, as long as every
\* submission finds the items its captures name.
THEOREM OnceWritten == Spec => []WrittenOnce
<1>1. Inv => WrittenOnce
  <2> SUFFICES ASSUME Inv, SameRows, NEW i \in Items, NEW j \in Items,
                      NEW m \in DOMAIN revs[i], NEW n \in DOMAIN revs[j],
                      revs[i][m].of = revs[j][n].of, revs[i][m].of # 0
               PROVE  i = j /\ m = n
    BY DEF WrittenOnce, NoneTwice
  <2>1. PICK a \in DOMAIN replay : replay[a] = [item |-> i, n |-> m]
    BY DEF Inv, StoreInv
  <2>2. PICK b \in DOMAIN replay : replay[b] = [item |-> j, n |-> n]
    BY DEF Inv, StoreInv
  <2>3. Content(replay[a]) = Content(replay[b])
    BY <2>1, <2>2 DEF Content
  <2>4. a \in Keys /\ b \in Keys
    BY DEF Inv, StoreTypes
  <2>5. Number(a) = Number(b)
    <3>1. CASE lookups = 0
      BY <2>3, <3>1 DEF Inv, KeysInv
    <3>2. CASE submissions <= 1
      <4>1. /\ Number(a) \in DOMAIN rows /\ Number(b) \in DOMAIN rows
            /\ rows[Number(a)].capture = rows[Number(b)].capture
        BY <2>3, <3>2 DEF Inv, KeysInv
      <4>2. Number(a) \in Nat /\ Number(b) \in Nat /\ rows[Number(a)].capture \in Nat
        BY <4>1, RowTypes DEF Inv
      <4>3. ~(Number(a) < Number(b)) /\ ~(Number(b) < Number(a))
        BY <4>1, <4>2 DEF Inv, RowsInv
      <4> QED
        BY <4>2, <4>3
    <3> QED
      BY <3>1, <3>2 DEF SameRows
  <2>6. a = b
    BY <2>4, <2>5, KeysDiffer
  <2> QED
    BY <2>1, <2>2, <2>6
<1> QED
  BY BatchInvariant, <1>1, PTL

\* When the batch returns, a correction that was to carry `published` forward is what
\* recall finds, or a later capture is.
THEOREM CorrectionsRecalled == Spec => []CorrectionsAreRecalled
<1>1. Inv => CorrectionsAreRecalled
  BY DEF Inv, RecalledInv, CorrectionsAreRecalled
<1> QED
  BY BatchInvariant, <1>1, PTL
===========================================================================
