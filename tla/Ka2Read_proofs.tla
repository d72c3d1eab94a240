--------------------------- MODULE Ka2Read_proofs ---------------------------
(***************************************************************************)
(* Proofs about the reads of the KA2 preview, for any threads, requests,   *)
(* contents of 1C, sizes of chunks and pages, failures and edits.          *)
(***************************************************************************)
EXTENDS Ka2Read, SequenceTheorems, FiniteSetTheorems, TLAPS

---------------------------------------------------------------------------
(* Sequences: what Pick, a page, a chunk and the halves of a part hold.    *)

(* The places picked are counted off one by one, in order.                 *)
LEMMA NthIs ==
    ASSUME NEW n \in Nat, NEW I \in SUBSET (1 .. n)
    PROVE  /\ IsFiniteSet(I) /\ Cardinality(I) \in Nat
           /\ \A k \in 1 .. Cardinality(I) : Nth(I, k) \in I
           /\ \A i \in I : \E k \in 1 .. Cardinality(I) : Nth(I, k) = i
           /\ \A k, l \in 1 .. Cardinality(I) : Nth(I, k) = Nth(I, l) => k = l
<1> DEFINE C == Cardinality(I)
           Upto(i) == {j \in I : j <= i}
           rank == [i \in I |-> Cardinality(Upto(i))]
<1>1. IsFiniteSet(I) /\ C \in Nat
  <2>1. IsFiniteSet(1 .. n)
    BY FS_Interval
  <2>2. IsFiniteSet(I)
    BY <2>1, FS_Subset
  <2>3. QED
    BY <2>2, FS_CardinalityType
<1>2. \A i \in I : rank[i] \in 1 .. C
  <2>1. SUFFICES ASSUME NEW i \in I PROVE rank[i] \in 1 .. C
    OBVIOUS
  <2>2. Upto(i) \in SUBSET I /\ i \in Upto(i)
    OBVIOUS
  <2>3. IsFiniteSet(Upto(i)) /\ Cardinality(Upto(i)) <= C /\ Cardinality(Upto(i)) \in Nat
    BY <1>1, <2>2, FS_Subset, FS_CardinalityType
  <2>4. Cardinality(Upto(i)) # 0
    BY <2>2, <2>3, FS_EmptySet
  <2>5. QED
    BY <1>1, <2>3, <2>4
<1>3. \A i, j \in I : i < j => rank[i] < rank[j]
  <2>1. SUFFICES ASSUME NEW i \in I, NEW j \in I, i < j PROVE rank[i] < rank[j]
    OBVIOUS
  <2>2. ASSUME NEW x \in Upto(i) PROVE x \in Upto(j)
    <3>1. x \in I /\ x <= i /\ x \in Int /\ i \in Int /\ j \in Int
      OBVIOUS
    <3>2. x <= j
      BY <2>1, <3>1
    <3>3. QED
      BY <3>1, <3>2
  <2>5. j \in Upto(j) /\ j \notin Upto(i)
    BY <2>1
  <2>3. IsFiniteSet(Upto(j))
    BY <1>1, FS_Subset
  <2>4. Cardinality(Upto(i)) <= Cardinality(Upto(j)) /\ Cardinality(Upto(i)) # Cardinality(Upto(j))
    BY <2>2, <2>3, <2>5, FS_Subset
  <2>6. QED
    BY <1>1, <1>2, <2>4
<1>4. \A i, j \in I : rank[i] = rank[j] => i = j
  <2>1. SUFFICES ASSUME NEW i \in I, NEW j \in I, i # j PROVE rank[i] # rank[j]
    OBVIOUS
  <2>2. i < j \/ j < i
    BY <2>1
  <2>3. rank[i] \in Nat /\ rank[j] \in Nat
    BY <1>1, <1>2
  <2> HIDE DEF rank
  <2>4. QED
    BY <1>3, <2>2, <2>3
<1>5. rank \in Injection(I, 1 .. C)
  <2>1. rank \in [I -> 1 .. C]
    BY <1>2
  <2> HIDE DEF rank
  <2>2. QED
    BY <1>4, <2>1 DEF Injection, IsInjective
<1>6. rank \in Surjection(I, 1 .. C)
  <2>1. IsFiniteSet(1 .. C) /\ Cardinality(1 .. C) = C
    BY <1>1, FS_Interval
  <2>2. QED
    BY <1>1, <1>5, <2>1, FS_Injection
<1>7. \A k \in 1 .. C : \E i \in I : rank[i] = k
  BY <1>6 DEF Surjection
<1>8. \A k \in 1 .. C : Nth(I, k) \in I /\ rank[Nth(I, k)] = k
  BY <1>7 DEF Nth
<1>9. \A i \in I : Nth(I, rank[i]) = i
  BY <1>2, <1>4, <1>8
<1> HIDE DEF rank
<1>10. QED
  BY <1>1, <1>2, <1>8, <1>9

LEMMA PickIs ==
    ASSUME NEW S, NEW rows \in Seq(S), NEW I \in SUBSET (DOMAIN rows)
    PROVE  /\ Pick(rows, I) \in Seq(S)
           /\ \A k \in DOMAIN Pick(rows, I) : \E i \in I : Pick(rows, I)[k] = rows[i]
           /\ \A i \in I : \E k \in DOMAIN Pick(rows, I) : Pick(rows, I)[k] = rows[i]
           /\ \A k, l \in DOMAIN Pick(rows, I) :
                k # l => \E i, j \in I : i # j /\ Pick(rows, I)[k] = rows[i] /\ Pick(rows, I)[l] = rows[j]
<1> DEFINE C == Cardinality(I)
<1>1. DOMAIN rows = 1 .. Len(rows) /\ Len(rows) \in Nat /\ \A i \in DOMAIN rows : rows[i] \in S
  OBVIOUS
<1>2. /\ C \in Nat
      /\ \A k \in 1 .. C : Nth(I, k) \in I
      /\ \A i \in I : \E k \in 1 .. C : Nth(I, k) = i
      /\ \A k, l \in 1 .. C : Nth(I, k) = Nth(I, l) => k = l
  <2>1. I \in SUBSET (1 .. Len(rows))
    BY <1>1
  <2>2. QED
    BY <1>1, <2>1, NthIs
<1>3. DOMAIN Pick(rows, I) = 1 .. C /\ \A k \in 1 .. C : Pick(rows, I)[k] = rows[Nth(I, k)]
  BY DEF Pick
<1>4. Pick(rows, I) \in [1 .. C -> S]
  BY <1>1, <1>2 DEF Pick
<1>5. Pick(rows, I) \in Seq(S)
  BY <1>2, <1>4, SeqDef
<1> DEFINE f == Pick(rows, I)
<1> HIDE DEF f, C
<1>6. DOMAIN f = 1 .. C /\ \A k \in 1 .. C : f[k] = rows[Nth(I, k)]
  BY <1>3 DEF f
<1> HIDE DEF C
<1>7. \A k \in DOMAIN f : \E i \in I : f[k] = rows[i]
  BY <1>2, <1>6
<1>8. \A i \in I : \E k \in DOMAIN f : f[k] = rows[i]
  BY <1>2, <1>6
<1>9. ASSUME NEW k \in DOMAIN f, NEW l \in DOMAIN f, k # l
      PROVE  \E i, j \in I : i # j /\ f[k] = rows[i] /\ f[l] = rows[j]
  BY <1>2, <1>6, <1>9
<1>10. QED
  BY <1>5, <1>7, <1>8, <1>9 DEF f

(* The rows that match a filter: all of them, and no other.                *)
Filtered(b, part) == Pick(b, {i \in DOMAIN b : HasKey(part, b[i].key)})

LEMMA FilteredIs ==
    ASSUME NEW S, NEW b \in Seq(S), NEW part
    PROVE  /\ Filtered(b, part) \in Seq(S)
           /\ \A k \in DOMAIN Filtered(b, part) :
                HasKey(part, Filtered(b, part)[k].key) /\ \E i \in DOMAIN b : Filtered(b, part)[k] = b[i]
           /\ \A i \in DOMAIN b : HasKey(part, b[i].key)
                => \E k \in DOMAIN Filtered(b, part) : Filtered(b, part)[k] = b[i]
           /\ Distinct(b) => Distinct(Filtered(b, part))
<1> DEFINE I == {i \in DOMAIN b : HasKey(part, b[i].key)}
           f == Filtered(b, part)
<1>1. f = Pick(b, I) /\ I \in SUBSET (DOMAIN b) /\ \A i \in I : HasKey(part, b[i].key)
  BY DEF Filtered
<1>2. \A i \in DOMAIN b : HasKey(part, b[i].key) => i \in I
  OBVIOUS
<1> HIDE DEF I, f
<1>3. /\ f \in Seq(S)
      /\ \A k \in DOMAIN f : \E i \in I : f[k] = b[i]
      /\ \A i \in I : \E k \in DOMAIN f : f[k] = b[i]
      /\ \A k, l \in DOMAIN f : k # l => \E i, j \in I : i # j /\ f[k] = b[i] /\ f[l] = b[j]
  BY <1>1, PickIs
<1>4. Distinct(b) => Distinct(f)
  BY <1>1, <1>3 DEF Distinct
<1>5. QED
  BY <1>1, <1>2, <1>3, <1>4 DEF f

LEMMA KeptIs ==
    ASSUME NEW S, NEW rows \in Seq(S)
    PROVE  /\ Kept(rows) \in Seq(S)
           /\ \A k \in DOMAIN Kept(rows) : \E i \in DOMAIN rows : Kept(rows)[k] = rows[i]
           /\ \A i \in DOMAIN rows : rows[i].good => \E k \in DOMAIN Kept(rows) : Kept(rows)[k] = rows[i]
           /\ Distinct(rows) => Distinct(Kept(rows))
<1> DEFINE I == {i \in DOMAIN rows : rows[i].good}
           f == Kept(rows)
<1>1. f = Pick(rows, I) /\ I \in SUBSET (DOMAIN rows) /\ \A i \in DOMAIN rows : rows[i].good => i \in I
  BY DEF Kept
<1> HIDE DEF I, f
<1>2. /\ f \in Seq(S)
      /\ \A k \in DOMAIN f : \E i \in I : f[k] = rows[i]
      /\ \A i \in I : \E k \in DOMAIN f : f[k] = rows[i]
      /\ \A k, l \in DOMAIN f : k # l => \E i, j \in I : i # j /\ f[k] = rows[i] /\ f[l] = rows[j]
  BY <1>1, PickIs
<1>3. Distinct(rows) => Distinct(f)
  BY <1>1, <1>2 DEF Distinct
<1>4. QED
  BY <1>1, <1>2, <1>3 DEF f

(* No analytic key comes out twice, and none is lost if none came twice.   *)
LEMMA UniqueIs ==
    ASSUME NEW S, NEW rows \in Seq(S)
    PROVE  /\ Unique(rows) \in Seq(S)
           /\ \A k \in DOMAIN Unique(rows) : \E i \in DOMAIN rows : Unique(rows)[k] = rows[i]
           /\ \A k, l \in DOMAIN Unique(rows) : Unique(rows)[k].val.ref = Unique(rows)[l].val.ref => k = l
           /\ (\A i, j \in DOMAIN rows : rows[i].val.ref = rows[j].val.ref => i = j)
                => \A i \in DOMAIN rows : \E k \in DOMAIN Unique(rows) : Unique(rows)[k] = rows[i]
<1> DEFINE First(i) == \A j \in 1 .. i - 1 : rows[j].val.ref # rows[i].val.ref
           I == {i \in DOMAIN rows : First(i)}
           f == Unique(rows)
<1>1. DOMAIN rows = 1 .. Len(rows) /\ Len(rows) \in Nat
  OBVIOUS
<1>2. f = Pick(rows, I) /\ I \in SUBSET (DOMAIN rows)
  BY DEF Unique
<1>3. \A i, j \in I : rows[i].val.ref = rows[j].val.ref => i = j
  <2>1. SUFFICES ASSUME NEW i \in I, NEW j \in I, i < j PROVE rows[i].val.ref # rows[j].val.ref
    BY <1>1
  <2>2. i \in 1 .. j - 1 /\ First(j)
    BY <1>1, <2>1
  <2>3. QED
    BY <2>2
<1>4. (\A i, j \in DOMAIN rows : rows[i].val.ref = rows[j].val.ref => i = j) => \A i \in DOMAIN rows : i \in I
  <2>1. SUFFICES ASSUME \A i, j \in DOMAIN rows : rows[i].val.ref = rows[j].val.ref => i = j,
                        NEW i \in DOMAIN rows, NEW j \in 1 .. i - 1
                 PROVE  rows[j].val.ref # rows[i].val.ref
    OBVIOUS
  <2>2. j \in DOMAIN rows /\ j # i
    BY <1>1
  <2>3. QED
    BY <2>1, <2>2
<1> HIDE DEF I, f
<1>5. /\ f \in Seq(S)
      /\ \A k \in DOMAIN f : \E i \in I : f[k] = rows[i]
      /\ \A i \in I : \E k \in DOMAIN f : f[k] = rows[i]
      /\ \A k, l \in DOMAIN f : k # l => \E i, j \in I : i # j /\ f[k] = rows[i] /\ f[l] = rows[j]
  BY <1>2, PickIs
<1>6. \A k, l \in DOMAIN f : f[k].val.ref = f[l].val.ref => k = l
  <2>1. SUFFICES ASSUME NEW k \in DOMAIN f, NEW l \in DOMAIN f, k # l
                 PROVE  f[k].val.ref # f[l].val.ref
    OBVIOUS
  <2>2. PICK i \in I, j \in I : i # j /\ f[k] = rows[i] /\ f[l] = rows[j]
    BY <1>5, <2>1
  <2>3. QED
    BY <1>3, <2>2
<1>7. QED
  BY <1>2, <1>4, <1>5, <1>6 DEF f

(* A part of a sequence, from the place after `skip' on.                   *)
Stretch(s, skip, n) == SubSeq(s, skip + 1, Lesser(skip + n, Len(s)))

LEMMA StretchIs ==
    ASSUME NEW S, NEW s \in Seq(S), NEW skip \in Nat, NEW n \in Nat \ {0}
    PROVE  /\ Stretch(s, skip, n) \in Seq(S)
           /\ Len(Stretch(s, skip, n)) \in Nat
           /\ DOMAIN Stretch(s, skip, n) = 1 .. Len(Stretch(s, skip, n))
           /\ \A i \in DOMAIN Stretch(s, skip, n) :
                skip + i \in DOMAIN s /\ Stretch(s, skip, n)[i] = s[skip + i]
           /\ \A k \in DOMAIN s : k > skip /\ k <= skip + n => k - skip \in DOMAIN Stretch(s, skip, n)
           /\ Len(Stretch(s, skip, n)) <= n
           /\ Len(Stretch(s, skip, n)) < n => \A k \in DOMAIN s : k <= skip + n
           /\ skip < Len(s) => Stretch(s, skip, n) # <<>>
<1> DEFINE last == Lesser(skip + n, Len(s))
           p == Stretch(s, skip, n)
<1>1. Len(s) \in Nat /\ DOMAIN s = 1 .. Len(s) /\ \A i \in DOMAIN s : s[i] \in S
  OBVIOUS
<1>2. last \in Nat /\ last <= Len(s) /\ last <= skip + n /\ (last = skip + n \/ last = Len(s))
  <2>1. last = skip + n \/ last = Len(s)
    BY DEF Lesser
  <2>2. last \in Nat
    BY <1>1, <2>1
  <2>3. last <= Len(s)
    BY <1>1 DEF Lesser
  <2>4. last <= skip + n
    BY <1>1 DEF Lesser
  <2>5. QED
    BY <2>1, <2>2, <2>3, <2>4
<1>3. p = SubSeq(s, skip + 1, last)
  BY DEF Stretch
<1> HIDE DEF last, p
<1>4. /\ p \in Seq(S)
      /\ Len(p) = IF skip + 1 <= last THEN last - (skip + 1) + 1 ELSE 0
      /\ \A i \in 1 .. last - (skip + 1) + 1 : p[i] = s[skip + 1 + i - 1]
  <2>1. ASSUME NEW i \in skip + 1 .. last PROVE s[i] \in S
    <3>1. last <= Len(s)
      BY <1>2
    <3>2. last \in Int
      BY <1>2
    <3>3. Len(s) \in Int
      BY <1>1
    <3>4. i \in Int /\ 1 <= i /\ i <= last
      BY <3>2
    <3>5. i \in 1 .. Len(s)
      BY <3>1, <3>2, <3>3, <3>4
    <3>6. QED
      BY <1>1, <3>5
  <2>2. skip + 1 \in Int /\ last \in Int
    BY <1>2
  <2>3. QED
    BY <1>3, <2>1, <2>2, SubSeqProperties
<1>5. Len(p) \in Nat /\ DOMAIN p = 1 .. Len(p)
  BY <1>4
<1>6. Len(p) = IF skip < last THEN last - skip ELSE 0
  BY <1>2, <1>4
<1>7. \A i \in DOMAIN p : skip + i \in DOMAIN s /\ p[i] = s[skip + i]
  <2>1. SUFFICES ASSUME NEW i \in DOMAIN p PROVE skip + i \in DOMAIN s /\ p[i] = s[skip + i]
    OBVIOUS
  <2>2. skip < last /\ i \in 1 .. last - skip
    BY <1>5, <1>6
  <2>3. skip + 1 + i - 1 = skip + i /\ i \in 1 .. last - (skip + 1) + 1
    BY <1>2, <2>2
  <2>4. p[i] = s[skip + 1 + i - 1]
    BY <1>4, <2>3
  <2>5. QED
    BY <1>1, <1>2, <2>2, <2>3, <2>4
<1>8. ASSUME NEW k \in DOMAIN s, k > skip, k <= skip + n PROVE k - skip \in DOMAIN p
  <2>5. k \in 1 .. Len(s)
    BY <1>1
  <2>4. k \in Nat /\ k <= Len(s) /\ Len(s) \in Nat
    BY <1>1, <2>5
  <2>1. k \in Nat /\ k <= last
    BY <1>2, <1>8, <2>4
  <2>2. Len(p) = last - skip
    BY <1>2, <1>6, <1>8, <2>1
  <2>3. QED
    BY <1>2, <1>5, <1>8, <2>1, <2>2
<1>9. Len(p) <= n
  BY <1>2, <1>6
<1>12. ASSUME Len(p) < n, NEW k \in DOMAIN s PROVE k <= skip + n
  <2>1. last # skip + n
    BY <1>6, <1>12
  <2>4. k \in 1 .. Len(s)
    BY <1>1
  <2>2. Len(s) = last
    BY <1>2, <2>1
  <2>6. k \in Int /\ k <= Len(s)
    BY <2>4
  <2>5. last \in Int /\ last <= skip + n /\ skip + n \in Int
    BY <1>2
  <2>3. QED
    BY <2>2, <2>5, <2>6
<1>10. skip < Len(s) => p # <<>>
  BY <1>2, <1>4, <1>6
<1>11. QED
  BY <1>4, <1>5, <1>7, <1>8, <1>9, <1>10, <1>12 DEF p

---------------------------------------------------------------------------
(* The inductive invariant, in parts.                                      *)

Threads == Workers \cup {Main}
KeySet ==
    {"all"} \cup {x.val.ref : x \in Entries("analytics")}
    \cup {x.key : x \in UNION {Entries(s) : s \in Stages}}
    \cup UNION {{ks[i] : i \in DOMAIN ks} : ks \in Requests}
Source == IF stage \in Stages THEN Entries(stage) ELSE {}
Readers == [at : Places, parts : Seq(Seq(KeySet)), skip : Nat, attempt : 1 .. MaxRetries,
            local : Seq(Source)]

TypeInv ==
    /\ stage \in Stages \cup Endings \cup {"start"}
    /\ next \in Nat \ {0}
    /\ skus \in Seq(KeySet) /\ keys \in Seq(KeySet)
    /\ reader \in [Threads -> Readers]
    /\ out \in Seq(Source)
    /\ DOMAIN pulled = Stages /\ \A s \in Stages : pulled[s] \in Seq(Entries(s))
    /\ DOMAIN book = Stages /\ \A s \in Stages : book[s] \in Seq(Entries(s))
    /\ limit \in UrlLimits
    /\ faults \in 0 .. MaxFaults /\ odd \in 0 .. MaxOdd /\ changes \in 0 .. MaxChanges
    /\ lost \in [Stages -> SUBSET (KeySet \X Reasons)]

(* 1C holds no row twice, and what it held at first until it is edited.    *)
BookInv ==
    /\ \A s \in Stages : Distinct(book[s])
    /\ changes = 0 => book \in Books

(* What a thread holds at each place, and who reads in which stage.        *)
Shape(q) ==
    /\ q.at = "read" <=> q.parts # <<>>
    /\ q.at \in {"take", "ended", "thrown"} => q.local = <<>>
    /\ stage \in Flat => Len(q.parts) <= 1
    /\ stage \in Balance => q.skip = 0
Shaped(r) ==
    /\ Shape(reader[r])
    /\ reader[r].attempt <= faults + 1
    /\ stage \notin Stages \/ r \notin Team(stage) => reader[r].at = "ended"
    /\ stage \in Stages /\ r \in Team(stage) /\ reader[r].at = "ended" => ~HasChunk(next)
ShapeInv == \A r \in Threads : Shaped(r)

(* The keys of a read: none twice, and those the stage asks for.           *)
KeyInv ==
    /\ Distinct(skus) /\ Distinct(keys) /\ Distinct(Refs(pulled["analytics"]))
    /\ stage \in Stages => keys = KeysOfRead(stage)

(* A key is in a chunk to come, with one thread, or among the rows read.   *)
Pending(x) == \E i \in DOMAIN keys : i > Offset(next) /\ keys[i] = x
InRows(rows, x) == \E i \in DOMAIN rows : rows[i].key = x
InParts(q, x) == \E a \in DOMAIN q.parts : HasKey(q.parts[a], x)
Claims(q, x) == InParts(q, x) \/ InRows(q.local, x)
ClaimInv ==
    \A x \in KeySet :
        /\ InRows(out, x) => ~Pending(x)
        /\ \A r \in Threads : Claims(reader[r], x) => ~Pending(x) /\ ~InRows(out, x)
        /\ \A r, q \in Threads : Claims(reader[r], x) /\ Claims(reader[q], x) => r = q

(* What a thread has read of its chunk, and what it has still to ask for.  *)
Orderly(q) ==
    /\ \A a, b \in DOMAIN q.parts : \A i \in DOMAIN q.parts[a], j \in DOMAIN q.parts[b] :
         q.parts[a][i] = q.parts[b][j] => a = b /\ i = j
    /\ stage \in Balance => \A x \in KeySet : ~(InParts(q, x) /\ InRows(q.local, x))
    /\ stage \in Balance \/ changes = 0 => Distinct(q.local)
    /\ stage \in Flat /\ changes = 0 /\ q.parts # <<>> =>
         \A i \in DOMAIN q.local : \E k \in DOMAIN Matching(Head(q.parts)) :
            k <= q.skip /\ q.local[i] = Matching(Head(q.parts))[k]
OrderInv == \A r \in Threads : Orderly(reader[r])

OnceInv ==
    /\ stage \in Balance \/ changes = 0 => Distinct(out)
    /\ \A s \in Balance : Distinct(pulled[s])
    /\ changes = 0 => \A s \in Stages : Distinct(pulled[s])

(* While nothing is edited: every row asked for is still to be asked for,  *)
(* given up, or read; and what is read comes from 1C.                      *)
From(rows) == \A i \in DOMAIN rows : \E k \in DOMAIN book[stage] : rows[i] = book[stage][k]
IsIn(row, rows) == \E i \in DOMAIN rows : rows[i] = row
GivenUp(s, x) == \E why \in Reasons : <<x, why>> \in lost[s]
Ahead(q, row) ==
    \/ \E a \in DOMAIN q.parts : a > 1 /\ HasKey(q.parts[a], row.key)
    \/ /\ q.parts # <<>>
       /\ \E k \in DOMAIN Matching(Head(q.parts)) :
             k > q.skip /\ Matching(Head(q.parts))[k] = row
Held(q, row) == q.at = "thrown" \/ IsIn(row, q.local) \/ Ahead(q, row)
Covered(row) ==
    \/ Pending(row.key)
    \/ GivenUp(stage, row.key)
    \/ IsIn(row, out)
    \/ \E r \in Threads : Held(reader[r], row)
CoverInv ==
    stage \in Stages /\ changes = 0 =>
        /\ From(out) /\ \A r \in Threads : From(reader[r].local)
        /\ \A k \in DOMAIN book[stage] :
             book[stage][k].good /\ HasKey(keys, book[stage][k].key) => Covered(book[stage][k])

(* The reads that are over have read what was asked for, or given it up.   *)
Over ==
    CASE stage = "analytics" -> {"warehouses"}
      [] stage = "costs" -> {"warehouses", "analytics"}
      [] stage = "stocks" -> {"warehouses", "analytics", "costs"}
      [] stage = "suppliers" -> {"warehouses", "analytics", "costs", "stocks"}
      [] stage = "answered" -> Stages
      [] OTHER -> {}
ReadOver(s) ==
    \A k \in DOMAIN book[s] :
        book[s][k].good /\ HasKey(KeysOfRead(s), book[s][k].key)
            => GivenUp(s, book[s][k].key) \/ IsIn(book[s][k], pulled[s])
DoneInv == changes = 0 => \A s \in Over : ReadOver(s)

AnswerInv == stage = "answered" => answer = BuildPreview(PullToSnapshot(PulledRows(pulled), {}))

---------------------------------------------------------------------------
(* Facts about the constants, the chunks and the halves.                   *)

LEMMA RequestsTyped == ASSUME NEW ks \in Requests PROVE ks \in Seq(KeySet) /\ Distinct(ks)
<1>1. ks \in Seq({ks[i] : i \in DOMAIN ks}) /\ Distinct(ks)
  BY RequestAssumption DEF IsSequence
<1>2. {ks[i] : i \in DOMAIN ks} \subseteq KeySet
  BY DEF KeySet
<1>3. QED
  BY <1>1, <1>2, SeqMonotonic

LEMMA BooksTyped ==
    ASSUME NEW b \in Books
    PROVE  /\ DOMAIN b = Stages
           /\ \A s \in Stages : b[s] \in Seq(Entries(s)) /\ Distinct(b[s])
<1>1. DOMAIN b = Stages /\ \A s \in Stages : IsSequence(b[s]) /\ Distinct(b[s])
  BY BookAssumption
<1>2. ASSUME NEW s \in Stages PROVE b[s] \in Seq(Entries(s))
  <2>1. {b[s][i] : i \in DOMAIN b[s]} \subseteq Entries(s)
    BY DEF Entries
  <2>2. b[s] \in Seq({b[s][i] : i \in DOMAIN b[s]})
    BY <1>1 DEF IsSequence
  <2>3. QED
    BY <2>1, <2>2, SeqMonotonic
<1>3. QED
  BY <1>1, <1>2

LEMMA EntriesTyped ==
    ASSUME NEW s \in Stages, NEW x \in Entries(s)
    PROVE  /\ x.key \in KeySet /\ x.good \in BOOLEAN
           /\ \A y \in Entries(s) : x.val = y.val => x = y
           /\ s = "analytics" => x.val.ref \in KeySet
<1>1. x \in UNION {Entries(t) : t \in Stages}
  OBVIOUS
<1>2. x.key \in KeySet
  BY <1>1 DEF KeySet
<1>3. x.good \in BOOLEAN
  BY <1>1, BookAssumption
<1>4. s = "analytics" => x.val.ref \in KeySet
  BY DEF KeySet
<1>5. \A y \in Entries(s) : x.val = y.val => x = y
  BY BookAssumption
<1>6. QED
  BY <1>2, <1>3, <1>4, <1>5

(* The places of the chunks.                                               *)
LEMMA OffsetIs ==
    ASSUME NEW k \in Nat \ {0}
    PROVE  /\ ChunkLength \in Nat \ {0}
           /\ Offset(1) = 0
           /\ Offset(k) \in Nat
           /\ Offset(k + 1) = Offset(k) + ChunkLength
<1> DEFINE c == ChunkLength
<1>1. c \in Nat \ {0}
  BY ReadAssumption DEF ChunkLength
<1> HIDE DEF c
<1>2. (1 - 1) * c = 0
  BY <1>1
<1>3. (k - 1) * c \in Nat
  BY <1>1
<1>4. (k + 1 - 1) * c = (k - 1) * c + c
  BY <1>1
<1>5. QED
  BY <1>1, <1>2, <1>3, <1>4 DEF Offset, c

(* A chunk holds the keys from one offset to the next.                     *)
LEMMA ChunkIs ==
    ASSUME TypeInv, HasChunk(next)
    PROVE  /\ Chunk(next) \in Seq(KeySet) /\ Chunk(next) # <<>>
           /\ \A i \in DOMAIN Chunk(next) :
                Offset(next) + i \in DOMAIN keys /\ Chunk(next)[i] = keys[Offset(next) + i]
                /\ i <= ChunkLength
           /\ \A k \in DOMAIN keys : k > Offset(next) /\ k <= Offset(next + 1)
                => k - Offset(next) \in DOMAIN Chunk(next)
<1>1. Offset(next) \in Nat /\ ChunkLength \in Nat \ {0} /\ Offset(next + 1) = Offset(next) + ChunkLength
  BY OffsetIs DEF TypeInv
<1>2. keys \in Seq(KeySet) /\ Offset(next) < Len(keys)
  BY DEF TypeInv, HasChunk
<1>3. Chunk(next) = Stretch(keys, Offset(next), ChunkLength)
  BY DEF Chunk, Stretch
<1> DEFINE o == Offset(next)
           c == ChunkLength
           p == Stretch(keys, o, c)
<1> HIDE DEF o, c, p
<1>4. /\ p \in Seq(KeySet)
      /\ Len(p) \in Nat
      /\ DOMAIN p = 1 .. Len(p)
      /\ \A i \in DOMAIN p : o + i \in DOMAIN keys /\ p[i] = keys[o + i]
      /\ \A k \in DOMAIN keys : k > o /\ k <= o + c => k - o \in DOMAIN p
      /\ Len(p) <= c
      /\ o < Len(keys) => p # <<>>
  BY <1>1, <1>2, StretchIs DEF o, c, p
<1>5. ASSUME NEW i \in DOMAIN p PROVE i <= c
  <2>1. Len(p) \in Nat /\ i \in 1 .. Len(p)
    BY <1>4
  <2>2. Len(p) <= c
    BY <1>4
  <2>3. c \in Nat
    BY <1>1 DEF c
  <2>4. QED
    BY <2>1, <2>2, <2>3
<1>6. o < Len(keys)
  BY <1>2 DEF o
<1>7. Offset(next + 1) = o + c
  BY <1>1 DEF o, c
<1>8. QED
  BY <1>3, <1>4, <1>5, <1>6, <1>7 DEF o, c, p

(* The halves of a part share its keys out.                                *)
LEMMA HalvesAre ==
    ASSUME NEW part \in Seq(KeySet), Len(part) > 1
    PROVE  \E m \in Nat \ {0} : \E a, b \in Seq(KeySet) :
             /\ Halves(part) = <<a, b>> /\ m < Len(part)
             /\ a # <<>> /\ b # <<>>
             /\ DOMAIN a = 1 .. m /\ \A i \in 1 .. m : a[i] = part[i]
             /\ DOMAIN b = 1 .. Len(part) - m /\ \A i \in 1 .. Len(part) - m : b[i] = part[m + i]
<1> DEFINE m == Len(part) \div 2
           a == SubSeq(part, 1, m)
           b == SubSeq(part, m + 1, Len(part))
<1>1. Len(part) \in Nat /\ \A i \in 1 .. Len(part) : part[i] \in KeySet
  OBVIOUS
<1>2. m \in Nat /\ m >= 1 /\ m < Len(part)
  BY <1>1
<1> HIDE DEF m
<1>3. /\ a \in Seq(KeySet)
      /\ Len(a) = IF 1 <= m THEN m - 1 + 1 ELSE 0
      /\ \A i \in 1 .. m - 1 + 1 : a[i] = part[1 + i - 1]
  <2>1. ASSUME NEW i \in 1 .. m PROVE part[i] \in KeySet
    <3>1. i \in 1 .. Len(part)
      BY <1>1, <1>2
    <3>2. QED
      BY <1>1, <3>1
  <2>2. QED
    BY <1>2, <2>1, SubSeqProperties
<1>4. /\ b \in Seq(KeySet)
      /\ Len(b) = IF m + 1 <= Len(part) THEN Len(part) - (m + 1) + 1 ELSE 0
      /\ \A i \in 1 .. Len(part) - (m + 1) + 1 : b[i] = part[m + 1 + i - 1]
  <2>1. ASSUME NEW i \in m + 1 .. Len(part) PROVE part[i] \in KeySet
    <3>1. i \in 1 .. Len(part)
      BY <1>1, <1>2
    <3>2. QED
      BY <1>1, <3>1
  <2>2. m + 1 \in Int /\ Len(part) \in Int
    BY <1>1, <1>2
  <2>3. QED
    BY <2>1, <2>2, SubSeqProperties
<1> HIDE DEF a, b
<1>5. Len(a) = m /\ DOMAIN a = 1 .. m /\ \A i \in 1 .. m : a[i] = part[i]
  <2>1. Len(a) = m
    BY <1>2, <1>3
  <2>2. DOMAIN a = 1 .. m
    BY <1>3, <2>1
  <2>3. ASSUME NEW i \in 1 .. m PROVE a[i] = part[i]
    <3>1. i \in 1 .. m - 1 + 1 /\ 1 + i - 1 = i
      BY <1>2
    <3>2. a[i] = part[1 + i - 1]
      BY <1>3, <3>1
    <3>3. QED
      BY <3>1, <3>2
  <2>4. QED
    BY <2>1, <2>2, <2>3
<1>6. Len(b) = Len(part) - m /\ DOMAIN b = 1 .. Len(part) - m /\ \A i \in 1 .. Len(part) - m : b[i] = part[m + i]
  <2>1. Len(b) = Len(part) - m
    BY <1>1, <1>2, <1>4
  <2>2. DOMAIN b = 1 .. Len(part) - m
    BY <1>4, <2>1
  <2>3. ASSUME NEW i \in 1 .. Len(part) - m PROVE b[i] = part[m + i]
    <3>1. i \in 1 .. Len(part) - (m + 1) + 1 /\ m + 1 + i - 1 = m + i
      BY <1>1, <1>2
    <3>2. b[i] = part[m + 1 + i - 1]
      BY <1>4, <3>1
    <3>3. QED
      BY <3>1, <3>2
  <2>4. QED
    BY <2>1, <2>2, <2>3
<1>7. a # <<>> /\ b # <<>>
  <2>1. Len(a) # 0
    BY <1>2, <1>5
  <2>2. Len(b) # 0
    BY <1>1, <1>2, <1>6
  <2>3. QED
    BY <2>1, <2>2
<1>8. Halves(part) = <<a, b>>
  BY DEF Halves, a, b, m
<1>9. m \in Nat \ {0} /\ a \in Seq(KeySet) /\ b \in Seq(KeySet)
  BY <1>2, <1>3, <1>4
<1>10. QED
  BY <1>2, <1>5, <1>6, <1>7, <1>8, <1>9

---------------------------------------------------------------------------
(* What a step of a thread does, by what becomes of the part in hand.      *)

LEMMA MatchingIs ==
    ASSUME TypeInv, BookInv, stage \in Stages, NEW part
    PROVE  /\ Matching(part) \in Seq(Source) /\ Distinct(Matching(part))
           /\ \A k \in DOMAIN Matching(part) :
                HasKey(part, Matching(part)[k].key) /\ IsIn(Matching(part)[k], book[stage])
           /\ \A i \in DOMAIN book[stage] :
                HasKey(part, book[stage][i].key) => IsIn(book[stage][i], Matching(part))
<1> DEFINE b == book[stage]
           f == Filtered(b, part)
<1>1. b \in Seq(Source) /\ Distinct(b)
  BY DEF TypeInv, BookInv, Source
<1>2. Matching(part) = f
  BY DEF Matching, Filtered
<1>3. /\ f \in Seq(Source)
      /\ \A k \in DOMAIN f : HasKey(part, f[k].key) /\ \E i \in DOMAIN b : f[k] = b[i]
      /\ \A i \in DOMAIN b : HasKey(part, b[i].key) => \E k \in DOMAIN f : f[k] = b[i]
      /\ Distinct(b) => Distinct(f)
  BY <1>1, FilteredIs
<1> HIDE DEF f
<1>4. QED
  BY <1>1, <1>2, <1>3 DEF IsIn

Found(q) == Matching(Head(q.parts))

(* The rows of use among the next n that were found.                       *)
Gain(q, n, rows) ==
    /\ Distinct(rows)
    /\ \A i \in DOMAIN rows : \E k \in DOMAIN Found(q) :
         k > q.skip /\ k <= q.skip + n /\ rows[i] = Found(q)[k]
    /\ \A k \in DOMAIN Found(q) :
         k > q.skip /\ k <= q.skip + n /\ Found(q)[k].good => IsIn(Found(q)[k], rows)

Takes(r) ==
    /\ reader[r].at = "take" /\ HasChunk(next)
    /\ Set(r, [Rest EXCEPT !.at = "read", !.parts = <<Chunk(next)>>])
    /\ next' = next + 1 /\ UNCHANGED <<out, lost>>
Leaves(r) ==
    /\ reader[r].at = "take" /\ ~HasChunk(next)
    /\ Set(r, Rest) /\ UNCHANGED <<next, out, lost>>
EndsPart(r) ==
    /\ reader[r].at = "read" /\ UNCHANGED <<next, out>>
    /\ \E n \in Nat, rows \in Seq(Source) :
         /\ Gain(reader[r], n, rows) /\ PartDone(r, rows)
         /\ \/ UNCHANGED lost /\ \A k \in DOMAIN Found(reader[r]) : k <= reader[r].skip + n
            \/ \E why \in Reasons : lost' = Missing(Head(reader[r].parts), why)
GoesOn(r) ==
    /\ reader[r].at = "read" /\ stage \in Flat /\ UNCHANGED <<next, out, lost>>
    /\ \E n \in Nat, rows \in Seq(Source) :
         /\ Gain(reader[r], n, rows)
         /\ Set(r, [reader[r] EXCEPT !.skip = @ + n, !.attempt = 1, !.local = @ \o rows])
TriesAgain(r) ==
    /\ reader[r].at = "read" /\ reader[r].attempt < MaxRetries /\ faults' = faults + 1
    /\ Set(r, [reader[r] EXCEPT !.attempt = @ + 1]) /\ UNCHANGED <<next, out, lost>>
Halves2(r) ==
    /\ reader[r].at = "read" /\ stage \in Balance /\ Len(Head(reader[r].parts)) > 1
    /\ Set(r, [reader[r] EXCEPT !.parts = Halves(Head(reader[r].parts)) \o Tail(reader[r].parts),
                                !.attempt = 1])
    /\ UNCHANGED <<next, out, lost>>
Throws(r) ==
    /\ reader[r].at = "read" /\ Set(r, [Rest EXCEPT !.at = "thrown"]) /\ UNCHANGED <<next, out, lost>>
Pushes(r) ==
    /\ reader[r].at = "push" /\ out' = out \o reader[r].local
    /\ Set(r, [Rest EXCEPT !.at = "take"]) /\ UNCHANGED <<next, lost>>

LEMMA ReceiveIs ==
    ASSUME TypeInv, BookInv, stage \in Stages, NEW r \in Threads, Receive(r)
    PROVE  EndsPart(r) \/ GoesOn(r)
<1> DEFINE q == reader[r]
           f == Found(q)
           top == IF stage \in Balance THEN BalanceTop ELSE PageSize
           page == Page(f, q.skip)
           n == Len(page)
           rows == Kept(page)
<1>1. q.skip \in Nat /\ top \in Nat \ {0}
  BY ReadAssumption DEF TypeInv, Readers
<1>2. f \in Seq(Source) /\ Distinct(f)
  BY MatchingIs DEF Found
<1>3. page = Stretch(f, q.skip, top)
  BY DEF Page, Stretch
<1>4. /\ q.at = "read"
      /\ IF stage \in Balance \/ Len(page) < PageSize THEN PartDone(r, rows)
         ELSE Set(r, [q EXCEPT !.skip = @ + Len(page), !.attempt = 1, !.local = @ \o rows])
      /\ lost' = IF stage \in Balance /\ Len(f) > BalanceTop THEN Missing(Head(q.parts), "top") ELSE lost
      /\ UNCHANGED <<next, out>>
  BY DEF Receive, Found
<1> HIDE DEF q, f, page
<1>5. /\ page \in Seq(Source)
      /\ Len(page) \in Nat
      /\ DOMAIN page = 1 .. Len(page)
      /\ \A i \in DOMAIN page : q.skip + i \in DOMAIN f /\ page[i] = f[q.skip + i]
      /\ \A k \in DOMAIN f : k > q.skip /\ k <= q.skip + top => k - q.skip \in DOMAIN page
      /\ Len(page) <= top
      /\ Len(page) < top => \A k \in DOMAIN f : k <= q.skip + top
  <2> HIDE DEF top
  <2>1. QED
    BY <1>1, <1>2, <1>3, StretchIs
<1>6. /\ rows \in Seq(Source)
      /\ \A k \in DOMAIN rows : \E i \in DOMAIN page : rows[k] = page[i]
      /\ \A i \in DOMAIN page : page[i].good => \E k \in DOMAIN rows : rows[k] = page[i]
      /\ Distinct(page) => Distinct(rows)
  BY <1>5, KeptIs
<1> HIDE DEF rows
<1>7. Distinct(page)
  <2>1. SUFFICES ASSUME NEW i \in DOMAIN page, NEW j \in DOMAIN page, page[i] = page[j] PROVE i = j
    BY DEF Distinct
  <2>2. f[q.skip + i] = f[q.skip + j] /\ q.skip + i \in DOMAIN f /\ q.skip + j \in DOMAIN f
    BY <1>5, <2>1
  <2>3. q.skip + i = q.skip + j
    BY <1>2, <2>2 DEF Distinct
  <2>4. i \in Nat /\ j \in Nat
    BY <1>5
  <2>5. QED
    BY <1>1, <2>3, <2>4
<1>8. n \in Nat /\ n <= top
  BY <1>5
<1>9. \A i \in DOMAIN page : q.skip + i \in DOMAIN f /\ q.skip + i > q.skip /\ q.skip + i <= q.skip + n
  <2>1. ASSUME NEW i \in DOMAIN page PROVE q.skip + i > q.skip /\ q.skip + i <= q.skip + n
    <3>1. i \in 1 .. n /\ n \in Nat
      BY <1>5
    <3>2. i \in Nat /\ i >= 1 /\ i <= n
      BY <3>1
    <3>3. QED
      BY <1>1, <3>1, <3>2
  <2>2. QED
    BY <1>5, <2>1
<1>10. \A k \in DOMAIN f : k > q.skip /\ k <= q.skip + n => k - q.skip \in DOMAIN page
  <2>1. SUFFICES ASSUME NEW k \in DOMAIN f, k > q.skip, k <= q.skip + n PROVE k - q.skip \in DOMAIN page
    OBVIOUS
  <2>2. k \in Nat
    BY <1>2
  <2>3. k <= q.skip + top
    BY <1>1, <1>8, <2>1, <2>2
  <2>4. QED
    BY <1>5, <2>1, <2>3
<1>11. \A k \in DOMAIN f : k > q.skip /\ k <= q.skip + n => \E i \in DOMAIN page : page[i] = f[k]
  <2>1. SUFFICES ASSUME NEW k \in DOMAIN f, k > q.skip, k <= q.skip + n PROVE \E i \in DOMAIN page : page[i] = f[k]
    OBVIOUS
  <2>2. k - q.skip \in DOMAIN page
    BY <1>10, <2>1
  <2>3. k \in Nat /\ q.skip + (k - q.skip) = k
    BY <1>1, <1>2
  <2>4. page[k - q.skip] = f[q.skip + (k - q.skip)]
    BY <1>5, <2>2
  <2>5. QED
    BY <2>2, <2>3, <2>4
<1>12. Gain(q, n, rows)
  <2>1. Distinct(rows)
    BY <1>6, <1>7
  <2>2. ASSUME NEW i \in DOMAIN rows
        PROVE  \E k \in DOMAIN f : k > q.skip /\ k <= q.skip + n /\ rows[i] = f[k]
    <3>1. PICK j \in DOMAIN page : rows[i] = page[j]
      BY <1>6
    <3>2. q.skip + j \in DOMAIN f /\ page[j] = f[q.skip + j]
      BY <1>5
    <3>3. QED
      BY <1>9, <3>1, <3>2
  <2>3. ASSUME NEW k \in DOMAIN f, k > q.skip, k <= q.skip + n, f[k].good PROVE IsIn(f[k], rows)
    <3>1. PICK i \in DOMAIN page : page[i] = f[k]
      BY <1>11, <2>3
    <3>2. QED
      BY <1>6, <2>3, <3>1 DEF IsIn
  <2>4. QED
    BY <2>1, <2>2, <2>3 DEF Gain, f
<1>13. CASE stage \in Balance /\ Len(f) > BalanceTop
  <2>1. PartDone(r, rows) /\ lost' = Missing(Head(q.parts), "top") /\ "top" \in Reasons
    BY <1>4, <1>13 DEF Reasons
  <2>2. QED
    BY <1>4, <1>6, <1>8, <1>12, <2>1 DEF EndsPart, q
<1>14. CASE stage \in Balance /\ ~(Len(f) > BalanceTop)
  <2>1. PartDone(r, rows) /\ lost' = lost
    BY <1>4, <1>14
  <2>2. ASSUME NEW k \in DOMAIN f PROVE k <= q.skip + n
    <3>1. CASE n < top
      <4>1. k <= q.skip + top
        BY <1>5, <3>1
      <4>2. k \in Nat
        BY <1>2
      <4>3. CASE k > q.skip
        <5>1. k - q.skip \in DOMAIN page
          BY <1>5, <4>1, <4>3
        <5>2. k - q.skip <= n
          BY <1>5, <1>8, <5>1
        <5>3. QED
          BY <1>1, <1>8, <4>2, <5>2
      <4>4. CASE ~(k > q.skip)
        BY <1>1, <1>8, <4>2, <4>4
      <4>5. QED
        BY <4>3, <4>4
    <3>2. CASE ~(n < top)
      <4>1. top = BalanceTop
        BY <1>14
      <4>2. n = top
        BY <1>1, <1>8, <3>2
      <4>3. k \in 1 .. Len(f) /\ Len(f) \in Nat
        BY <1>2
      <4>4. k \in Nat /\ k <= Len(f)
        BY <4>3
      <4>5. Len(f) <= top /\ top \in Nat
        BY <1>1, <1>14, <4>1, <4>3
      <4>6. QED
        BY <1>1, <4>2, <4>3, <4>4, <4>5
    <3>3. QED
      BY <3>1, <3>2
  <2>3. QED
    BY <1>4, <1>6, <1>8, <1>12, <2>1, <2>2 DEF EndsPart, q, f
<1>15. CASE stage \notin Balance /\ Len(page) < PageSize
  <2>1. PartDone(r, rows) /\ lost' = lost /\ top = PageSize
    BY <1>4, <1>15
  <2>2. ASSUME NEW k \in DOMAIN f PROVE k <= q.skip + n
    <3>1. k <= q.skip + top
      BY <1>5, <1>15, <2>1
    <3>2. k \in Nat
      BY <1>2
    <3>3. CASE k > q.skip
      <4>1. k - q.skip \in DOMAIN page
        BY <1>5, <3>1, <3>3
      <4>2. k - q.skip <= n
        BY <1>5, <1>8, <4>1
      <4>3. QED
        BY <1>1, <1>8, <3>2, <4>2
    <3>4. CASE ~(k > q.skip)
      BY <1>1, <1>8, <3>2, <3>4
    <3>5. QED
      BY <3>3, <3>4
  <2>3. QED
    BY <1>4, <1>6, <1>8, <1>12, <2>1, <2>2 DEF EndsPart, q, f
<1>16. CASE stage \notin Balance /\ ~(Len(page) < PageSize)
  <2>1. Set(r, [q EXCEPT !.skip = @ + n, !.attempt = 1, !.local = @ \o rows]) /\ lost' = lost
    BY <1>4, <1>16
  <2>2. stage \in Flat
    BY <1>16 DEF Stages
  <2>3. QED
    BY <1>4, <1>6, <1>8, <1>12, <2>1, <2>2 DEF GoesOn, q
<1>17. QED
  BY <1>13, <1>14, <1>15, <1>16

LEMMA GivesUp ==
    ASSUME TypeInv, BookInv, stage \in Stages, NEW r \in Threads, NEW why \in Reasons,
           reader[r].at = "read", GiveUp(r, why), UNCHANGED <<next, out>>
    PROVE  EndsPart(r)
<1>1. Gain(reader[r], 0, <<>>)
  <2>1. reader[r].skip \in Nat
    BY DEF TypeInv, Readers
  <2>4. Found(reader[r]) \in Seq(Source)
    BY MatchingIs DEF Found
  <2>2. ASSUME NEW k \in DOMAIN Found(reader[r])
        PROVE  ~(k > reader[r].skip /\ k <= reader[r].skip + 0)
    <3>1. k \in Nat
      BY <2>4
    <3>2. QED
      BY <2>1, <3>1
  <2>3. QED
    BY <2>2 DEF Gain, Distinct
<1>2. <<>> \in Seq(Source) /\ 0 \in Nat
  OBVIOUS
<1>3. PartDone(r, <<>>) /\ lost' = Missing(Head(reader[r].parts), why)
  BY DEF GiveUp
<1>4. QED
  BY <1>1, <1>2, <1>3 DEF EndsPart

LEMMA StepIs ==
    ASSUME TypeInv, BookInv, ShapeInv, NEW r \in Threads, Step(r)
    PROVE  /\ UNCHANGED <<stage, skus, keys, pulled, answer, book, limit, changes>>
           /\ stage \in Stages /\ r \in Team(stage)
           /\ faults' \in {faults, faults + 1} /\ faults' \in 0 .. MaxFaults
           /\ odd' \in {odd, odd + 1} /\ odd' \in 0 .. MaxOdd
           /\ \/ Takes(r) \/ Leaves(r) \/ EndsPart(r) \/ GoesOn(r)
              \/ TriesAgain(r) \/ Halves2(r) \/ Throws(r) \/ Pushes(r)
<1>1. reader[r].at \in {"take", "read", "push"}
  BY DEF Step, Take, Receive, Fail, UrlTooLong, AnswerOdd, Push
<1>2. stage \in Stages /\ r \in Team(stage)
  BY <1>1 DEF ShapeInv, Shaped
<1>3. faults \in 0 .. MaxFaults /\ odd \in 0 .. MaxOdd /\ MaxFaults \in Nat /\ MaxOdd \in Nat
  BY ReadAssumption DEF TypeInv
<1>4. CASE Take(r)
  BY <1>2, <1>3, <1>4 DEF Take, Takes, Leaves, onec
<1>5. CASE Receive(r)
  <2>1. EndsPart(r) \/ GoesOn(r)
    BY <1>2, <1>5, ReceiveIs
  <2>2. UNCHANGED <<stage, skus, keys, pulled, answer, book, limit, changes, faults, odd>>
    BY <1>5 DEF Receive, onec
  <2>3. QED
    BY <1>2, <1>3, <2>1, <2>2
<1>6. CASE Fail(r)
  <2>1. /\ reader[r].at = "read" /\ faults < MaxFaults /\ faults' = faults + 1
        /\ UNCHANGED <<stage, skus, keys, next, out, pulled, answer, book, limit, changes, odd>>
    BY <1>6 DEF Fail, onec
  <2>2. faults' \in 0 .. MaxFaults
    BY <1>3, <2>1
  <2>3. TriesAgain(r) \/ GiveUp(r, "retries")
    BY <1>6, <2>1 DEF Fail, TriesAgain
  <2>4. TriesAgain(r) \/ EndsPart(r)
    BY <1>2, <2>1, <2>3, GivesUp DEF Reasons
  <2>5. QED
    BY <1>2, <1>3, <2>1, <2>2, <2>4
<1>7. CASE UrlTooLong(r)
  <2>1. /\ reader[r].at = "read"
        /\ UNCHANGED <<stage, skus, keys, next, out, pulled, answer, book, limit, changes, faults, odd>>
    BY <1>7 DEF UrlTooLong, onec
  <2>2. Halves2(r) \/ GiveUp(r, "url")
    BY <1>7, <2>1 DEF UrlTooLong, Halves2
  <2>3. Halves2(r) \/ EndsPart(r)
    BY <1>2, <2>1, <2>2, GivesUp DEF Reasons
  <2>4. QED
    BY <1>2, <1>3, <2>1, <2>3
<1>8. CASE AnswerOdd(r)
  <2>1. /\ reader[r].at = "read" /\ odd < MaxOdd /\ odd' = odd + 1
        /\ UNCHANGED <<stage, skus, keys, next, out, pulled, answer, book, limit, changes, faults>>
    BY <1>8 DEF AnswerOdd, onec
  <2>2. odd' \in 0 .. MaxOdd
    BY <1>3, <2>1
  <2>3. Throws(r) \/ GiveUp(r, "odd")
    BY <1>8, <2>1 DEF AnswerOdd, Throws
  <2>4. Throws(r) \/ EndsPart(r)
    BY <1>2, <2>1, <2>3, GivesUp DEF Reasons
  <2>5. QED
    BY <1>2, <1>3, <2>1, <2>2, <2>4
<1>9. CASE Push(r)
  BY <1>2, <1>3, <1>9 DEF Push, Pushes, onec
<1>10. QED
  BY <1>4, <1>5, <1>6, <1>7, <1>8, <1>9 DEF Step

---------------------------------------------------------------------------
(* Types and shapes.                                                       *)

LEMMA RestTyped == Rest \in Readers
<1>1. Rest = [at |-> "ended", parts |-> <<>>, skip |-> 0, attempt |-> 1, local |-> <<>>]
  BY DEF Rest
<1>2. 1 \in 1 .. MaxRetries
  BY ReadAssumption
<1>3. <<>> \in Seq(Seq(KeySet)) /\ <<>> \in Seq(Source) /\ 0 \in Nat /\ "ended" \in Places
  BY DEF Places
<1>4. QED
  BY <1>1, <1>2, <1>3 DEF Readers

LEMMA RestWith ==
    ASSUME NEW at, NEW parts
    PROVE  [Rest EXCEPT !.at = at, !.parts = parts]
             = [at |-> at, parts |-> parts, skip |-> 0, attempt |-> 1, local |-> <<>>]
<1> DEFINE rec == [Rest EXCEPT !.at = at]
<1>1. rec = [at |-> at, parts |-> <<>>, skip |-> 0, attempt |-> 1, local |-> <<>>]
  BY DEF Rest
<1>2. [Rest EXCEPT !.at = at, !.parts = parts] = [rec EXCEPT !.parts = parts]
  OBVIOUS
<1> HIDE DEF rec
<1>3. [rec EXCEPT !.parts = parts]
        = [at |-> at, parts |-> parts, skip |-> 0, attempt |-> 1, local |-> <<>>]
  BY <1>1
<1>4. QED
  BY <1>2, <1>3

(* What becomes of the thread that steps.                                  *)
LEMMA PartDoneIs ==
    ASSUME TypeInv, ShapeInv, stage \in Stages, NEW r \in Threads, reader[r].at = "read",
           NEW rows \in Seq(Source), PartDone(r, rows)
    PROVE  \E left \in Seq(Seq(KeySet)) :
             /\ reader' = [reader EXCEPT ![r] =
                  [at |-> IF left = <<>> THEN "push" ELSE "read", parts |-> left,
                   skip |-> 0, attempt |-> 1, local |-> reader[r].local \o rows]]
             /\ stage \in Balance => left = Tail(reader[r].parts)
             /\ stage \in Flat => left = <<>>
             /\ reader[r].parts \in Seq(Seq(KeySet)) /\ reader[r].parts # <<>>
             /\ reader[r].local \in Seq(Source) /\ reader[r].local \o rows \in Seq(Source)
<1>1. reader[r].parts \in Seq(Seq(KeySet)) /\ reader[r].parts # <<>> /\ reader[r].local \in Seq(Source)
  BY DEF TypeInv, Readers, ShapeInv, Shaped, Shape
<1>2. reader[r].local \o rows \in Seq(Source)
  BY <1>1, ConcatProperties
<1> DEFINE left == IF stage \in Balance THEN Tail(reader[r].parts) ELSE <<>>
<1>3. left \in Seq(Seq(KeySet))
  BY <1>1, HeadTailProperties
<1>4. stage \in Flat => stage \notin Balance
  BY DEF Flat, Balance
<1>5. QED
  BY <1>1, <1>2, <1>3, <1>4 DEF PartDone, Set

LEMMA NewReader ==
    ASSUME TypeInv, BookInv, ShapeInv, NEW r \in Threads, Step(r)
    PROVE  \E rec \in Readers :
             Set(r, rec) /\ Shape(rec) /\ rec.attempt <= faults' + 1 /\ (rec.at = "ended" => Leaves(r))
<1> DEFINE q == reader[r]
<1>1. /\ stage \in Stages /\ faults' \in {faults, faults + 1}
      /\ \/ Takes(r) \/ Leaves(r) \/ EndsPart(r) \/ GoesOn(r)
         \/ TriesAgain(r) \/ Halves2(r) \/ Throws(r) \/ Pushes(r)
  BY StepIs
<1>2. faults \in Nat /\ faults' \in Nat
  BY <1>1, ReadAssumption DEF TypeInv
<1>3. /\ q \in Readers /\ q.parts \in Seq(Seq(KeySet)) /\ q.skip \in Nat
      /\ q.attempt \in 1 .. MaxRetries /\ q.local \in Seq(Source)
  BY DEF TypeInv, Readers
<1>4. Shape(q) /\ q.attempt <= faults + 1
  BY DEF ShapeInv, Shaped
<1>5. 1 \in 1 .. MaxRetries /\ 1 <= faults' + 1
  <2>1. 1 \in 1 .. MaxRetries
    BY ReadAssumption
  <2>2. faults' \in Nat
    BY <1>2
  <2>3. \A f \in Nat : 1 <= f + 1
    OBVIOUS
  <2>4. 1 <= faults' + 1
    BY <2>2, <2>3
  <2>5. QED
    BY <2>1, <2>4
<1>6. Rest \in Readers /\ Rest = [at |-> "ended", parts |-> <<>>, skip |-> 0, attempt |-> 1, local |-> <<>>]
  BY RestTyped DEF Rest
<1>7. Len(<<>>) = 0 /\ \A x : Len(<<x>>) = 1 /\ <<x>> # <<>>
  OBVIOUS
<1>8. CASE Takes(r)
  <2> DEFINE rec == [at |-> "read", parts |-> <<Chunk(next)>>, skip |-> 0, attempt |-> 1, local |-> <<>>]
  <2>7. [Rest EXCEPT !.at = "read", !.parts = <<Chunk(next)>>] = rec
    BY RestWith
  <2>1. Set(r, rec)
    BY <1>8, <2>7 DEF Takes
  <2>2. Chunk(next) \in Seq(KeySet)
    BY <1>8, ChunkIs DEF Takes
  <2>3. <<Chunk(next)>> \in Seq(Seq(KeySet)) /\ <<>> \in Seq(Source) /\ "read" \in Places
    BY <2>2 DEF Places
  <2>4. rec \in Readers
    BY <1>5, <2>3 DEF Readers
  <2>5. Shape(rec)
    BY <1>7 DEF Shape
  <2>6. QED
    BY <1>5, <2>1, <2>4, <2>5
<1>9. CASE Leaves(r)
  <2>1. Shape(Rest)
    BY <1>6, <1>7 DEF Shape
  <2>2. Rest.attempt <= faults' + 1
    BY <1>5, <1>6
  <2>3. QED
    BY <1>6, <1>9, <2>1, <2>2 DEF Leaves
<1>10. CASE EndsPart(r)
  <2>1. q.at = "read"
    BY <1>10 DEF EndsPart
  <2>2. PICK n \in Nat, rows \in Seq(Source) : PartDone(r, rows)
    BY <1>10 DEF EndsPart
  <2>3. PICK left \in Seq(Seq(KeySet)) :
             /\ reader' = [reader EXCEPT ![r] =
                  [at |-> IF left = <<>> THEN "push" ELSE "read", parts |-> left,
                   skip |-> 0, attempt |-> 1, local |-> reader[r].local \o rows]]
             /\ stage \in Flat => left = <<>>
             /\ reader[r].local \o rows \in Seq(Source)
    BY <1>1, <2>1, <2>2, PartDoneIs
  <2> DEFINE rec == [at |-> IF left = <<>> THEN "push" ELSE "read", parts |-> left,
                     skip |-> 0, attempt |-> 1, local |-> reader[r].local \o rows]
  <2>4. (IF left = <<>> THEN "push" ELSE "read") \in Places
    BY DEF Places
  <2>5. rec \in Readers
    BY <1>5, <2>3, <2>4 DEF Readers
  <2>6. Shape(rec)
    BY <1>7, <2>3 DEF Shape
  <2>7. Set(r, rec)
    BY <2>3 DEF Set
  <2>8. rec.at # "ended" /\ rec.attempt <= faults' + 1
    BY <1>5
  <2>9. QED
    BY <2>5, <2>6, <2>7, <2>8
<1>11. CASE GoesOn(r)
  <2>1. PICK n \in Nat, rows \in Seq(Source) :
          Set(r, [q EXCEPT !.skip = @ + n, !.attempt = 1, !.local = @ \o rows])
    BY <1>11 DEF GoesOn
  <2> DEFINE rec == [q EXCEPT !.skip = @ + n, !.attempt = 1, !.local = @ \o rows]
  <2>2. q.skip + n \in Nat /\ q.local \o rows \in Seq(Source)
    BY <1>3, ConcatProperties
  <2>3. rec \in Readers
    BY <1>3, <1>5, <2>2 DEF Readers
  <2>4. /\ rec.at = q.at /\ rec.parts = q.parts /\ rec.attempt = 1
    BY <1>3 DEF Readers
  <2>5. q.at = "read" /\ stage \in Flat /\ stage \notin Balance
    BY <1>11 DEF GoesOn, Flat, Balance
  <2>6. Shape(rec)
    BY <1>4, <2>4, <2>5 DEF Shape
  <2>7. QED
    BY <1>5, <2>1, <2>3, <2>4, <2>5, <2>6
<1>12. CASE TriesAgain(r)
  <2> DEFINE rec == [q EXCEPT !.attempt = @ + 1]
  <2>1. Set(r, rec) /\ q.at = "read" /\ q.attempt < MaxRetries /\ faults' = faults + 1
    BY <1>12 DEF TriesAgain
  <2>2. q.attempt + 1 \in 1 .. MaxRetries
    <3>1. MaxRetries \in Nat /\ q.attempt \in Nat /\ q.attempt < MaxRetries
      BY <1>3, <2>1, ReadAssumption
    <3>2. QED
      BY <3>1
  <2>3. rec \in Readers
    BY <1>3, <2>2 DEF Readers
  <2>4. rec.at = q.at /\ rec.parts = q.parts /\ rec.attempt = q.attempt + 1 /\ rec.skip = q.skip /\ rec.local = q.local
    BY <1>3 DEF Readers
  <2>5. Shape(rec)
    BY <1>4, <2>4 DEF Shape
  <2>6. q.attempt + 1 <= faults' + 1
    BY <1>2, <1>3, <1>4, <2>1
  <2>7. QED
    BY <2>1, <2>3, <2>4, <2>5, <2>6
<1>13. CASE Halves2(r)
  <2> DEFINE parts == Halves(Head(q.parts)) \o Tail(q.parts)
             rec == [q EXCEPT !.parts = parts, !.attempt = 1]
  <2>1. Set(r, rec) /\ q.at = "read" /\ stage \in Balance /\ Len(Head(q.parts)) > 1
    BY <1>13 DEF Halves2
  <2>2. q.parts # <<>>
    BY <1>4, <2>1 DEF Shape
  <2>3. Head(q.parts) \in Seq(KeySet) /\ Tail(q.parts) \in Seq(Seq(KeySet))
    BY <1>3, <2>2, HeadTailProperties
  <2>4. PICK a \in Seq(KeySet), b \in Seq(KeySet) : Halves(Head(q.parts)) = <<a, b>>
    BY <2>1, <2>3, HalvesAre
  <2>5. <<a, b>> \in Seq(Seq(KeySet)) /\ <<a, b>> # <<>>
    OBVIOUS
  <2>6. parts \in Seq(Seq(KeySet)) /\ parts # <<>>
    <3>1. parts = <<a, b>> \o Tail(q.parts)
      BY <2>4
    <3> HIDE DEF parts
    <3>2. parts \in Seq(Seq(KeySet))
      BY <2>3, <2>5, <3>1, ConcatProperties
    <3>3. parts # <<>>
      BY <2>3, <2>5, <3>1, ConcatEqualIffEmpty
    <3>4. QED
      BY <3>2, <3>3
  <2> HIDE DEF parts
  <2>7. rec \in Readers
    BY <1>3, <1>5, <2>6 DEF Readers
  <2>8. rec.at = q.at /\ rec.parts = parts /\ rec.attempt = 1 /\ rec.skip = q.skip /\ rec.local = q.local
    BY <1>3 DEF Readers
  <2>9. stage \notin Flat
    BY <2>1 DEF Flat, Balance
  <2>10. Shape(rec)
    BY <1>4, <2>1, <2>6, <2>8, <2>9 DEF Shape
  <2>11. QED
    BY <1>5, <2>1, <2>7, <2>8, <2>10
<1>14. CASE Throws(r) \/ Pushes(r)
  <2>1. PICK at \in {"thrown", "take"} : Set(r, [Rest EXCEPT !.at = at])
    BY <1>14 DEF Throws, Pushes
  <2> DEFINE rec == [at |-> at, parts |-> <<>>, skip |-> 0, attempt |-> 1, local |-> <<>>]
  <2>2. Set(r, rec)
    BY <1>6, <2>1
  <2>3. at \in Places /\ at # "ended" /\ at # "read"
    BY DEF Places
  <2>4. <<>> \in Seq(Seq(KeySet)) /\ <<>> \in Seq(Source)
    OBVIOUS
  <2>5. rec \in Readers
    BY <1>5, <2>3, <2>4 DEF Readers
  <2>6. Shape(rec)
    BY <1>7, <2>3 DEF Shape
  <2>7. QED
    BY <1>5, <2>2, <2>3, <2>5, <2>6
<1>15. QED
  BY <1>1, <1>8, <1>9, <1>10, <1>11, <1>12, <1>13, <1>14

LEMMA RefsTyped ==
    ASSUME NEW rows \in Seq(Entries("analytics"))
    PROVE  Refs(rows) \in Seq(KeySet) /\ Len(Refs(rows)) = Len(rows)
<1>1. Len(rows) \in Nat /\ DOMAIN rows = 1 .. Len(rows) /\ \A i \in DOMAIN rows : rows[i] \in Entries("analytics")
  OBVIOUS
<1>2. \A x \in Entries("analytics") : x.val.ref \in KeySet
  BY EntriesTyped DEF Stages, Flat
<1>3. Refs(rows) \in [1 .. Len(rows) -> KeySet]
  BY <1>1, <1>2 DEF Refs
<1>4. QED
  BY <1>1, <1>3, SeqDef

LEMMA MissingTyped ==
    ASSUME TypeInv, stage \in Stages, NEW part \in Seq(KeySet), NEW why \in Reasons
    PROVE  Missing(part, why) \in [Stages -> SUBSET (KeySet \X Reasons)]
<1>1. {<<part[i], why>> : i \in DOMAIN part} \subseteq KeySet \X Reasons
  OBVIOUS
<1>2. lost \in [Stages -> SUBSET (KeySet \X Reasons)]
  BY DEF TypeInv
<1>3. lost[stage] \cup {<<part[i], why>> : i \in DOMAIN part} \in SUBSET (KeySet \X Reasons)
  BY <1>1, <1>2
<1>4. QED
  BY <1>2, <1>3 DEF Missing

(* A read begins with a team at rest that takes chunks, and with no rows.  *)
LEMMA Starts ==
    ASSUME NEW s \in Stages, NEW ks, StartRead(s, ks), faults' \in Nat
    PROVE  /\ stage' = s /\ keys' = ks /\ next' = 1 /\ out' = <<>> /\ out' \in Seq(Source')
           /\ reader' \in [Threads -> Readers'] /\ ShapeInv'
           /\ \A r \in Threads : reader'[r].parts = <<>> /\ reader'[r].local = <<>>
                                 /\ reader'[r].at \in {"take", "ended"}
<1> DEFINE go == [at |-> "take", parts |-> <<>>, skip |-> 0, attempt |-> 1, local |-> <<>>]
<1>1. [Rest EXCEPT !.at = "take"] = go
  BY DEF Rest
<1>2. Rest = [at |-> "ended", parts |-> <<>>, skip |-> 0, attempt |-> 1, local |-> <<>>]
  BY DEF Rest
<1>3. /\ stage' = s /\ keys' = ks /\ next' = 1 /\ out' = <<>>
      /\ reader' = [r \in Threads |-> IF r \in Team(s) THEN go ELSE Rest]
  BY <1>1 DEF StartRead, Threads
<1> HIDE DEF go
<1>4. go \in Readers' /\ Rest \in Readers'
  <2>1. 1 \in 1 .. MaxRetries
    BY ReadAssumption
  <2>2. <<>> \in Seq(Seq(KeySet)) /\ <<>> \in Seq(Source') /\ 0 \in Nat /\ {"ended", "take"} \subseteq Places
    BY DEF Places
  <2>3. QED
    BY <1>2, <2>1, <2>2 DEF Readers, go
<1>5. reader' \in [Threads -> Readers']
  BY <1>3, <1>4
<1>6. \A r \in Threads : reader'[r] = IF r \in Team(s) THEN go ELSE Rest
  BY <1>3
<1>7. /\ go.at = "take" /\ go.parts = <<>> /\ go.skip = 0 /\ go.attempt = 1 /\ go.local = <<>>
      /\ Rest.at = "ended" /\ Rest.parts = <<>> /\ Rest.skip = 0 /\ Rest.attempt = 1 /\ Rest.local = <<>>
  BY <1>2 DEF go
<1>8. \A f \in Nat : 1 <= f + 1
  OBVIOUS
<1>9. 1 <= faults' + 1
  BY <1>8
<1>10. Len(<<>>) <= 1
  OBVIOUS
<1>11. ShapeInv'
  <2>1. SUFFICES ASSUME NEW r \in Threads PROVE Shaped(r)'
    BY DEF ShapeInv
  <2>2. CASE r \in Team(s)
    BY <1>3, <1>6, <1>7, <1>9, <1>10, <2>2 DEF Shaped, Shape
  <2>3. CASE r \notin Team(s)
    BY <1>3, <1>6, <1>7, <1>9, <1>10, <2>3 DEF Shaped, Shape
  <2>4. QED
    BY <2>2, <2>3
<1>12. <<>> \in Seq(Source')
  OBVIOUS
<1>13. QED
  BY <1>3, <1>5, <1>6, <1>7, <1>11, <1>12

(* No read goes on: every thread has ended, with nothing in hand.          *)
LEMMA Idle ==
    ASSUME TypeInv, ShapeInv, stage' \notin Stages, UNCHANGED <<reader, faults>>,
           \A r \in Threads : reader[r].at = "ended"
    PROVE  reader' \in [Threads -> Readers'] /\ ShapeInv'
<1>1. Source' = {}
  BY DEF Source
<1>2. ASSUME NEW r \in Threads PROVE reader[r] \in Readers' /\ Shaped(r)'
  <2>1. reader[r] \in Readers /\ Shaped(r) /\ reader[r].at = "ended"
    BY DEF TypeInv, ShapeInv
  <2>2. reader[r].local = <<>> /\ reader[r].parts = <<>> /\ reader[r].attempt <= faults + 1
    BY <2>1 DEF Shaped, Shape
  <2>3. <<>> \in Seq(Source')
    OBVIOUS
  <2>4. reader[r] \in Readers'
    BY <2>1, <2>2, <2>3 DEF Readers
  <2>5. reader'[r] = reader[r] /\ faults' = faults
    OBVIOUS
  <2>6. stage' \notin Flat /\ stage' \notin Balance
    BY DEF Stages
  <2>7. Shaped(r)'
    BY <2>1, <2>2, <2>5, <2>6 DEF Shaped, Shape
  <2>8. QED
    BY <2>4, <2>7
<1>3. reader \in [Threads -> Readers']
  BY <1>2 DEF TypeInv
<1>4. QED
  BY <1>2, <1>3 DEF ShapeInv

LEMMA AllEnded ==
    ASSUME ShapeInv, NEW s \in Stages, Reading(s)
    PROVE  /\ stage = s
           /\ \A r \in Threads : reader[r].at = "ended" /\ reader[r].parts = <<>> /\ reader[r].local = <<>>
           /\ \A r \in Team(s) : r \in Threads /\ ~HasChunk(next)
<1>1. stage = s /\ \A r \in Team(s) : reader[r].at \in {"ended", "thrown"} /\ reader[r].at # "thrown"
  BY DEF Reading, Ended, Threw
<1>2. \A r \in Team(s) : r \in Threads
  BY DEF Team, Threads
<1>3. ASSUME NEW r \in Threads
      PROVE  reader[r].at = "ended" /\ reader[r].parts = <<>> /\ reader[r].local = <<>>
  <2>1. reader[r].at = "ended"
    BY <1>1 DEF ShapeInv, Shaped
  <2>2. QED
    BY <2>1 DEF ShapeInv, Shaped, Shape
<1>4. \A r \in Team(s) : ~HasChunk(next)
  BY <1>1, <1>2, <1>3 DEF ShapeInv, Shaped
<1>5. QED
  BY <1>1, <1>2, <1>3, <1>4

(* What a read has brought is kept, and the next one begins.               *)
LEMMA JoinIs ==
    ASSUME TypeInv, ShapeInv, Join, ~JoinSuppliers, ~JoinThrown
    PROVE  \E s, t \in Stages : \E rows \in Seq(Entries(s)), ks \in Seq(KeySet) :
             /\ Reading(s) /\ pulled' = [pulled EXCEPT ![s] = rows]
             /\ StartRead(t, ks) /\ JoinFrame
             /\ rows = IF s = "analytics" THEN Unique(out) ELSE out
             /\ \/ s = "warehouses" /\ t = "analytics" /\ ks = skus
                \/ s = "analytics" /\ t = "costs" /\ ks = Refs(rows)
                \/ s = "analytics" /\ t = "stocks" /\ ks = skus /\ rows = <<>>
                \/ s = "costs" /\ t = "stocks" /\ ks = skus
                \/ s = "stocks" /\ t = "suppliers" /\ ks = skus
<1>1. \A s \in Stages : stage = s => out \in Seq(Entries(s))
  BY DEF TypeInv, Source
<1>2. skus \in Seq(KeySet)
  BY DEF TypeInv
<1>3. {"warehouses", "analytics", "costs", "stocks", "suppliers"} \subseteq Stages
  BY DEF Stages, Flat, Balance
<1>4. CASE JoinWarehouses
  <2>1. Reading("warehouses") /\ pulled' = [pulled EXCEPT !["warehouses"] = out] /\ out \in Seq(Entries("warehouses"))
    BY <1>1, <1>3, <1>4 DEF JoinWarehouses, Reading, Result
  <2>2. StartRead("analytics", skus) /\ JoinFrame
    BY <1>4 DEF JoinWarehouses
  <2>3. QED
    BY <1>2, <1>3, <2>1, <2>2
<1>5. CASE JoinAnalytics
  <2> DEFINE found == Unique(out)
  <2>1. Reading("analytics") /\ pulled' = [pulled EXCEPT !["analytics"] = found] /\ out \in Seq(Entries("analytics"))
    BY <1>1, <1>3, <1>5 DEF JoinAnalytics, Reading, Result
  <2>2. found \in Seq(Entries("analytics"))
    BY <2>1, UniqueIs
  <2>3. Refs(found) \in Seq(KeySet)
    BY <2>2, RefsTyped
  <2>4. JoinFrame /\ IF found # <<>> THEN StartRead("costs", Refs(found)) ELSE StartRead("stocks", skus)
    BY <1>5 DEF JoinAnalytics
  <2> HIDE DEF found
  <2>5. CASE found # <<>>
    <3>1. StartRead("costs", Refs(found))
      BY <2>4, <2>5
    <3>2. QED
      BY <1>3, <2>1, <2>2, <2>3, <2>4, <3>1 DEF found
  <2>6. CASE found = <<>>
    <3>1. StartRead("stocks", skus)
      BY <2>4, <2>6
    <3>2. QED
      BY <1>2, <1>3, <2>1, <2>2, <2>4, <2>6, <3>1 DEF found
  <2>7. QED
    BY <2>5, <2>6
<1>6. CASE JoinCosts
  <2>1. Reading("costs") /\ pulled' = [pulled EXCEPT !["costs"] = out] /\ out \in Seq(Entries("costs"))
    BY <1>1, <1>3, <1>6 DEF JoinCosts, Reading, Result
  <2>2. StartRead("stocks", skus) /\ JoinFrame
    BY <1>6 DEF JoinCosts
  <2>3. QED
    BY <1>2, <1>3, <2>1, <2>2
<1>7. CASE JoinStocks
  <2>1. Reading("stocks") /\ pulled' = [pulled EXCEPT !["stocks"] = out] /\ out \in Seq(Entries("stocks"))
    BY <1>1, <1>3, <1>7 DEF JoinStocks, Reading, Result
  <2>2. StartRead("suppliers", skus) /\ JoinFrame
    BY <1>7 DEF JoinStocks
  <2>3. QED
    BY <1>2, <1>3, <2>1, <2>2
<1>8. QED
  BY <1>4, <1>5, <1>6, <1>7 DEF Join

LEMMA TypeAsk == ASSUME TypeInv, ShapeInv, Ask PROVE TypeInv' /\ ShapeInv'
<1>1. /\ stage = "start" /\ UNCHANGED <<pulled, book, limit, changes, faults, odd, lost>>
  BY DEF Ask, onec
<1>2. PICK ks \in Requests :
         /\ skus' = ks
         /\ IF ks = <<>> THEN stage' = "refused" /\ UNCHANGED <<keys, next, reader, out>>
            ELSE StartRead("warehouses", AllKeys)
  BY DEF Ask
<1>3. skus' \in Seq(KeySet)
  BY <1>2, RequestsTyped
<1>4. faults' \in Nat
  BY <1>1, ReadAssumption DEF TypeInv
<1>5. CASE ks = <<>>
  <2>1. stage' = "refused" /\ UNCHANGED <<keys, next, reader, out>>
    BY <1>2, <1>5
  <2>2. stage \notin Stages /\ stage' \notin Stages
    BY <1>1, <2>1 DEF Stages, Flat, Balance
  <2>3. \A r \in Threads : reader[r].at = "ended"
    BY <2>2 DEF ShapeInv, Shaped
  <2>4. reader' \in [Threads -> Readers'] /\ ShapeInv'
    BY <1>1, <2>1, <2>2, <2>3, Idle
  <2>5. Source' = Source
    BY <2>2 DEF Source
  <2>6. stage' \in Stages \cup Endings \cup {"start"}
    BY <2>1 DEF Endings
  <2>7. QED
    BY <1>1, <1>3, <2>1, <2>4, <2>5, <2>6 DEF TypeInv
<1>6. CASE ks # <<>>
  <2>1. StartRead("warehouses", AllKeys) /\ "warehouses" \in Stages
    BY <1>2, <1>6 DEF Stages, Flat
  <2>2. /\ stage' = "warehouses" /\ keys' = AllKeys /\ next' = 1 /\ out' \in Seq(Source')
        /\ reader' \in [Threads -> Readers'] /\ ShapeInv'
    BY <1>4, <2>1, Starts
  <2>3. AllKeys \in Seq(KeySet)
    BY DEF AllKeys, KeySet
  <2>4. 1 \in Nat \ {0}
    OBVIOUS
  <2>5. QED
    BY <1>1, <1>3, <2>1, <2>2, <2>3, <2>4 DEF TypeInv
<1>7. QED
  BY <1>5, <1>6

LEMMA TypeJoin == ASSUME TypeInv, ShapeInv, Join PROVE TypeInv' /\ ShapeInv'
<1>0. faults \in Nat /\ 1 \in Nat \ {0}
  BY ReadAssumption DEF TypeInv
<1>1. CASE ~JoinSuppliers /\ ~JoinThrown
  <2>1. PICK s \in Stages, t \in Stages : \E rows \in Seq(Entries(s)), ks \in Seq(KeySet) :
             /\ pulled' = [pulled EXCEPT ![s] = rows]
             /\ StartRead(t, ks) /\ JoinFrame
    BY <1>1, JoinIs
  <2>2. PICK rows \in Seq(Entries(s)), ks \in Seq(KeySet) :
             /\ pulled' = [pulled EXCEPT ![s] = rows]
             /\ StartRead(t, ks) /\ JoinFrame
    BY <2>1
  <2>3. UNCHANGED <<skus, book, limit, changes, faults, odd, lost>>
    BY <2>2 DEF JoinFrame, onec
  <2>4. /\ stage' = t /\ keys' = ks /\ next' = 1 /\ out' \in Seq(Source')
        /\ reader' \in [Threads -> Readers'] /\ ShapeInv'
    BY <1>0, <2>2, <2>3, Starts
  <2>5. DOMAIN pulled' = Stages /\ \A x \in Stages : pulled'[x] \in Seq(Entries(x))
    BY <2>2 DEF TypeInv
  <2>6. QED
    BY <1>0, <2>3, <2>4, <2>5 DEF TypeInv
<1>2. CASE JoinSuppliers
  <2>1. /\ Reading("suppliers") /\ pulled' = [pulled EXCEPT ![stage] = out]
        /\ stage' = "answered" /\ keys' = <<>> /\ next' = 1 /\ out' = <<>>
        /\ UNCHANGED <<skus, reader, book, limit, changes, faults, odd, lost>>
    BY <1>2 DEF JoinSuppliers, Result, onec
  <2>2. stage = "suppliers" /\ "suppliers" \in Stages
    BY <2>1 DEF Reading, Stages, Flat
  <2>3. \A r \in Threads : reader[r].at = "ended"
    BY <2>1, <2>2, AllEnded
  <2>4. stage' \notin Stages /\ stage' \in Endings
    BY <2>1 DEF Stages, Flat, Balance, Endings
  <2>5. reader' \in [Threads -> Readers'] /\ ShapeInv'
    BY <2>1, <2>3, <2>4, Idle
  <2>6. out \in Seq(Entries("suppliers"))
    BY <2>2 DEF TypeInv, Source
  <2>7. DOMAIN pulled' = Stages /\ \A x \in Stages : pulled'[x] \in Seq(Entries(x))
    BY <2>1, <2>2, <2>6 DEF TypeInv
  <2>8. <<>> \in Seq(Source') /\ <<>> \in Seq(KeySet)
    OBVIOUS
  <2>9. QED
    BY <1>0, <2>1, <2>4, <2>5, <2>7, <2>8 DEF TypeInv
<1>3. CASE JoinThrown
  <2>1. /\ stage' = "thrown" /\ pulled' = [s \in Stages |-> <<>>]
        /\ keys' = <<>> /\ next' = 1 /\ out' = <<>>
        /\ reader' = [r \in Threads |-> Rest]
        /\ UNCHANGED <<skus, book, limit, changes, faults, odd, lost>>
    BY <1>3 DEF JoinThrown, onec, Threads
  <2>2. stage' \notin Stages /\ stage' \in Endings
    BY <2>1 DEF Stages, Flat, Balance, Endings
  <2>3. Rest = [at |-> "ended", parts |-> <<>>, skip |-> 0, attempt |-> 1, local |-> <<>>]
    BY DEF Rest
  <2>4. Rest \in Readers'
    <3>1. 1 \in 1 .. MaxRetries
      BY ReadAssumption
    <3>2. <<>> \in Seq(Seq(KeySet)) /\ <<>> \in Seq(Source') /\ 0 \in Nat /\ "ended" \in Places
      BY DEF Places
    <3>3. QED
      BY <2>3, <3>1, <3>2 DEF Readers
  <2>5. reader' \in [Threads -> Readers']
    BY <2>1, <2>4
  <2>6. ShapeInv'
    <3>1. Rest.at = "ended" /\ Rest.parts = <<>> /\ Rest.local = <<>> /\ Rest.attempt = 1
      BY <2>3
    <3>2. 1 <= faults + 1
      BY <1>0
    <3>3. stage' \notin Flat /\ stage' \notin Balance
      BY <2>2 DEF Stages
    <3>4. ASSUME NEW r \in Threads PROVE Shaped(r)'
      <4>1. reader'[r] = Rest /\ faults' = faults
        BY <2>1
      <4>2. QED
        BY <2>2, <3>1, <3>2, <3>3, <4>1 DEF Shaped, Shape
    <3>5. QED
      BY <3>4 DEF ShapeInv
  <2>7. <<>> \in Seq(Source') /\ <<>> \in Seq(KeySet) /\ \A x \in Stages : <<>> \in Seq(Entries(x))
    OBVIOUS
  <2>8. QED
    BY <1>0, <2>1, <2>2, <2>5, <2>6, <2>7 DEF TypeInv
<1>4. QED
  BY <1>1, <1>2, <1>3

(* An edit of 1C leaves the request alone, and 1C without a row twice.     *)
LEMMA EditIs ==
    ASSUME TypeInv, BookInv, OnecChanges
    PROVE  /\ stage \in Stages
           /\ UNCHANGED <<stage, skus, keys, next, reader, out, pulled, answer, limit, faults, odd, lost>>
           /\ changes' # 0 /\ changes' \in 0 .. MaxChanges
           /\ DOMAIN book' = Stages
           /\ \A s \in Stages : book'[s] \in Seq(Entries(s)) /\ Distinct(book'[s])
<1>1. /\ stage \in Stages /\ changes < MaxChanges /\ changes' = changes + 1
      /\ UNCHANGED <<stage, skus, keys, next, reader, out, pulled, answer, limit, faults, odd, lost>>
      /\ \/ \E s \in DOMAIN Newcomers :
              /\ \A i \in DOMAIN book[s] : book[s][i] # Newcomers[s]
              /\ book' = [book EXCEPT ![s] = <<Newcomers[s]>> \o @]
         \/ \E s \in DOMAIN Newcomers : book[s] # <<>> /\ book' = [book EXCEPT ![s] = Tail(@)]
  BY DEF OnecChanges
<1>2. changes' # 0 /\ changes' \in 0 .. MaxChanges
  <2>1. changes \in 0 .. MaxChanges /\ MaxChanges \in Nat
    BY ReadAssumption DEF TypeInv
  <2>2. QED
    BY <1>1, <2>1
<1>3. DOMAIN book = Stages /\ \A s \in Stages : book[s] \in Seq(Entries(s)) /\ Distinct(book[s])
  BY DEF TypeInv, BookInv
<1>4. PICK s \in DOMAIN Newcomers :
        \/ /\ \A i \in DOMAIN book[s] : book[s][i] # Newcomers[s]
           /\ book' = [book EXCEPT ![s] = <<Newcomers[s]>> \o @]
        \/ book[s] # <<>> /\ book' = [book EXCEPT ![s] = Tail(@)]
  BY <1>1
<1>5. s \in Stages /\ Newcomers[s] \in Entries(s)
  BY BookAssumption DEF Entries
<1> DEFINE b == book[s]
<1>6. b \in Seq(Entries(s)) /\ Distinct(b)
  BY <1>3, <1>5
<1> HIDE DEF b
<1>7. ASSUME \A i \in DOMAIN b : b[i] # Newcomers[s]
      PROVE  <<Newcomers[s]>> \o b \in Seq(Entries(s)) /\ Distinct(<<Newcomers[s]>> \o b)
  <2> DEFINE x == Newcomers[s]
             c == <<x>> \o b
  <2>1. <<x>> \in Seq(Entries(s)) /\ Len(<<x>>) = 1 /\ <<x>>[1] = x
    BY <1>5
  <2>2. /\ c \in Seq(Entries(s)) /\ Len(c) = 1 + Len(b)
        /\ \A i \in 1 .. 1 + Len(b) : c[i] = IF i <= 1 THEN <<x>>[i] ELSE b[i - 1]
    BY <1>6, <2>1, ConcatProperties
  <2> HIDE DEF c, x
  <2>3. Len(b) \in Nat /\ DOMAIN b = 1 .. Len(b)
    BY <1>6
  <2>4. DOMAIN c = 1 .. 1 + Len(b)
    BY <2>2
  <2>5. c[1] = x /\ \A i \in DOMAIN c : i # 1 => i - 1 \in DOMAIN b /\ c[i] = b[i - 1]
    <3>1. c[1] = x
      BY <2>1, <2>2, <2>3
    <3>2. ASSUME NEW i \in DOMAIN c, i # 1 PROVE i - 1 \in DOMAIN b /\ c[i] = b[i - 1]
      BY <2>2, <2>3, <2>4, <3>2
    <3>3. QED
      BY <3>1, <3>2
  <2>6. ASSUME NEW i \in DOMAIN c, NEW j \in DOMAIN c, c[i] = c[j] PROVE i = j
    <3>1. CASE i = 1 \/ j = 1
      BY <1>7, <2>5, <2>6, <3>1 DEF x
    <3>2. CASE i # 1 /\ j # 1
      <4>1. i - 1 = j - 1
        BY <1>6, <2>5, <2>6, <3>2 DEF Distinct
      <4>2. i \in Nat /\ j \in Nat
        BY <2>3, <2>4
      <4>3. QED
        BY <4>1, <4>2
    <3>3. QED
      BY <3>1, <3>2
  <2>7. QED
    BY <2>2, <2>6 DEF Distinct, c, x
<1>8. ASSUME b # <<>> PROVE Tail(b) \in Seq(Entries(s)) /\ Distinct(Tail(b))
  <2> DEFINE c == Tail(b)
  <2>1. /\ c \in Seq(Entries(s)) /\ Len(c) = Len(b) - 1
        /\ \A i \in 1 .. Len(c) : c[i] = b[i + 1]
    BY <1>6, <1>8, HeadTailProperties
  <2> HIDE DEF c
  <2>2. Len(b) \in Nat /\ DOMAIN b = 1 .. Len(b) /\ DOMAIN c = 1 .. Len(c)
    BY <1>6, <2>1
  <2>3. ASSUME NEW i \in DOMAIN c, NEW j \in DOMAIN c, c[i] = c[j] PROVE i = j
    <3>1. i \in Nat /\ j \in Nat
      BY <2>1, <2>2
    <3>2. i + 1 \in DOMAIN b /\ j + 1 \in DOMAIN b
      BY <2>1, <2>2
    <3>3. b[i + 1] = b[j + 1]
      BY <2>1, <2>2, <2>3
    <3>4. i + 1 = j + 1
      BY <1>6, <3>2, <3>3 DEF Distinct
    <3>5. QED
      BY <3>1, <3>4
  <2>4. QED
    BY <2>1, <2>3 DEF Distinct, c
<1>9. PICK new \in Seq(Entries(s)) : Distinct(new) /\ book' = [book EXCEPT ![s] = new]
  BY <1>4, <1>7, <1>8 DEF b
<1>10. DOMAIN book' = Stages
  BY <1>3, <1>9
<1>11. ASSUME NEW t \in Stages PROVE book'[t] \in Seq(Entries(t)) /\ Distinct(book'[t])
  <2>1. book'[t] = IF t = s THEN new ELSE book[t]
    BY <1>3, <1>9
  <2>2. QED
    BY <1>3, <1>9, <2>1
<1>12. QED
  BY <1>1, <1>2, <1>10, <1>11

LEMMA TypeEdit == ASSUME TypeInv, BookInv, ShapeInv, OnecChanges PROVE TypeInv' /\ ShapeInv'
<1>1. /\ UNCHANGED <<stage, skus, keys, next, reader, out, pulled, limit, faults, odd, lost>>
      /\ changes' \in 0 .. MaxChanges /\ DOMAIN book' = Stages
      /\ \A s \in Stages : book'[s] \in Seq(Entries(s))
  BY EditIs
<1>2. TypeInv'
  BY <1>1 DEF TypeInv, Readers, Source
<1>3. ShapeInv'
  BY <1>1 DEF ShapeInv, Shaped, Shape, HasChunk, Offset, ChunkLength
<1>4. QED
  BY <1>2, <1>3

LEMMA TypeThread == ASSUME TypeInv, BookInv, ShapeInv, NEW r \in Threads, Step(r) PROVE TypeInv' /\ ShapeInv'
<1>1. /\ UNCHANGED <<stage, skus, keys, pulled, answer, book, limit, changes>>
      /\ stage \in Stages /\ r \in Team(stage)
      /\ faults' \in {faults, faults + 1} /\ faults' \in 0 .. MaxFaults
      /\ odd' \in 0 .. MaxOdd
      /\ \/ Takes(r) \/ Leaves(r) \/ EndsPart(r) \/ GoesOn(r)
         \/ TriesAgain(r) \/ Halves2(r) \/ Throws(r) \/ Pushes(r)
  BY StepIs
<1>2. PICK rec \in Readers :
        Set(r, rec) /\ Shape(rec) /\ rec.attempt <= faults' + 1 /\ (rec.at = "ended" => Leaves(r))
  BY NewReader
<1>3. Readers' = Readers /\ Source' = Source
  BY <1>1 DEF Readers, Source
<1>4. reader' \in [Threads -> Readers']
  BY <1>2, <1>3 DEF Set, TypeInv
<1>5. next' \in Nat \ {0}
  <2>1. next \in Nat \ {0}
    BY DEF TypeInv
  <2>2. next' = next + 1 \/ next' = next
    BY <1>1 DEF Takes, Leaves, EndsPart, GoesOn, TriesAgain, Halves2, Throws, Pushes
  <2>3. \A n \in Nat \ {0} : n + 1 \in Nat \ {0}
    OBVIOUS
  <2>4. QED
    BY <2>1, <2>2, <2>3
<1>6. out' \in Seq(Source')
  <2>1. out \in Seq(Source) /\ reader[r].local \in Seq(Source)
    BY DEF TypeInv, Readers
  <2>2. CASE Pushes(r)
    BY <1>3, <2>1, <2>2, ConcatProperties DEF Pushes
  <2>3. CASE ~Pushes(r)
    <3>1. out' = out
      BY <1>1, <2>3 DEF Takes, Leaves, EndsPart, GoesOn, TriesAgain, Halves2, Throws
    <3>2. QED
      BY <1>3, <2>1, <3>1
  <2>4. QED
    BY <2>2, <2>3
<1>7. lost' \in [Stages -> SUBSET (KeySet \X Reasons)]
  <2>1. CASE EndsPart(r)
    <3>1. reader[r].parts \in Seq(Seq(KeySet)) /\ reader[r].parts # <<>>
      BY <2>1 DEF EndsPart, TypeInv, Readers, ShapeInv, Shaped, Shape
    <3>2. Head(reader[r].parts) \in Seq(KeySet)
      BY <3>1, HeadTailProperties
    <3>3. lost' = lost \/ \E why \in Reasons : lost' = Missing(Head(reader[r].parts), why)
      BY <2>1 DEF EndsPart
    <3>4. QED
      BY <1>1, <3>2, <3>3, MissingTyped DEF TypeInv
  <2>2. CASE ~EndsPart(r)
    BY <1>1, <2>2 DEF TypeInv, Takes, Leaves, GoesOn, TriesAgain, Halves2, Throws, Pushes
  <2>3. QED
    BY <2>1, <2>2
<1>8. TypeInv'
  BY <1>1, <1>3, <1>4, <1>5, <1>6, <1>7 DEF TypeInv
<1>9. ShapeInv'
  <2>1. SUFFICES ASSUME NEW p \in Threads PROVE Shaped(p)'
    BY DEF ShapeInv
  <2>2. Shape(reader[p])' /\ reader'[p].attempt <= faults' + 1
    <3>1. CASE p = r
      <4>1. reader'[p] = rec
        BY <1>2, <3>1 DEF Set, TypeInv
      <4>2. QED
        BY <1>1, <1>2, <4>1 DEF Shape
    <3>2. CASE p # r
      <4>1. reader'[p] = reader[p] /\ Shaped(p)
        BY <1>2, <3>2 DEF Set, ShapeInv, TypeInv
      <4>2. reader[p].attempt <= faults + 1 /\ Shape(reader[p])
        BY <4>1 DEF Shaped
      <4>3. faults \in Nat /\ reader[p].attempt \in Nat
        BY ReadAssumption DEF TypeInv, Readers
      <4>4. reader[p].attempt <= faults' + 1
        BY <1>1, <4>2, <4>3
      <4>5. QED
        BY <1>1, <4>1, <4>2, <4>4 DEF Shape
    <3>3. QED
      BY <3>1, <3>2
  <2>3. p \notin Team(stage) => reader'[p].at = "ended"
    <3>1. SUFFICES ASSUME p \notin Team(stage) PROVE reader'[p].at = "ended"
      OBVIOUS
    <3>2. p # r /\ reader'[p] = reader[p] /\ Shaped(p)
      BY <1>1, <1>2, <3>1 DEF Set, ShapeInv, TypeInv
    <3>3. QED
      BY <3>1, <3>2 DEF Shaped
  <2>4. p \in Team(stage) /\ reader'[p].at = "ended" => ~HasChunk(next)'
    <3>1. SUFFICES ASSUME p \in Team(stage), reader'[p].at = "ended" PROVE ~HasChunk(next)'
      OBVIOUS
    <3>2. ~HasChunk(next) /\ next' = next
      <4>1. CASE p = r
        <5>1. reader'[p] = rec
          BY <1>2, <4>1 DEF Set, TypeInv
        <5>2. Leaves(r)
          BY <1>2, <3>1, <5>1
        <5>3. QED
          BY <5>2 DEF Leaves
      <4>2. CASE p # r
        <5>1. reader'[p] = reader[p] /\ Shaped(p)
          BY <1>2, <4>2 DEF Set, ShapeInv, TypeInv
        <5>2. ~HasChunk(next)
          BY <1>1, <3>1, <5>1 DEF Shaped
        <5>3. ~Takes(r)
          BY <5>2 DEF Takes
        <5>4. QED
          BY <1>1, <5>2, <5>3 DEF Leaves, EndsPart, GoesOn, TriesAgain, Halves2, Throws, Pushes
      <4>3. QED
        BY <4>1, <4>2
    <3>3. QED
      BY <1>1, <3>2 DEF HasChunk, Offset, ChunkLength
  <2>5. QED
    BY <1>1, <2>2, <2>3, <2>4 DEF Shaped
<1>10. QED
  BY <1>8, <1>9

LEMMA TypeInit == Init => TypeInv /\ BookInv /\ ShapeInv
<1> SUFFICES ASSUME Init PROVE TypeInv /\ BookInv /\ ShapeInv
  OBVIOUS
<1>1. /\ stage = "start" /\ skus = <<>> /\ keys = <<>> /\ next = 1 /\ reader = [r \in Threads |-> Rest]
      /\ out = <<>> /\ pulled = [s \in Stages |-> <<>>] /\ book \in Books /\ limit \in UrlLimits
      /\ faults = 0 /\ odd = 0 /\ changes = 0 /\ lost = [s \in Stages |-> {}]
  BY DEF Init, Threads
<1>2. Rest \in Readers
  BY RestTyped
<1>3. <<>> \in Seq(KeySet) /\ <<>> \in Seq(Source) /\ \A s \in Stages : <<>> \in Seq(Entries(s))
  OBVIOUS
<1>4. DOMAIN book = Stages /\ \A s \in Stages : book[s] \in Seq(Entries(s)) /\ Distinct(book[s])
  BY <1>1, BooksTyped
<1>5. 0 \in 0 .. MaxFaults /\ 0 \in 0 .. MaxOdd /\ 0 \in 0 .. MaxChanges
  <2>1. MaxFaults \in Nat
    BY ReadAssumption
  <2>2. MaxOdd \in Nat
    BY ReadAssumption
  <2>3. MaxChanges \in Nat
    BY ReadAssumption
  <2>4. QED
    BY <2>1, <2>2, <2>3
<1>6. "start" \notin Stages
  BY DEF Stages, Flat, Balance
<1>7. TypeInv
  BY <1>1, <1>2, <1>3, <1>4, <1>5 DEF TypeInv
<1>8. BookInv
  BY <1>1, <1>4 DEF BookInv
<1>9. ShapeInv
  <2>1. Rest.at = "ended" /\ Rest.parts = <<>> /\ Rest.local = <<>> /\ Rest.attempt = 1
    BY DEF Rest
  <2>2. stage \notin Flat /\ stage \notin Balance /\ stage \notin Stages
    BY <1>1, <1>6 DEF Stages
  <2>3. ASSUME NEW r \in Threads PROVE Shaped(r)
    <3>1. reader[r] = Rest
      BY <1>1
    <3>2. QED
      BY <1>1, <2>1, <2>2, <3>1 DEF Shaped, Shape
  <2>4. QED
    BY <2>3 DEF ShapeInv
<1>10. QED
  BY <1>7, <1>8, <1>9

Ground == TypeInv /\ BookInv /\ ShapeInv

LEMMA GroundStep == Ground /\ [Next]_vars => Ground'
<1> SUFFICES ASSUME Ground, [Next]_vars PROVE Ground'
  OBVIOUS
<1> USE DEF Ground
<1>1. CASE OnecChanges
  <2>1. TypeInv' /\ ShapeInv'
    BY <1>1, TypeEdit
  <2>2. changes' # 0 /\ \A s \in Stages : Distinct(book'[s])
    BY <1>1, EditIs
  <2>3. QED
    BY <2>1, <2>2 DEF BookInv
<1>2. CASE ~OnecChanges
  <2>1. UNCHANGED <<book, changes>> /\ TypeInv' /\ ShapeInv'
    <3>1. CASE Ask
      BY <3>1, TypeAsk DEF Ask, onec
    <3>2. CASE Join
      <4>1. UNCHANGED onec
        BY <3>2 DEF Join, JoinWarehouses, JoinAnalytics, JoinCosts, JoinStocks, JoinSuppliers, JoinThrown,
           JoinFrame
      <4>2. QED
        BY <3>2, <4>1, TypeJoin DEF onec
    <3>3. CASE \E r \in Workers \cup {Main} : Step(r)
      <4>1. PICK r \in Threads : Step(r)
        BY <3>3 DEF Threads
      <4>2. UNCHANGED <<book, changes>>
        BY <4>1, StepIs
      <4>3. QED
        BY <4>1, <4>2, TypeThread
    <3>4. CASE UNCHANGED vars
      <4>1. UNCHANGED <<stage, skus, keys, next, reader, out, pulled, book, limit, changes, faults, odd, lost>>
        BY <3>4 DEF vars, onec
      <4>2. TypeInv'
        BY <4>1 DEF TypeInv, Readers, Source
      <4>3. ShapeInv'
        BY <4>1 DEF ShapeInv, Shaped, Shape, HasChunk, Offset, ChunkLength
      <4>4. QED
        BY <4>1, <4>2, <4>3
    <3>5. QED
      BY <1>2, <3>1, <3>2, <3>3, <3>4 DEF Next
  <2>2. QED
    BY <2>1 DEF BookInv
<1>3. QED
  BY <1>1, <1>2

(* Every variable has its type: a page is tried max_retries times at most, *)
(* and a thread that asks has something to ask for.                        *)
THEOREM Ka2TypeCorrect == Spec => []TypeOK
<1>1. Init => Ground
  BY TypeInit DEF Ground
<1>2. Ground => TypeOK
  <2>1. SUFFICES ASSUME Ground PROVE TypeOK
    OBVIOUS
  <2>2. ASSUME NEW r \in Workers \cup {Main}
        PROVE  /\ reader[r].at \in Places
               /\ reader[r].skip \in Nat /\ reader[r].attempt \in 1 .. MaxRetries
               /\ reader[r].at = "read" <=> reader[r].parts # <<>>
    <3>1. reader[r] \in Readers /\ Shape(reader[r])
      BY <2>1 DEF Ground, TypeInv, ShapeInv, Shaped, Threads
    <3>2. QED
      BY <3>1 DEF Readers, Shape
  <2>3. ASSUME NEW s \in Stages, NEW x \in lost[s] PROVE x[2] \in Reasons
    BY <2>1 DEF Ground, TypeInv
  <2>4. QED
    BY <2>1, <2>2, <2>3 DEF Ground, TypeInv, TypeOK
<1>3. QED
  BY <1>1, <1>2, GroundStep, PTL DEF Spec

---------------------------------------------------------------------------
(* Sequences put together and taken apart.                                 *)

LEMMA AppendIs ==
    ASSUME NEW S, NEW s \in Seq(S), NEW t \in Seq(S)
    PROVE  /\ \A k \in DOMAIN (s \o t) :
                \/ k \in DOMAIN s /\ (s \o t)[k] = s[k]
                \/ \E j \in DOMAIN t : k = Len(s) + j /\ (s \o t)[k] = t[j]
           /\ \A i \in DOMAIN s : i \in DOMAIN (s \o t) /\ (s \o t)[i] = s[i]
           /\ \A j \in DOMAIN t : Len(s) + j \in DOMAIN (s \o t) /\ (s \o t)[Len(s) + j] = t[j]
<1> DEFINE u == s \o t
<1>1. /\ u \in Seq(S) /\ Len(u) = Len(s) + Len(t)
      /\ \A i \in 1 .. Len(s) + Len(t) : u[i] = IF i <= Len(s) THEN s[i] ELSE t[i - Len(s)]
  BY ConcatProperties
<1>2. /\ Len(s) \in Nat /\ DOMAIN s = 1 .. Len(s) /\ Len(t) \in Nat /\ DOMAIN t = 1 .. Len(t)
  OBVIOUS
<1>3. DOMAIN u = 1 .. Len(s) + Len(t)
  <2> HIDE DEF u
  <2>1. QED
    BY <1>1
<1> HIDE DEF u
<1>4. ASSUME NEW k \in DOMAIN u
      PROVE  (k \in DOMAIN s /\ u[k] = s[k]) \/ \E j \in DOMAIN t : k = Len(s) + j /\ u[k] = t[j]
  <2>1. k \in 1 .. Len(s) + Len(t)
    BY <1>3
  <2>2. CASE k <= Len(s)
    BY <1>1, <1>2, <2>1, <2>2
  <2>3. CASE ~(k <= Len(s))
    <3>1. k - Len(s) \in DOMAIN t /\ k = Len(s) + (k - Len(s))
      BY <1>2, <2>1, <2>3
    <3>2. u[k] = t[k - Len(s)]
      BY <1>1, <2>1, <2>3
    <3>3. QED
      BY <3>1, <3>2
  <2>4. QED
    BY <2>2, <2>3
<1>5. ASSUME NEW i \in DOMAIN s PROVE i \in DOMAIN u /\ u[i] = s[i]
  BY <1>1, <1>2, <1>3
<1>6. ASSUME NEW j \in DOMAIN t PROVE Len(s) + j \in DOMAIN u /\ u[Len(s) + j] = t[j]
  <2>1. j \in 1 .. Len(t)
    BY <1>2
  <2>2. Len(s) + j \in 1 .. Len(s) + Len(t) /\ ~(Len(s) + j <= Len(s)) /\ Len(s) + j - Len(s) = j
    BY <1>2, <2>1
  <2>3. QED
    BY <1>1, <1>3, <2>2
<1>7. QED
  BY <1>4, <1>5, <1>6 DEF u

LEMMA DistinctAppend ==
    ASSUME NEW S, NEW s \in Seq(S), NEW t \in Seq(S), Distinct(s), Distinct(t),
           \A i \in DOMAIN s, j \in DOMAIN t : s[i] # t[j]
    PROVE  Distinct(s \o t)
<1> DEFINE u == s \o t
<1>1. \A k \in DOMAIN u :
        \/ k \in DOMAIN s /\ u[k] = s[k]
        \/ \E j \in DOMAIN t : k = Len(s) + j /\ u[k] = t[j]
  BY AppendIs
<1> HIDE DEF u
<1>2. SUFFICES ASSUME NEW k \in DOMAIN u, NEW l \in DOMAIN u, u[k] = u[l] PROVE k = l
  BY DEF Distinct, u
<1>3. CASE k \in DOMAIN s /\ u[k] = s[k]
  <2>1. l \in DOMAIN s /\ u[l] = s[l]
    BY <1>1, <1>2, <1>3
  <2>2. QED
    BY <1>2, <1>3, <2>1 DEF Distinct
<1>4. CASE \E j \in DOMAIN t : k = Len(s) + j /\ u[k] = t[j]
  <2>1. PICK j \in DOMAIN t : k = Len(s) + j /\ u[k] = t[j]
    BY <1>4
  <2>2. PICK i \in DOMAIN t : l = Len(s) + i /\ u[l] = t[i]
    BY <1>1, <1>2, <2>1
  <2>3. i = j
    BY <1>2, <2>1, <2>2 DEF Distinct
  <2>4. QED
    BY <2>1, <2>2, <2>3
<1>5. QED
  BY <1>1, <1>3, <1>4

LEMMA TailIs ==
    ASSUME NEW S, NEW s \in Seq(S), s # <<>>
    PROVE  /\ 1 \in DOMAIN s /\ Head(s) = s[1]
           /\ \A i \in DOMAIN Tail(s) : i + 1 \in DOMAIN s /\ Tail(s)[i] = s[i + 1] /\ i \in Nat \ {0}
           /\ \A k \in DOMAIN s : k # 1 => k - 1 \in DOMAIN Tail(s) /\ Tail(s)[k - 1] = s[k]
           /\ Len(s) <= 1 => Tail(s) = <<>>
<1> DEFINE t == Tail(s)
<1>1. t \in Seq(S) /\ Len(t) = Len(s) - 1 /\ \A i \in 1 .. Len(t) : t[i] = s[i + 1]
  BY HeadTailProperties
<1> HIDE DEF t
<1>2. Len(s) \in Nat /\ Len(s) # 0 /\ DOMAIN s = 1 .. Len(s)
  BY EmptySeq
<1>3. 1 \in DOMAIN s /\ Head(s) = s[1]
  BY <1>2
<1>4. DOMAIN t = 1 .. Len(s) - 1
  BY <1>1
<1>5. \A i \in DOMAIN t : i + 1 \in DOMAIN s /\ t[i] = s[i + 1] /\ i \in Nat \ {0}
  BY <1>1, <1>2, <1>4
<1>6. ASSUME NEW k \in DOMAIN s, k # 1 PROVE k - 1 \in DOMAIN t /\ t[k - 1] = s[k]
  <2>1. k \in 1 .. Len(s)
    BY <1>2
  <2>2. k - 1 \in 1 .. Len(s) - 1 /\ k - 1 + 1 = k
    BY <1>2, <1>6, <2>1
  <2>3. QED
    BY <1>1, <1>4, <2>2
<1>7. Len(s) <= 1 => t = <<>>
  BY <1>1, <1>2, EmptySeq
<1>8. QED
  BY <1>3, <1>5, <1>6, <1>7 DEF t

Joined(new, a, b, tail) ==
    /\ \A k \in DOMAIN new :
         \/ k = 1 /\ new[k] = a
         \/ k = 2 /\ new[k] = b
         \/ \E j \in DOMAIN tail : k = 2 + j /\ new[k] = tail[j]
    /\ 1 \in DOMAIN new /\ new[1] = a /\ 2 \in DOMAIN new /\ new[2] = b
    /\ \A j \in DOMAIN tail : 2 + j \in DOMAIN new /\ new[2 + j] = tail[j]

LEMMA JoinedIs ==
    ASSUME NEW S, NEW a \in S, NEW b \in S, NEW tail \in Seq(S)
    PROVE  Joined(<<a, b>> \o tail, a, b, tail) /\ <<a, b>> \o tail \in Seq(S)
<1> DEFINE two == <<a, b>>
<1>1. two \in Seq(S)
  OBVIOUS
<1>2. Len(two) = 2 /\ DOMAIN two = {1, 2} /\ two[1] = a /\ two[2] = b
  OBVIOUS
<1> HIDE DEF two
<1>3. /\ \A k \in DOMAIN (two \o tail) :
           \/ k \in DOMAIN two /\ (two \o tail)[k] = two[k]
           \/ \E j \in DOMAIN tail : k = Len(two) + j /\ (two \o tail)[k] = tail[j]
      /\ \A i \in DOMAIN two : i \in DOMAIN (two \o tail) /\ (two \o tail)[i] = two[i]
      /\ \A j \in DOMAIN tail : Len(two) + j \in DOMAIN (two \o tail) /\ (two \o tail)[Len(two) + j] = tail[j]
  BY <1>1, AppendIs
<1>4. Joined(two \o tail, a, b, tail)
  BY <1>2, <1>3 DEF Joined
<1>5. two \o tail \in Seq(S)
  BY <1>1, ConcatProperties
<1>6. QED
  BY <1>4, <1>5 DEF two

(* The keys of two halves and of what comes after are those there were.    *)
Halved(parts, new) ==
    /\ new # <<>> /\ new \in Seq(Seq(KeySet))
    /\ \E m \in Nat : \A k \in DOMAIN new : \A i \in DOMAIN new[k] :
         \/ /\ k = 1 /\ 1 \in DOMAIN parts /\ i \in DOMAIN parts[1] /\ new[k][i] = parts[1][i]
            /\ i \in Nat /\ i <= m
         \/ /\ k = 2 /\ 1 \in DOMAIN parts /\ m + i \in DOMAIN parts[1]
            /\ new[k][i] = parts[1][m + i] /\ i \in Nat /\ i > 0
         \/ /\ k - 1 \in DOMAIN parts /\ k - 1 # 1 /\ k \in Nat /\ k > 2
            /\ i \in DOMAIN parts[k - 1] /\ new[k][i] = parts[k - 1][i]
    /\ \A x : HasKey(Head(parts), x) => HasKey(Head(new), x) \/ (2 \in DOMAIN new /\ HasKey(new[2], x))
    /\ \A k \in DOMAIN parts : k # 1 => k + 1 \in DOMAIN new /\ new[k + 1] = parts[k] /\ k + 1 > 1

Cut(h, m, a, b) ==
    /\ h \in Seq(KeySet) /\ m \in Nat \ {0} /\ m < Len(h)
    /\ DOMAIN a = 1 .. m /\ \A i \in 1 .. m : a[i] = h[i]
    /\ DOMAIN b = 1 .. Len(h) - m /\ \A i \in 1 .. Len(h) - m : b[i] = h[m + i]

LEMMA CutIs ==
    ASSUME NEW h, NEW m, NEW a, NEW b, Cut(h, m, a, b)
    PROVE  /\ \A i \in DOMAIN a : i \in DOMAIN h /\ a[i] = h[i] /\ i \in Nat /\ i <= m
           /\ \A i \in DOMAIN b : m + i \in DOMAIN h /\ b[i] = h[m + i] /\ i \in Nat /\ i > 0
           /\ \A x : HasKey(h, x) => HasKey(a, x) \/ HasKey(b, x)
<1>1. Len(h) \in Nat /\ DOMAIN h = 1 .. Len(h) /\ m \in Nat \ {0} /\ m < Len(h)
  BY DEF Cut
<1>2. DOMAIN a = 1 .. m /\ \A i \in 1 .. m : a[i] = h[i]
  BY DEF Cut
<1>3. DOMAIN b = 1 .. Len(h) - m /\ \A i \in 1 .. Len(h) - m : b[i] = h[m + i]
  BY DEF Cut
<1> DEFINE n == Len(h)
<1> HIDE DEF n
<1>4. ASSUME NEW i \in DOMAIN a PROVE i \in DOMAIN h /\ a[i] = h[i] /\ i \in Nat /\ i <= m
  <2>1. i \in 1 .. m
    BY <1>2
  <2>2. i \in 1 .. n
    BY <1>1, <2>1 DEF n
  <2>3. QED
    BY <1>1, <1>2, <2>1, <2>2 DEF n
<1>5. ASSUME NEW i \in DOMAIN b PROVE m + i \in DOMAIN h /\ b[i] = h[m + i] /\ i \in Nat /\ i > 0
  <2>1. i \in 1 .. n - m
    BY <1>3 DEF n
  <2>2. m + i \in 1 .. n /\ i \in Nat /\ i > 0
    BY <1>1, <2>1 DEF n
  <2>3. QED
    BY <1>1, <1>3, <2>1, <2>2 DEF n
<1>6. ASSUME NEW x, HasKey(h, x) PROVE HasKey(a, x) \/ HasKey(b, x)
  <2>1. PICK i \in DOMAIN h : h[i] = x
    BY <1>6 DEF HasKey
  <2>2. i \in 1 .. n
    BY <1>1 DEF n
  <2>3. CASE i <= m
    <3>1. i \in 1 .. m
      BY <1>1, <2>2, <2>3 DEF n
    <3>2. i \in DOMAIN a /\ a[i] = x
      BY <1>2, <2>1, <3>1
    <3>3. QED
      BY <3>2 DEF HasKey
  <2>4. CASE ~(i <= m)
    <3>1. i - m \in 1 .. n - m /\ m + (i - m) = i
      BY <1>1, <2>2, <2>4 DEF n
    <3>2. i - m \in DOMAIN b /\ b[i - m] = x
      BY <1>3, <2>1, <3>1 DEF n
    <3>3. QED
      BY <3>2 DEF HasKey
  <2>5. QED
    BY <2>3, <2>4
<1>7. QED
  BY <1>4, <1>5, <1>6

LEMMA HalvedIs ==
    ASSUME NEW parts \in Seq(Seq(KeySet)), parts # <<>>, NEW m, NEW a, NEW b, Cut(Head(parts), m, a, b),
           NEW new \in Seq(Seq(KeySet)), Joined(new, a, b, Tail(parts))
    PROVE  Halved(parts, new)
<1> DEFINE h == Head(parts)
           tail == Tail(parts)
<1>1. 1 \in DOMAIN parts /\ h = parts[1]
  BY TailIs
<1>2. /\ \A i \in DOMAIN a : i \in DOMAIN h /\ a[i] = h[i] /\ i \in Nat /\ i <= m
      /\ \A i \in DOMAIN b : m + i \in DOMAIN h /\ b[i] = h[m + i] /\ i \in Nat /\ i > 0
      /\ \A x : HasKey(h, x) => HasKey(a, x) \/ HasKey(b, x)
  BY CutIs
<1>3. \A j \in DOMAIN tail : j + 1 \in DOMAIN parts /\ tail[j] = parts[j + 1] /\ j \in Nat \ {0}
  BY TailIs
<1>4. ASSUME NEW k \in DOMAIN new, NEW i \in DOMAIN new[k]
      PROVE  \/ /\ k = 1 /\ 1 \in DOMAIN parts /\ i \in DOMAIN parts[1] /\ new[k][i] = parts[1][i]
                /\ i \in Nat /\ i <= m
             \/ /\ k = 2 /\ 1 \in DOMAIN parts /\ m + i \in DOMAIN parts[1]
                /\ new[k][i] = parts[1][m + i] /\ i \in Nat /\ i > 0
             \/ /\ k - 1 \in DOMAIN parts /\ k - 1 # 1 /\ k \in Nat /\ k > 2
                /\ i \in DOMAIN parts[k - 1] /\ new[k][i] = parts[k - 1][i]
  <2>1. CASE k = 1 /\ new[k] = a
    BY <1>1, <1>2, <2>1
  <2>2. CASE k = 2 /\ new[k] = b
    BY <1>1, <1>2, <2>2
  <2>3. CASE \E j \in DOMAIN tail : k = 2 + j /\ new[k] = tail[j]
    <3>1. PICK j \in DOMAIN tail : k = 2 + j /\ new[k] = tail[j]
      BY <2>3
    <3>2. j + 1 \in DOMAIN parts /\ tail[j] = parts[j + 1] /\ j \in Nat \ {0}
      BY <1>3
    <3>3. \A x, y : x = 2 + y /\ y \in Nat \ {0} => x - 1 = y + 1 /\ x - 1 # 1 /\ x \in Nat /\ x > 2
      OBVIOUS
    <3>4. k - 1 = j + 1 /\ k - 1 # 1 /\ k \in Nat /\ k > 2
      BY <3>1, <3>2, <3>3
    <3>5. QED
      BY <3>1, <3>2, <3>4
  <2>4. QED
    BY <2>1, <2>2, <2>3 DEF Joined
<1>5. new # <<>> /\ Head(new) = a
  <2>1. 1 \in DOMAIN new /\ new[1] = a
    BY DEF Joined
  <2>2. new # <<>>
    BY <2>1, EmptySeq
  <2>3. Head(new) = new[1]
    BY <2>2, TailIs
  <2>4. QED
    BY <2>1, <2>2, <2>3
<1>6. ASSUME NEW x, HasKey(h, x) PROVE HasKey(Head(new), x) \/ (2 \in DOMAIN new /\ HasKey(new[2], x))
  BY <1>2, <1>5, <1>6 DEF Joined
<1>7. ASSUME NEW k \in DOMAIN parts, k # 1 PROVE k + 1 \in DOMAIN new /\ new[k + 1] = parts[k] /\ k + 1 > 1
  <2>1. k - 1 \in DOMAIN tail /\ tail[k - 1] = parts[k]
    BY <1>7, TailIs
  <2>2. k \in Nat /\ k # 0
    OBVIOUS
  <2>3. 2 + (k - 1) = k + 1 /\ k + 1 > 1
    BY <2>2
  <2>4. QED
    BY <2>1, <2>3 DEF Joined
<1>8. m \in Nat
  BY DEF Cut
<1>9. QED
  BY <1>4, <1>5, <1>6, <1>7, <1>8 DEF Halved

---------------------------------------------------------------------------
(* What the thread that steps holds afterwards; the others keep theirs.    *)

Same(r) == \A p \in Threads : p # r => reader'[p] = reader[p]
Holds(r, parts, skip, local) ==
    /\ reader'[r].parts = parts /\ reader'[r].skip = skip /\ reader'[r].local = local
    /\ Same(r)

LEMMA SetIs ==
    ASSUME TypeInv, NEW r \in Threads, NEW rec, Set(r, rec)
    PROVE  reader'[r] = rec /\ Same(r)
BY DEF Set, TypeInv, Same

LEMMA InHand ==
    ASSUME TypeInv, ShapeInv, NEW r \in Threads
    PROVE  /\ reader[r].parts \in Seq(Seq(KeySet)) /\ reader[r].skip \in Nat
           /\ reader[r].local \in Seq(Source)
           /\ reader[r].at = "read" <=> reader[r].parts # <<>>
           /\ reader[r].at \in {"take", "ended", "thrown"} => reader[r].local = <<>>
           /\ stage \in Flat => Len(reader[r].parts) <= 1
           /\ stage \in Balance => reader[r].skip = 0
BY DEF TypeInv, Readers, ShapeInv, Shaped, Shape

LEMMA TakesIs ==
    ASSUME TypeInv, ShapeInv, NEW r \in Threads, Takes(r)
    PROVE  /\ reader[r].parts = <<>> /\ reader[r].local = <<>> /\ reader[r].at # "thrown"
           /\ Holds(r, <<Chunk(next)>>, 0, <<>>)
<1> DEFINE rec == [at |-> "read", parts |-> <<Chunk(next)>>, skip |-> 0, attempt |-> 1, local |-> <<>>]
<1>1. [Rest EXCEPT !.at = "read", !.parts = <<Chunk(next)>>] = rec
  BY RestWith, Zenon
<1>2. reader[r].at = "take" /\ Set(r, rec)
  BY <1>1 DEF Takes
<1>3. reader'[r] = rec /\ Same(r)
  BY <1>2, SetIs
<1>4. QED
  BY <1>2, <1>3, InHand DEF Holds

LEMMA LeavesIs ==
    ASSUME TypeInv, ShapeInv, NEW r \in Threads, Leaves(r)
    PROVE  /\ reader[r].parts = <<>> /\ reader[r].local = <<>> /\ reader[r].at # "thrown"
           /\ Holds(r, <<>>, 0, <<>>)
<1>1. reader[r].at = "take" /\ reader'[r] = Rest /\ Same(r)
  BY SetIs DEF Leaves
<1>2. QED
  BY <1>1, InHand DEF Holds, Rest

LEMMA ThrowsIs ==
    ASSUME TypeInv, NEW r \in Threads, Throws(r)
    PROVE  reader'[r].at = "thrown" /\ Holds(r, <<>>, 0, <<>>)
<1>1. reader'[r] = [Rest EXCEPT !.at = "thrown"] /\ Same(r)
  BY SetIs DEF Throws
<1>2. QED
  BY <1>1 DEF Holds, Rest

LEMMA PushesIs ==
    ASSUME TypeInv, ShapeInv, NEW r \in Threads, Pushes(r)
    PROVE  /\ reader[r].parts = <<>> /\ reader[r].at # "thrown"
           /\ Holds(r, <<>>, 0, <<>>)
<1>1. reader[r].at = "push" /\ reader'[r] = [Rest EXCEPT !.at = "take"] /\ Same(r)
  BY SetIs DEF Pushes
<1>2. QED
  BY <1>1, InHand DEF Holds, Rest

LEMMA TriesAgainIs ==
    ASSUME TypeInv, NEW r \in Threads, TriesAgain(r)
    PROVE  reader[r].at # "thrown" /\ Holds(r, reader[r].parts, reader[r].skip, reader[r].local)
<1>1. /\ reader[r].at = "read" /\ reader'[r] = [reader[r] EXCEPT !.attempt = @ + 1] /\ Same(r)
  BY SetIs DEF TriesAgain
<1>2. reader[r] \in Readers
  BY DEF TypeInv
<1>3. QED
  BY <1>1, <1>2 DEF Holds, Readers

LEMMA GoesOnIs ==
    ASSUME TypeInv, ShapeInv, NEW r \in Threads, GoesOn(r)
    PROVE  /\ reader[r].at # "thrown" /\ reader[r].parts # <<>>
           /\ \E n \in Nat, rows \in Seq(Source) :
                Gain(reader[r], n, rows)
                /\ Holds(r, reader[r].parts, reader[r].skip + n, reader[r].local \o rows)
<1>1. PICK n \in Nat, rows \in Seq(Source) :
         /\ Gain(reader[r], n, rows)
         /\ Set(r, [reader[r] EXCEPT !.skip = @ + n, !.attempt = 1, !.local = @ \o rows])
  BY Zenon DEF GoesOn
<1>2. reader'[r] = [reader[r] EXCEPT !.skip = @ + n, !.attempt = 1, !.local = @ \o rows] /\ Same(r)
  BY <1>1, SetIs
<1>3. reader[r] \in Readers
  BY DEF TypeInv
<1>4. Holds(r, reader[r].parts, reader[r].skip + n, reader[r].local \o rows)
  BY <1>2, <1>3 DEF Holds, Readers
<1>5. reader[r].at = "read"
  BY DEF GoesOn
<1>6. QED
  BY <1>1, <1>4, <1>5, InHand

LEMMA Halves2Is ==
    ASSUME TypeInv, ShapeInv, NEW r \in Threads, Halves2(r)
    PROVE  /\ reader[r].at # "thrown" /\ reader[r].parts # <<>> /\ reader[r].skip = 0
           /\ \E new : Halved(reader[r].parts, new) /\ Holds(r, new, 0, reader[r].local)
<1> DEFINE parts == reader[r].parts
           h == Head(parts)
           tail == Tail(parts)
           new == Halves(h) \o tail
<1>1. /\ reader[r].at = "read" /\ stage \in Balance /\ Len(h) > 1
      /\ Set(r, [reader[r] EXCEPT !.parts = new, !.attempt = 1])
  BY DEF Halves2
<1>2. parts # <<>> /\ reader[r].skip = 0 /\ parts \in Seq(Seq(KeySet))
  BY <1>1, InHand
<1>3. h \in Seq(KeySet) /\ tail \in Seq(Seq(KeySet))
  BY <1>2, HeadTailProperties
<1> HIDE DEF new
<1>4. reader'[r] = [reader[r] EXCEPT !.parts = new, !.attempt = 1] /\ Same(r)
  BY <1>1, SetIs
<1>5. Holds(r, new, 0, reader[r].local)
  <2>1. reader[r] \in Readers
    BY DEF TypeInv
  <2>2. QED
    BY <1>2, <1>4, <2>1 DEF Holds, Readers
<1>6. Halved(parts, new)
  <2> HIDE DEF parts, h, tail
  <2>1. PICK m \in Nat \ {0}, a \in Seq(KeySet), b \in Seq(KeySet) : Halves(h) = <<a, b>> /\ Cut(h, m, a, b)
    <3>1. Len(h) > 1
      BY <1>1
    <3>2. QED
      BY <1>3, <3>1, HalvesAre DEF Cut
  <2>2. new = <<a, b>> \o tail
    BY <2>1 DEF new
  <2>3. tail \in Seq(Seq(KeySet))
    BY <1>3
  <2>4. Joined(<<a, b>> \o tail, a, b, tail) /\ <<a, b>> \o tail \in Seq(Seq(KeySet))
    BY <2>3, JoinedIs
  <2>5. Joined(new, a, b, tail) /\ new \in Seq(Seq(KeySet))
    BY <2>2, <2>4, Zenon
  <2>6. parts # <<>> /\ parts \in Seq(Seq(KeySet)) /\ h = Head(parts) /\ tail = Tail(parts)
    BY <1>2 DEF h, tail
  <2>7. QED
    BY <2>1, <2>5, <2>6, HalvedIs
<1>7. QED
  BY <1>1, <1>2, <1>5, <1>6

LEMMA EndsPartIs ==
    ASSUME TypeInv, ShapeInv, stage \in Stages, NEW r \in Threads, EndsPart(r)
    PROVE  /\ reader[r].at # "thrown" /\ reader[r].parts # <<>>
           /\ \E n \in Nat, rows \in Seq(Source) : \E left \in {Tail(reader[r].parts), <<>>} :
                /\ Gain(reader[r], n, rows)
                /\ stage \in Balance => left = Tail(reader[r].parts)
                /\ Holds(r, left, 0, reader[r].local \o rows)
                /\ \/ UNCHANGED lost /\ \A k \in DOMAIN Found(reader[r]) : k <= reader[r].skip + n
                   \/ \E why \in Reasons : lost' = Missing(Head(reader[r].parts), why)
<1>1. reader[r].at = "read"
  BY DEF EndsPart
<1>2. PICK n \in Nat, rows \in Seq(Source) :
         /\ Gain(reader[r], n, rows) /\ PartDone(r, rows)
         /\ \/ UNCHANGED lost /\ \A k \in DOMAIN Found(reader[r]) : k <= reader[r].skip + n
            \/ \E why \in Reasons : lost' = Missing(Head(reader[r].parts), why)
  BY DEF EndsPart
<1> DEFINE left == IF stage \in Balance THEN Tail(reader[r].parts) ELSE <<>>
           rec == [at |-> IF left = <<>> THEN "push" ELSE "read", parts |-> left,
                   skip |-> 0, attempt |-> 1, local |-> reader[r].local \o rows]
<1>3. Set(r, rec)
  BY <1>2 DEF PartDone
<1>4. reader'[r] = rec /\ Same(r)
  BY <1>3, SetIs
<1>5. Holds(r, left, 0, reader[r].local \o rows)
  BY <1>4 DEF Holds
<1>6. left \in {Tail(reader[r].parts), <<>>} /\ (stage \in Balance => left = Tail(reader[r].parts))
  OBVIOUS
<1> HIDE DEF left
<1>7. reader[r].parts # <<>>
  BY <1>1, InHand
<1>8. QED
  BY <1>1, <1>2, <1>5, <1>6, <1>7

---------------------------------------------------------------------------
(* The keys of a read are shared out: what one thread holds, no other has. *)

LEMMA PendingStays ==
    ASSUME UNCHANGED <<stage, keys, next>>, NEW x
    PROVE  Pending(x)' <=> Pending(x)
BY DEF Pending, Offset, ChunkLength

LEMMA PendingTaken ==
    ASSUME TypeInv, Distinct(keys), HasChunk(next), UNCHANGED <<stage, keys>>, next' = next + 1, NEW x
    PROVE  /\ Pending(x)' => Pending(x)
           /\ HasKey(Chunk(next), x) => Pending(x) /\ ~Pending(x)'
           /\ Pending(x) => Pending(x)' \/ HasKey(Chunk(next), x)
<1> DEFINE o == Offset(next)
           c == ChunkLength
           p == Chunk(next)
<1>1. /\ \A i \in DOMAIN p : o + i \in DOMAIN keys /\ p[i] = keys[o + i] /\ i <= c
      /\ \A k \in DOMAIN keys : k > o /\ k <= Offset(next + 1) => k - o \in DOMAIN p
      /\ p \in Seq(KeySet)
  BY ChunkIs
<1>2. o \in Nat /\ c \in Nat \ {0} /\ Offset(next + 1) = o + c
  BY OffsetIs DEF TypeInv
<1>3. keys \in Seq(KeySet)
  BY DEF TypeInv
<1>4. Pending(x)' <=> \E i \in DOMAIN keys : i > o + c /\ keys[i] = x
  <2>1. Offset(next)' = Offset(next + 1)
    BY DEF Offset, ChunkLength
  <2>2. QED
    BY <1>2, <2>1 DEF Pending
<1>5. Pending(x) <=> \E i \in DOMAIN keys : i > o /\ keys[i] = x
  BY DEF Pending
<1> HIDE DEF o, c, p
<1>6. \A i \in DOMAIN keys : i \in Nat
  BY <1>3
<1>7. ASSUME Pending(x)' PROVE Pending(x)
  <2>1. PICK i \in DOMAIN keys : i > o + c /\ keys[i] = x
    BY <1>4, <1>7
  <2>2. i > o
    BY <1>2, <1>6, <2>1
  <2>3. QED
    BY <1>5, <2>1, <2>2
<1>8. ASSUME HasKey(p, x) PROVE Pending(x) /\ ~Pending(x)'
  <2>1. PICK i \in DOMAIN p : p[i] = x
    BY <1>8 DEF HasKey
  <2>2. o + i \in DOMAIN keys /\ keys[o + i] = x /\ i <= c
    BY <1>1, <2>1
  <2>3. i \in Nat \ {0}
    BY <1>1
  <2>4. o + i > o /\ ~(o + i > o + c)
    BY <1>2, <2>2, <2>3
  <2>5. ASSUME NEW k \in DOMAIN keys, keys[k] = x PROVE k = o + i
    BY <2>2, <2>5 DEF Distinct
  <2>6. ~Pending(x)'
    BY <1>4, <2>4, <2>5
  <2>7. QED
    BY <1>5, <2>2, <2>4, <2>6
<1>9. ASSUME Pending(x), ~Pending(x)' PROVE HasKey(p, x)
  <2>1. PICK i \in DOMAIN keys : i > o /\ keys[i] = x
    BY <1>5, <1>9
  <2>2. ~(i > o + c) /\ i \in Nat
    BY <1>4, <1>6, <1>9, <2>1
  <2>3. i - o \in DOMAIN p
    BY <1>1, <1>2, <2>1, <2>2
  <2>4. p[i - o] = keys[o + (i - o)] /\ o + (i - o) = i
    BY <1>1, <1>2, <2>2, <2>3
  <2>5. QED
    BY <2>1, <2>3, <2>4 DEF HasKey
<1>10. QED
  BY <1>7, <1>8, <1>9 DEF p

LEMMA InRowsOf ==
    ASSUME NEW S, NEW s \in Seq(S), NEW t \in Seq(S), NEW x, InRows(s \o t, x)
    PROVE  InRows(s, x) \/ InRows(t, x)
<1>1. PICK k \in DOMAIN (s \o t) : (s \o t)[k].key = x
  BY DEF InRows
<1>2. \/ k \in DOMAIN s /\ (s \o t)[k] = s[k]
      \/ \E j \in DOMAIN t : (s \o t)[k] = t[j]
  BY AppendIs
<1>3. QED
  BY <1>1, <1>2 DEF InRows

LEMMA NoKeys == \A x : ~HasKey(<<>>, x) /\ ~InRows(<<>>, x) /\ \A q : q.parts = <<>> => ~InParts(q, x)
BY DEF HasKey, InRows, InParts

(* The rows a part has brought have keys of that part.                     *)
LEMMA GainKeys ==
    ASSUME TypeInv, BookInv, ShapeInv, stage \in Stages, NEW r \in Threads, reader[r].parts # <<>>,
           NEW n, NEW rows, Gain(reader[r], n, rows), NEW x
    PROVE  /\ InRows(rows, x) => HasKey(Head(reader[r].parts), x)
           /\ HasKey(Head(reader[r].parts), x) => InParts(reader[r], x)
<1> DEFINE q == reader[r]
<1>1. 1 \in DOMAIN q.parts /\ Head(q.parts) = q.parts[1]
  BY InHand, TailIs
<1>2. \A k \in DOMAIN Found(q) : HasKey(Head(q.parts), Found(q)[k].key)
  BY MatchingIs DEF Found
<1>3. ASSUME InRows(rows, x) PROVE HasKey(Head(q.parts), x)
  <2>1. PICK i \in DOMAIN rows : rows[i].key = x
    BY <1>3 DEF InRows
  <2>2. PICK k \in DOMAIN Found(q) : rows[i] = Found(q)[k]
    BY DEF Gain
  <2>3. QED
    BY <1>2, <2>1, <2>2
<1>4. QED
  BY <1>1, <1>3 DEF InParts

LEMMA InTail ==
    ASSUME NEW S, NEW parts \in Seq(S), parts # <<>>, NEW x, NEW a \in DOMAIN Tail(parts), HasKey(Tail(parts)[a], x)
    PROVE  a + 1 \in DOMAIN parts /\ HasKey(parts[a + 1], x) /\ a + 1 # 1
<1>1. a + 1 \in DOMAIN parts /\ Tail(parts)[a] = parts[a + 1] /\ a \in Nat \ {0}
  BY TailIs
<1>2. QED
  BY <1>1

---------------------------------------------------------------------------
(* No key is with two threads, or with a thread and among the rows read.   *)

LEMMA ClaimsShrink ==
    ASSUME ClaimInv, UNCHANGED <<stage, keys, next, out>>, NEW r \in Threads, Same(r),
           \A x \in KeySet : Claims(reader'[r], x) => Claims(reader[r], x)
    PROVE  ClaimInv'
<1>1. \A x \in KeySet, p \in Threads : Claims(reader'[p], x) => Claims(reader[p], x)
  BY DEF Same
<1>2. \A x : (Pending(x)' <=> Pending(x)) /\ (InRows(out', x) <=> InRows(out, x))
  <2>1. \A x : Pending(x)' <=> Pending(x)
    BY DEF Pending, Offset, ChunkLength
  <2>2. QED
    BY <2>1
<1>3. \A x \in KeySet :
        /\ InRows(out', x) => ~Pending(x)'
        /\ \A p \in Threads : Claims(reader'[p], x) => ~Pending(x)' /\ ~InRows(out', x)
        /\ \A p, q \in Threads : Claims(reader'[p], x) /\ Claims(reader'[q], x) => p = q
  BY <1>1, <1>2 DEF ClaimInv
<1>4. QED
  BY <1>3 DEF ClaimInv

LEMMA NothingInHand ==
    ASSUME NEW q, q.parts = <<>>, q.local = <<>>, NEW x
    PROVE  ~Claims(q, x)
BY NoKeys DEF Claims

LEMMA ClaimThread ==
    ASSUME Ground, KeyInv, ClaimInv, NEW r \in Threads, Step(r)
    PROVE  ClaimInv'
<1> USE DEF Ground
<1>1. /\ UNCHANGED <<stage, keys>> /\ stage \in Stages
      /\ \/ Takes(r) \/ Leaves(r) \/ EndsPart(r) \/ GoesOn(r)
         \/ TriesAgain(r) \/ Halves2(r) \/ Throws(r) \/ Pushes(r)
  BY StepIs
<1> DEFINE q == reader[r]
           p == reader'[r]
<1>2. q.parts \in Seq(Seq(KeySet)) /\ q.local \in Seq(Source)
  BY InHand
<1>3. CASE Takes(r)
  <2>1. /\ q.parts = <<>> /\ q.local = <<>> /\ Same(r)
        /\ p.parts = <<Chunk(next)>> /\ p.local = <<>>
    BY <1>3, TakesIs DEF Holds
  <2>2. HasChunk(next) /\ next' = next + 1 /\ out' = out
    BY <1>3 DEF Takes
  <2>3. ASSUME NEW x PROVE Claims(p, x) => HasKey(Chunk(next), x)
    <3>1. ~InRows(p.local, x)
      BY <2>1, NoKeys
    <3>2. DOMAIN <<Chunk(next)>> = {1} /\ <<Chunk(next)>>[1] = Chunk(next)
      OBVIOUS
    <3>3. InParts(p, x) => HasKey(Chunk(next), x)
      BY <2>1, <3>2 DEF InParts
    <3>4. QED
      BY <3>1, <3>3 DEF Claims
  <2>4. \A x : /\ Pending(x)' => Pending(x)
               /\ HasKey(Chunk(next), x) => Pending(x) /\ ~Pending(x)'
    BY <1>1, <2>2, PendingTaken DEF KeyInv
  <2>5. ASSUME NEW x \in KeySet
        PROVE  /\ InRows(out', x) => ~Pending(x)'
               /\ \A s \in Threads : Claims(reader'[s], x) => ~Pending(x)' /\ ~InRows(out', x)
               /\ \A s, t \in Threads : Claims(reader'[s], x) /\ Claims(reader'[t], x) => s = t
    <3>1. /\ InRows(out, x) => ~Pending(x)
          /\ \A s \in Threads : Claims(reader[s], x) => ~Pending(x) /\ ~InRows(out, x)
          /\ \A s, t \in Threads : Claims(reader[s], x) /\ Claims(reader[t], x) => s = t
      BY DEF ClaimInv
    <3>2. \A s \in Threads : s # r => reader'[s] = reader[s]
      BY <2>1 DEF Same
    <3>3. InRows(out', x) <=> InRows(out, x)
      BY <2>2
    <3>4. /\ Pending(x)' => Pending(x)
          /\ Claims(p, x) => Pending(x) /\ ~Pending(x)'
      BY <2>3, <2>4
    <3> HIDE DEF p, q
    <3>5. QED
      BY <3>1, <3>2, <3>3, <3>4 DEF p
  <2>6. QED
    BY <2>5 DEF ClaimInv
<1>4. CASE Leaves(r) \/ Throws(r)
  <2>1. p.parts = <<>> /\ p.local = <<>> /\ Same(r) /\ UNCHANGED <<next, out>>
    BY <1>4, LeavesIs, ThrowsIs DEF Holds, Leaves, Throws
  <2>2. \A x \in KeySet : Claims(p, x) => Claims(q, x)
    BY <2>1, NothingInHand
  <2>3. QED
    BY <1>1, <2>1, <2>2, ClaimsShrink
<1>5. CASE EndsPart(r)
  <2>1. PICK n \in Nat, rows \in Seq(Source) : \E left \in {Tail(q.parts), <<>>} :
                /\ Gain(q, n, rows) /\ Holds(r, left, 0, q.local \o rows)
    BY <1>1, <1>5, EndsPartIs
  <2>2. PICK left \in {Tail(q.parts), <<>>} : Gain(q, n, rows) /\ Holds(r, left, 0, q.local \o rows)
    BY <2>1
  <2>3. q.parts # <<>> /\ UNCHANGED <<next, out>>
    BY <1>1, <1>5, EndsPartIs DEF EndsPart
  <2>4. p.parts = left /\ p.local = q.local \o rows /\ Same(r)
    BY <2>2 DEF Holds
  <2>5. ASSUME NEW x, InParts(p, x) PROVE InParts(q, x)
    <3>1. PICK a \in DOMAIN left : HasKey(left[a], x)
      BY <2>4, <2>5 DEF InParts
    <3>2. left = Tail(q.parts)
      BY <3>1
    <3>3. a + 1 \in DOMAIN q.parts /\ HasKey(q.parts[a + 1], x)
      BY <1>2, <2>3, <3>1, <3>2, InTail
    <3>4. QED
      BY <3>3 DEF InParts
  <2>6. ASSUME NEW x, InRows(p.local, x) PROVE Claims(q, x)
    <3>1. InRows(q.local, x) \/ InRows(rows, x)
      BY <1>2, <2>4, <2>6, InRowsOf
    <3>2. InRows(rows, x) => InParts(q, x)
      BY <1>1, <2>2, <2>3, GainKeys
    <3>3. QED
      BY <3>1, <3>2 DEF Claims
  <2>7. \A x \in KeySet : Claims(p, x) => Claims(q, x)
    BY <2>5, <2>6 DEF Claims
  <2>8. QED
    BY <1>1, <2>3, <2>4, <2>7, ClaimsShrink
<1>6. CASE GoesOn(r)
  <2>1. PICK n \in Nat, rows \in Seq(Source) :
          Gain(q, n, rows) /\ Holds(r, q.parts, q.skip + n, q.local \o rows)
    BY <1>6, GoesOnIs
  <2>2. q.parts # <<>> /\ UNCHANGED <<next, out>>
    <3>1. q.parts # <<>>
      BY <1>6, GoesOnIs
    <3>2. UNCHANGED <<next, out>>
      BY <1>6 DEF GoesOn
    <3>3. QED
      BY <3>1, <3>2
  <2>3. p.parts = q.parts /\ p.local = q.local \o rows /\ Same(r)
    BY <2>1 DEF Holds
  <2>4. ASSUME NEW x, InRows(p.local, x) PROVE Claims(q, x)
    <3>1. InRows(q.local, x) \/ InRows(rows, x)
      BY <1>2, <2>3, <2>4, InRowsOf
    <3>2. InRows(rows, x) => InParts(q, x)
      BY <1>1, <2>1, <2>2, GainKeys
    <3>3. QED
      BY <3>1, <3>2 DEF Claims
  <2>5. \A x : InParts(p, x) <=> InParts(q, x)
    BY <2>3 DEF InParts
  <2>6. \A x \in KeySet : Claims(p, x) => Claims(q, x)
    BY <2>4, <2>5 DEF Claims
  <2>7. QED
    BY <1>1, <2>2, <2>3, <2>6, ClaimsShrink
<1>7. CASE TriesAgain(r)
  <2>1. p.parts = q.parts /\ p.local = q.local /\ Same(r) /\ UNCHANGED <<next, out>>
    BY <1>7, TriesAgainIs DEF Holds, TriesAgain
  <2>2. \A x \in KeySet : Claims(p, x) => Claims(q, x)
    BY <2>1 DEF Claims, InParts
  <2>3. QED
    BY <1>1, <2>1, <2>2, ClaimsShrink
<1>8. CASE Halves2(r)
  <2>1. PICK new : Halved(q.parts, new) /\ Holds(r, new, 0, q.local)
    BY <1>8, Halves2Is
  <2>2. p.parts = new /\ p.local = q.local /\ Same(r)
    BY <2>1 DEF Holds
  <2>3. ASSUME NEW x, InParts(p, x) PROVE InParts(q, x)
    <3>1. PICK k \in DOMAIN new : HasKey(new[k], x)
      BY <2>2, <2>3 DEF InParts
    <3>2. PICK i \in DOMAIN new[k] : new[k][i] = x
      BY <3>1 DEF HasKey
    <3>3. \E a \in DOMAIN q.parts : \E j \in DOMAIN q.parts[a] : q.parts[a][j] = x
      <4> HIDE DEF q
      <4>1. QED
        BY <2>1, <3>2 DEF Halved
    <3>4. QED
      BY <3>3 DEF InParts, HasKey
  <2>4. \A x \in KeySet : Claims(p, x) => Claims(q, x)
    BY <2>2, <2>3 DEF Claims
  <2>5. UNCHANGED <<next, out>>
    BY <1>8 DEF Halves2
  <2>6. QED
    BY <1>1, <2>2, <2>4, <2>5, ClaimsShrink
<1>9. CASE Pushes(r)
  <2>1. p.parts = <<>> /\ p.local = <<>> /\ Same(r)
    BY <1>9, PushesIs DEF Holds
  <2>2. next' = next /\ out' = out \o q.local
    BY <1>9 DEF Pushes
  <2>3. out \in Seq(Source)
    BY DEF TypeInv
  <2>4. ASSUME NEW x \in KeySet
        PROVE  /\ InRows(out', x) => ~Pending(x)'
               /\ \A s \in Threads : Claims(reader'[s], x) => ~Pending(x)' /\ ~InRows(out', x)
               /\ \A s, t \in Threads : Claims(reader'[s], x) /\ Claims(reader'[t], x) => s = t
    <3>1. /\ InRows(out, x) => ~Pending(x)
          /\ \A s \in Threads : Claims(reader[s], x) => ~Pending(x) /\ ~InRows(out, x)
          /\ \A s, t \in Threads : Claims(reader[s], x) /\ Claims(reader[t], x) => s = t
      BY DEF ClaimInv
    <3>2. \A s \in Threads : s # r => reader'[s] = reader[s]
      BY <2>1 DEF Same
    <3>3. InRows(out', x) => InRows(out, x) \/ Claims(q, x)
      BY <1>2, <2>2, <2>3, InRowsOf DEF Claims
    <3>4. Pending(x)' <=> Pending(x)
      BY <1>1, <2>2, PendingStays
    <3>5. ~Claims(p, x)
      BY <2>1, NothingInHand
    <3> HIDE DEF p
    <3>6. QED
      BY <3>1, <3>2, <3>3, <3>4, <3>5 DEF p
  <2>5. QED
    BY <2>4 DEF ClaimInv
<1>10. QED
  BY <1>1, <1>3, <1>4, <1>5, <1>6, <1>7, <1>8, <1>9

---------------------------------------------------------------------------
(* What a thread has read it has not still to ask for.                     *)

(* Parts that are halved, or that are left when the first is over, have no *)
(* key twice if those before them had none.                                *)
Separate(parts) ==
    \A a, b \in DOMAIN parts : \A i \in DOMAIN parts[a], j \in DOMAIN parts[b] :
         parts[a][i] = parts[b][j] => a = b /\ i = j

LEMMA SeparateHalves ==
    ASSUME NEW parts \in Seq(Seq(KeySet)), NEW new, Halved(parts, new), Separate(parts)
    PROVE  Separate(new)
<1>1. PICK m \in Nat : \A k \in DOMAIN new : \A i \in DOMAIN new[k] :
         \/ /\ k = 1 /\ 1 \in DOMAIN parts /\ i \in DOMAIN parts[1] /\ new[k][i] = parts[1][i]
            /\ i \in Nat /\ i <= m
         \/ /\ k = 2 /\ 1 \in DOMAIN parts /\ m + i \in DOMAIN parts[1]
            /\ new[k][i] = parts[1][m + i] /\ i \in Nat /\ i > 0
         \/ /\ k - 1 \in DOMAIN parts /\ k - 1 # 1 /\ k \in Nat /\ k > 2
            /\ i \in DOMAIN parts[k - 1] /\ new[k][i] = parts[k - 1][i]
  BY DEF Halved
<1>2. SUFFICES ASSUME NEW k \in DOMAIN new, NEW l \in DOMAIN new,
                      NEW i \in DOMAIN new[k], NEW j \in DOMAIN new[l], new[k][i] = new[l][j]
               PROVE  k = l /\ i = j
  BY DEF Separate
<1> DEFINE One(a, c) == /\ a = 1 /\ 1 \in DOMAIN parts /\ c \in DOMAIN parts[1] /\ new[a][c] = parts[1][c]
                        /\ c \in Nat /\ c <= m
           Two(a, c) == /\ a = 2 /\ 1 \in DOMAIN parts /\ m + c \in DOMAIN parts[1]
                        /\ new[a][c] = parts[1][m + c] /\ c \in Nat /\ c > 0
           More(a, c) == /\ a - 1 \in DOMAIN parts /\ a - 1 # 1 /\ a \in Nat /\ a > 2
                         /\ c \in DOMAIN parts[a - 1] /\ new[a][c] = parts[a - 1][c]
<1>3. (One(k, i) \/ Two(k, i) \/ More(k, i)) /\ (One(l, j) \/ Two(l, j) \/ More(l, j))
  BY <1>1
<1>4. \A a, b \in DOMAIN parts : \A c \in DOMAIN parts[a], d \in DOMAIN parts[b] :
         parts[a][c] = parts[b][d] => a = b /\ c = d
  BY DEF Separate
<1>5. CASE One(k, i) /\ One(l, j)
  BY <1>2, <1>4, <1>5
<1>6. CASE Two(k, i) /\ Two(l, j)
  <2>1. m + i = m + j
    BY <1>2, <1>4, <1>6
  <2>2. i \in Nat /\ j \in Nat
    BY <1>6
  <2>3. i = j
    BY <2>1, <2>2
  <2>4. QED
    BY <1>6, <2>3
<1>7. CASE More(k, i) /\ More(l, j)
  <2>4. PICK u \in DOMAIN parts : u = k - 1 /\ i \in DOMAIN parts[u] /\ new[k][i] = parts[u][i]
    BY <1>7
  <2>5. PICK v \in DOMAIN parts : v = l - 1 /\ j \in DOMAIN parts[v] /\ new[l][j] = parts[v][j]
    BY <1>7
  <2>6. u = v /\ i = j
    <3>1. i \in DOMAIN parts[u] /\ j \in DOMAIN parts[v]
      BY <2>4, <2>5
    <3>2. parts[u][i] = parts[v][j]
      BY <1>2, <2>4, <2>5, Zenon
    <3>3. QED
      BY <1>4, <3>1, <3>2
  <2>1. k - 1 = l - 1 /\ i = j
    BY <2>4, <2>5, <2>6
  <2>2. k \in Nat /\ l \in Nat
    BY <1>7
  <2>3. k = l
    BY <2>1, <2>2
  <2>7. QED
    BY <2>1, <2>3
<1>8. CASE One(k, i) /\ Two(l, j)
  <2>1. i = m + j
    BY <1>2, <1>4, <1>8
  <2>2. i \in Nat /\ i <= m /\ j \in Nat /\ j > 0
    BY <1>8
  <2>3. QED
    BY <2>1, <2>2
<1>9. CASE Two(k, i) /\ One(l, j)
  <2>1. j = m + i
    BY <1>2, <1>4, <1>9
  <2>2. j \in Nat /\ j <= m /\ i \in Nat /\ i > 0
    BY <1>9
  <2>3. QED
    BY <2>1, <2>2
<1>10. CASE More(k, i) /\ (One(l, j) \/ Two(l, j))
  <2>1. k - 1 = 1
    BY <1>2, <1>4, <1>10
  <2>2. QED
    BY <1>10, <2>1
<1>11. CASE (One(k, i) \/ Two(k, i)) /\ More(l, j)
  <2>1. l - 1 = 1
    BY <1>2, <1>4, <1>11
  <2>2. QED
    BY <1>11, <2>1
<1> HIDE DEF One, Two, More
<1>12. QED
  BY <1>3, <1>5, <1>6, <1>7, <1>8, <1>9, <1>10, <1>11

LEMMA SeparateTail ==
    ASSUME NEW parts \in Seq(Seq(KeySet)), parts # <<>>, Separate(parts)
    PROVE  /\ Separate(Tail(parts))
           /\ \A x, a : a \in DOMAIN Tail(parts) /\ HasKey(Tail(parts)[a], x) => ~HasKey(Head(parts), x)
<1>1. /\ 1 \in DOMAIN parts /\ Head(parts) = parts[1]
      /\ \A i \in DOMAIN Tail(parts) : i + 1 \in DOMAIN parts /\ Tail(parts)[i] = parts[i + 1] /\ i \in Nat \ {0}
  BY TailIs
<1> DEFINE t == Tail(parts)
<1> HIDE DEF t
<1>2. \A i \in DOMAIN t : i + 1 \in DOMAIN parts /\ t[i] = parts[i + 1] /\ i \in Nat \ {0} /\ i + 1 # 1
  BY <1>1 DEF t
<1>3. ASSUME NEW a \in DOMAIN t, NEW b \in DOMAIN t, NEW i \in DOMAIN t[a], NEW j \in DOMAIN t[b],
             t[a][i] = t[b][j]
      PROVE  a = b /\ i = j
  <2>1. a + 1 = b + 1 /\ i = j
    BY <1>2, <1>3 DEF Separate
  <2>2. a \in Nat /\ b \in Nat
    BY <1>2
  <2>3. QED
    BY <2>1, <2>2
<1>4. ASSUME NEW x, NEW a \in DOMAIN t, HasKey(t[a], x), HasKey(parts[1], x) PROVE FALSE
  <2>1. PICK i \in DOMAIN t[a] : t[a][i] = x
    BY <1>4 DEF HasKey
  <2>2. PICK j \in DOMAIN parts[1] : parts[1][j] = x
    BY <1>4 DEF HasKey
  <2>3. a + 1 = 1
    BY <1>1, <1>2, <2>1, <2>2 DEF Separate
  <2>4. QED
    BY <1>2, <2>3
<1>5. QED
  BY <1>1, <1>3, <1>4 DEF Separate, t

(* The rows a page brings are not those brought before.                    *)
LEMMA NewRows ==
    ASSUME Ground, stage \in Stages, NEW r \in Threads, reader[r].parts # <<>>, Orderly(reader[r]),
           NEW n \in Nat, NEW rows \in Seq(Source), Gain(reader[r], n, rows),
           stage \in Balance \/ changes = 0
    PROVE  Distinct(reader[r].local \o rows)
<1> DEFINE q == reader[r]
<1>1. q.parts \in Seq(Seq(KeySet)) /\ q.local \in Seq(Source) /\ q.skip \in Nat
  BY InHand DEF Ground
<1>2. Distinct(q.local) /\ Distinct(rows)
  BY DEF Orderly, Gain
<1>3. ASSUME NEW i \in DOMAIN q.local, NEW j \in DOMAIN rows, q.local[i] = rows[j] PROVE FALSE
  <2>1. PICK k \in DOMAIN Found(q) : k > q.skip /\ rows[j] = Found(q)[k]
    BY DEF Gain
  <2>2. CASE stage \in Balance
    <3> DEFINE x == rows[j].key
    <3>1. InRows(rows, x) /\ InRows(q.local, x)
      BY <1>3 DEF InRows
    <3>2. InParts(q, x)
      BY <3>1, GainKeys DEF Ground
    <3>3. x \in KeySet
      <4>1. rows[j] \in Entries(stage)
        BY DEF Source
      <4>2. QED
        BY <4>1, EntriesTyped
    <3>4. QED
      BY <2>2, <3>1, <3>2, <3>3 DEF Orderly
  <2>3. CASE stage \notin Balance
    <3>1. stage \in Flat /\ changes = 0
      BY <2>3 DEF Stages
    <3>2. PICK l \in DOMAIN Found(q) : l <= q.skip /\ q.local[i] = Found(q)[l]
      BY <3>1 DEF Orderly, Found
    <3>3. Found(q) \in Seq(Source) /\ Distinct(Found(q))
      BY MatchingIs DEF Found, Ground
    <3>4. k = l
      BY <1>3, <2>1, <3>2, <3>3 DEF Distinct
    <3>5. k \in Nat
      BY <3>3
    <3>6. QED
      BY <1>1, <2>1, <3>2, <3>4, <3>5
  <2>4. QED
    BY <2>2, <2>3
<1>4. QED
  BY <1>1, <1>2, <1>3, DistinctAppend

LEMMA OrderThread ==
    ASSUME Ground, KeyInv, OrderInv, NEW r \in Threads, Step(r)
    PROVE  OrderInv'
<1> DEFINE q == reader[r]
           p == reader'[r]
<1>1. /\ UNCHANGED <<stage, keys, book, changes>> /\ stage \in Stages
      /\ \/ Takes(r) \/ Leaves(r) \/ EndsPart(r) \/ GoesOn(r)
         \/ TriesAgain(r) \/ Halves2(r) \/ Throws(r) \/ Pushes(r)
  BY StepIs DEF Ground
<1>2. /\ q.parts \in Seq(Seq(KeySet)) /\ q.local \in Seq(Source) /\ q.skip \in Nat
      /\ stage \in Flat => Len(q.parts) <= 1
  BY InHand DEF Ground
<1>3. /\ Separate(q.parts)
      /\ stage \in Balance => \A x \in KeySet : ~(InParts(q, x) /\ InRows(q.local, x))
      /\ stage \in Balance \/ changes = 0 => Distinct(q.local)
      /\ stage \in Flat /\ changes = 0 /\ q.parts # <<>> =>
           \A i \in DOMAIN q.local : \E k \in DOMAIN Found(q) :
              k <= q.skip /\ q.local[i] = Found(q)[k]
  BY DEF OrderInv, Orderly, Separate, Found
<1>4. \A part : Matching(part)' = Matching(part)
  BY <1>1 DEF Matching
<1>5. SUFFICES Same(r) /\ Separate(p.parts)
         /\ (stage \in Balance => \A x \in KeySet : ~(InParts(p, x) /\ InRows(p.local, x)))
         /\ (stage \in Balance \/ changes = 0 => Distinct(p.local))
         /\ (stage \in Flat /\ changes = 0 /\ p.parts # <<>> =>
              \A i \in DOMAIN p.local : \E k \in DOMAIN Found(p) :
                 k <= p.skip /\ p.local[i] = Found(p)[k])
  <2>1. ASSUME NEW s \in Threads, Same(r), Separate(p.parts),
               stage \in Balance => \A x \in KeySet : ~(InParts(p, x) /\ InRows(p.local, x)),
               stage \in Balance \/ changes = 0 => Distinct(p.local),
               stage \in Flat /\ changes = 0 /\ p.parts # <<>> =>
                 \A i \in DOMAIN p.local : \E k \in DOMAIN Found(p) :
                    k <= p.skip /\ p.local[i] = Found(p)[k]
        PROVE  Orderly(reader[s])'
    <3>1. CASE s = r
      BY <1>1, <1>4, <2>1, <3>1 DEF Orderly, Separate, Found
    <3>2. CASE s # r
      <4>1. reader'[s] = reader[s] /\ Orderly(reader[s])
        BY <2>1, <3>2 DEF Same, OrderInv
      <4>2. QED
        BY <1>1, <1>4, <4>1 DEF Orderly
    <3>3. QED
      BY <3>1, <3>2
  <2>2. QED
    BY <2>1 DEF OrderInv
<1>6. Separate(<<>>) /\ Distinct(<<>>) /\ \A x : ~InRows(<<>>, x)
  BY NoKeys DEF Separate, Distinct
<1>7. CASE Takes(r)
  <2>1. p.parts = <<Chunk(next)>> /\ p.local = <<>> /\ Same(r) /\ HasChunk(next)
    BY <1>7, TakesIs DEF Holds, Takes, Ground
  <2>2. \A i \in DOMAIN Chunk(next) : Offset(next) + i \in DOMAIN keys /\ Chunk(next)[i] = keys[Offset(next) + i]
    BY <2>1, ChunkIs DEF Ground
  <2>3. Offset(next) \in Nat /\ Chunk(next) \in Seq(KeySet)
    <3>1. Offset(next) \in Nat
      BY OffsetIs DEF TypeInv, Ground
    <3>2. QED
      BY <2>1, <3>1, ChunkIs DEF Ground
  <2>4. Distinct(Chunk(next))
    <3>1. ASSUME NEW i \in DOMAIN Chunk(next), NEW j \in DOMAIN Chunk(next), Chunk(next)[i] = Chunk(next)[j]
          PROVE  i = j
      <4>1. Offset(next) + i = Offset(next) + j
        BY <2>2, <3>1 DEF KeyInv, Distinct
      <4>2. i \in Nat /\ j \in Nat
        BY <2>3
      <4>3. QED
        BY <2>3, <4>1, <4>2
    <3>2. QED
      BY <3>1 DEF Distinct
  <2>5. Separate(<<Chunk(next)>>)
    <3> DEFINE c == Chunk(next)
    <3> HIDE DEF c
    <3>1. DOMAIN <<c>> = {1} /\ <<c>>[1] = c
      OBVIOUS
    <3>2. Separate(<<c>>)
      BY <2>4, <3>1 DEF Separate, Distinct, c
    <3>3. QED
      BY <3>2 DEF c
  <2>6. DOMAIN <<>> = {}
    OBVIOUS
  <2> HIDE DEF p
  <2>7. QED
    BY <1>6, <2>1, <2>5, <2>6
<1>8. CASE Leaves(r) \/ Throws(r) \/ Pushes(r)
  <2>1. p.parts = <<>> /\ p.local = <<>> /\ Same(r)
    BY <1>8, LeavesIs, ThrowsIs, PushesIs DEF Holds, Ground
  <2> HIDE DEF p
  <2>2. QED
    BY <1>6, <2>1
<1>9. CASE EndsPart(r)
  <2>1. PICK n \in Nat, rows \in Seq(Source) : \E left \in {Tail(q.parts), <<>>} :
                /\ Gain(q, n, rows) /\ Holds(r, left, 0, q.local \o rows)
                /\ stage \in Balance => left = Tail(q.parts)
    BY <1>1, <1>9, EndsPartIs DEF Ground
  <2>2. PICK left \in {Tail(q.parts), <<>>} : Gain(q, n, rows) /\ Holds(r, left, 0, q.local \o rows)
                /\ (stage \in Balance => left = Tail(q.parts))
    BY <2>1
  <2>3. q.parts # <<>>
    BY <1>1, <1>9, EndsPartIs DEF Ground
  <2>4. p.parts = left /\ p.local = q.local \o rows /\ Same(r)
    BY <2>2 DEF Holds
  <2>5. Separate(p.parts)
    BY <1>2, <1>3, <1>6, <2>3, <2>4, SeparateTail
  <2>6. stage \in Balance \/ changes = 0 => Distinct(p.local)
    BY <1>1, <2>2, <2>3, <2>4, NewRows DEF OrderInv
  <2>7. ASSUME stage \in Balance, NEW x \in KeySet, InParts(p, x), InRows(p.local, x) PROVE FALSE
    <3>1. PICK a \in DOMAIN Tail(q.parts) : HasKey(Tail(q.parts)[a], x)
      BY <2>2, <2>4, <2>7 DEF InParts
    <3>2. ~HasKey(Head(q.parts), x)
      BY <1>2, <1>3, <2>3, <3>1, SeparateTail
    <3>3. InParts(q, x)
      BY <1>2, <2>3, <3>1, InTail DEF InParts
    <3>4. ~InRows(rows, x)
      BY <1>1, <2>2, <2>3, <3>2, GainKeys DEF Ground
    <3>5. ~InRows(q.local, x)
      BY <1>3, <2>7, <3>3
    <3>6. QED
      BY <1>2, <2>4, <2>7, <3>4, <3>5, InRowsOf
  <2>8. stage \in Flat => p.parts = <<>>
    BY <1>2, <2>2, <2>3, <2>4, TailIs
  <2> HIDE DEF p, q
  <2>9. QED
    BY <2>4, <2>5, <2>6, <2>7, <2>8
<1>10. CASE GoesOn(r)
  <2>1. PICK n \in Nat, rows \in Seq(Source) :
          Gain(q, n, rows) /\ Holds(r, q.parts, q.skip + n, q.local \o rows)
    BY <1>10, GoesOnIs DEF Ground
  <2>2. q.parts # <<>>
    BY <1>10, GoesOnIs DEF Ground
  <2>3. p.parts = q.parts /\ p.local = q.local \o rows /\ p.skip = q.skip + n /\ Same(r)
    BY <2>1 DEF Holds
  <2>4. stage \notin Balance
    BY <1>10 DEF GoesOn, Flat, Balance
  <2>5. stage \in Balance \/ changes = 0 => Distinct(p.local)
    BY <1>1, <2>1, <2>2, <2>3, NewRows DEF OrderInv
  <2>6. ASSUME changes = 0, stage \in Flat, NEW i \in DOMAIN p.local
        PROVE  \E k \in DOMAIN Found(p) : k <= p.skip /\ p.local[i] = Found(p)[k]
    <3>1. Found(p) = Found(q)
      BY <2>3 DEF Found
    <3>2. \/ i \in DOMAIN q.local /\ p.local[i] = q.local[i]
          \/ \E j \in DOMAIN rows : p.local[i] = rows[j]
      BY <1>2, <2>3, AppendIs
    <3>3. CASE i \in DOMAIN q.local /\ p.local[i] = q.local[i]
      <4>1. PICK k \in DOMAIN Found(q) : k <= q.skip /\ q.local[i] = Found(q)[k]
        BY <1>3, <2>2, <2>6, <3>3
      <4>2. k \in Nat
        BY <1>1, MatchingIs DEF Found, Ground
      <4>3. k <= q.skip + n
        BY <1>2, <4>1, <4>2
      <4>4. QED
        BY <2>3, <3>1, <3>3, <4>1, <4>3
    <3>4. CASE \E j \in DOMAIN rows : p.local[i] = rows[j]
      <4>1. PICK j \in DOMAIN rows : p.local[i] = rows[j]
        BY <3>4
      <4>2. PICK k \in DOMAIN Found(q) : k <= q.skip + n /\ rows[j] = Found(q)[k]
        BY <2>1 DEF Gain
      <4>3. QED
        BY <2>3, <3>1, <4>1, <4>2
    <3>5. QED
      BY <3>2, <3>3, <3>4
  <2>7. Separate(p.parts)
    BY <1>3, <2>3
  <2> HIDE DEF p, q
  <2>8. QED
    BY <2>3, <2>4, <2>5, <2>6, <2>7
<1>11. CASE TriesAgain(r)
  <2>1. p.parts = q.parts /\ p.local = q.local /\ p.skip = q.skip /\ Same(r)
    BY <1>11, TriesAgainIs DEF Holds, Ground
  <2>2. Found(p) = Found(q) /\ \A x : InParts(p, x) <=> InParts(q, x)
    BY <2>1 DEF Found, InParts
  <2> HIDE DEF p, q
  <2>3. QED
    BY <1>3, <2>1, <2>2
<1>12. CASE Halves2(r)
  <2>1. PICK new : Halved(q.parts, new) /\ Holds(r, new, 0, q.local)
    BY <1>12, Halves2Is DEF Ground
  <2>2. p.parts = new /\ p.local = q.local /\ Same(r)
    BY <2>1 DEF Holds
  <2>3. stage \notin Flat
    BY <1>12 DEF Halves2, Flat, Balance
  <2>4. Separate(p.parts)
    BY <1>2, <1>3, <2>1, <2>2, SeparateHalves
  <2>5. ASSUME NEW x, InParts(p, x) PROVE InParts(q, x)
    <3>1. PICK k \in DOMAIN new : HasKey(new[k], x)
      BY <2>2, <2>5 DEF InParts
    <3>2. PICK i \in DOMAIN new[k] : new[k][i] = x
      BY <3>1 DEF HasKey
    <3>3. \E a \in DOMAIN q.parts : \E j \in DOMAIN q.parts[a] : q.parts[a][j] = x
      <4> HIDE DEF q
      <4>1. QED
        BY <2>1, <3>2 DEF Halved
    <3>4. QED
      BY <3>3 DEF InParts, HasKey
  <2> HIDE DEF p, q
  <2>6. QED
    BY <1>3, <2>2, <2>3, <2>4, <2>5
<1>13. QED
  BY <1>1, <1>7, <1>8, <1>9, <1>10, <1>11, <1>12

---------------------------------------------------------------------------
(* Nothing is read twice.                                                  *)

LEMMA Fresh ==
    ASSUME out' = <<>>, \A r \in Threads : reader'[r].parts = <<>> /\ reader'[r].local = <<>>
    PROVE  ClaimInv' /\ OrderInv'
<1>1. \A x : ~InRows(<<>>, x) /\ \A q : q.parts = <<>> => ~InParts(q, x)
  BY NoKeys
<1>2. ClaimInv'
  BY <1>1 DEF ClaimInv, Claims
<1>3. DOMAIN <<>> = {}
  OBVIOUS
<1>4. OrderInv'
  <2>1. \A r \in Threads : \A x : ~InRows(reader'[r].local, x)
    BY <1>1
  <2>2. QED
    BY <1>3, <2>1 DEF OrderInv, Orderly, Distinct
<1>5. QED
  BY <1>2, <1>4

LEMMA NoRows == ASSUME TypeInv, stage \notin Stages PROVE out = <<>>
<1>1. out \in Seq({})
  BY DEF TypeInv, Source
<1>2. SUFFICES ASSUME out # <<>> PROVE FALSE
  OBVIOUS
<1>3. 1 \in DOMAIN out
  BY <1>1, <1>2, TailIs
<1>4. QED
  BY <1>1, <1>3

LEMMA OnceThread ==
    ASSUME Ground, ClaimInv, OrderInv, OnceInv, NEW r \in Threads, Step(r)
    PROVE  OnceInv'
<1>1. /\ UNCHANGED <<stage, pulled, changes>> /\ stage \in Stages
      /\ \/ Takes(r) \/ Leaves(r) \/ EndsPart(r) \/ GoesOn(r)
         \/ TriesAgain(r) \/ Halves2(r) \/ Throws(r) \/ Pushes(r)
  BY StepIs DEF Ground
<1>2. CASE out' = out
  BY <1>1, <1>2 DEF OnceInv
<1>3. CASE Pushes(r)
  <2>1. out' = out \o reader[r].local
    BY <1>3 DEF Pushes
  <2>2. out \in Seq(Source) /\ reader[r].local \in Seq(Source)
    BY InHand DEF Ground, TypeInv
  <2>3. ASSUME stage \in Balance \/ changes = 0 PROVE Distinct(out')
    <3>1. Distinct(out) /\ Distinct(reader[r].local)
      BY <2>3 DEF OnceInv, OrderInv, Orderly
    <3>2. ASSUME NEW i \in DOMAIN out, NEW j \in DOMAIN reader[r].local, out[i] = reader[r].local[j] PROVE FALSE
      <4> DEFINE x == out[i].key
      <4>1. InRows(out, x) /\ InRows(reader[r].local, x)
        BY <3>2 DEF InRows
      <4>2. x \in KeySet
        <5>1. out[i] \in Entries(stage)
          BY <1>1, <2>2 DEF Source
        <5>2. QED
          BY <1>1, <5>1, EntriesTyped
      <4>3. QED
        BY <4>1, <4>2 DEF ClaimInv, Claims
    <3>3. QED
      BY <2>1, <2>2, <3>1, <3>2, DistinctAppend
  <2>4. QED
    BY <1>1, <2>3 DEF OnceInv
<1>4. CASE ~Pushes(r)
  <2>1. \/ Takes(r) \/ Leaves(r) \/ EndsPart(r) \/ GoesOn(r) \/ TriesAgain(r) \/ Halves2(r) \/ Throws(r)
    BY <1>1, <1>4
  <2>2. Takes(r) \/ Leaves(r) => out' = out
    BY DEF Takes, Leaves
  <2>3. EndsPart(r) => out' = out
    BY DEF EndsPart
  <2>4. GoesOn(r) => out' = out
    BY DEF GoesOn
  <2>5. TriesAgain(r) \/ Halves2(r) \/ Throws(r) => out' = out
    BY DEF TriesAgain, Halves2, Throws
  <2>6. QED
    BY <1>2, <2>1, <2>2, <2>3, <2>4, <2>5
<1>5. QED
  BY <1>3, <1>4

Safe == Ground /\ KeyInv /\ ClaimInv /\ OrderInv /\ OnceInv

LEMMA SafeAsk == ASSUME Safe, Ask PROVE Safe'
<1>1. Ground'
  BY GroundStep DEF Safe, Next
<1>2. PICK ks \in Requests :
         /\ skus' = ks
         /\ IF ks = <<>> THEN stage' = "refused" /\ UNCHANGED <<keys, next, reader, out>>
            ELSE StartRead("warehouses", AllKeys)
  BY DEF Ask
<1>3. stage = "start" /\ UNCHANGED <<pulled, changes, faults>>
  BY DEF Ask, onec
<1>4. Distinct(skus')
  BY <1>2, RequestsTyped
<1>5. CASE ks = <<>>
  <2>1. stage' = "refused" /\ UNCHANGED <<keys, next, reader, out>>
    BY <1>2, <1>5
  <2>2. stage \notin Stages /\ stage' \notin Stages
    BY <1>3, <2>1 DEF Stages, Flat, Balance
  <2>3. \A r \in Threads : reader'[r].parts = <<>> /\ reader'[r].local = <<>>
    <3>1. SUFFICES ASSUME NEW r \in Threads PROVE reader[r].parts = <<>> /\ reader[r].local = <<>>
      BY <2>1
    <3>2. reader[r].at = "ended"
      BY <2>2 DEF Safe, Ground, ShapeInv, Shaped
    <3>3. QED
      BY <3>2, InHand DEF Safe, Ground
  <2>4. out' = <<>>
    BY <2>1, <2>2, NoRows DEF Safe, Ground
  <2>5. ClaimInv' /\ OrderInv'
    BY <2>3, <2>4, Fresh
  <2>6. KeyInv'
    BY <1>3, <1>4, <2>1, <2>2 DEF Safe, KeyInv
  <2>7. OnceInv'
    <3>1. Distinct(<<>>)
      BY DEF Distinct
    <3>2. QED
      BY <1>3, <2>4, <3>1 DEF Safe, OnceInv
  <2>8. QED
    BY <1>1, <2>5, <2>6, <2>7 DEF Safe
<1>6. CASE ks # <<>>
  <2>1. StartRead("warehouses", AllKeys) /\ "warehouses" \in Stages
    BY <1>2, <1>6 DEF Stages, Flat
  <2>2. /\ stage' = "warehouses" /\ keys' = AllKeys /\ out' = <<>>
        /\ \A r \in Threads : reader'[r].parts = <<>> /\ reader'[r].local = <<>>
    <3>1. faults' \in Nat
      BY <1>3, ReadAssumption DEF Safe, Ground, TypeInv
    <3>2. QED
      BY <2>1, <3>1, Starts
  <2>3. ClaimInv' /\ OrderInv'
    BY <2>2, Fresh
  <2>4. KeyInv'
    <3>1. Distinct(AllKeys)
      BY DEF AllKeys, Distinct
    <3>2. KeysOfRead("warehouses")' = AllKeys
      BY DEF KeysOfRead
    <3>3. QED
      BY <1>3, <1>4, <2>2, <3>1, <3>2 DEF Safe, KeyInv
  <2>5. OnceInv'
    <3>1. Distinct(<<>>)
      BY DEF Distinct
    <3>2. QED
      BY <1>3, <2>2, <3>1 DEF Safe, OnceInv
  <2>6. QED
    BY <1>1, <2>3, <2>4, <2>5 DEF Safe
<1>7. QED
  BY <1>5, <1>6

(* The keys of the costs are the analytic keys that were read, each once.  *)
LEMMA RefsOnce ==
    ASSUME NEW S, NEW rows \in Seq(S)
    PROVE  Distinct(Refs(Unique(rows)))
<1>1. \A k, l \in DOMAIN Unique(rows) : Unique(rows)[k].val.ref = Unique(rows)[l].val.ref => k = l
  BY UniqueIs
<1> DEFINE u == Unique(rows)
<1> HIDE DEF u
<1>2. Distinct(Refs(u))
  BY <1>1 DEF Refs, Distinct, u
<1>3. QED
  BY <1>2 DEF u

LEMMA UniqueOnce ==
    ASSUME NEW S, NEW rows \in Seq(S)
    PROVE  Distinct(Unique(rows))
BY UniqueIs DEF Distinct

LEMMA SafeJoin == ASSUME Safe, Join PROVE Safe'
<1>1. Ground'
  BY GroundStep DEF Safe, Next
<1>2. Distinct(<<>>)
  BY DEF Distinct
<1>3. UNCHANGED <<skus, changes, faults>> /\ faults' \in Nat
  <2>1. UNCHANGED <<skus, changes, faults>>
    BY DEF Join, JoinWarehouses, JoinAnalytics, JoinCosts, JoinStocks, JoinSuppliers, JoinThrown, JoinFrame, onec
  <2>2. faults \in Nat
    BY ReadAssumption DEF Safe, Ground, TypeInv
  <2>3. QED
    BY <2>1, <2>2
<1>4. CASE ~JoinSuppliers /\ ~JoinThrown
  <2>1. PICK s \in Stages, t \in Stages : \E rows \in Seq(Entries(s)), ks \in Seq(KeySet) :
             /\ Reading(s) /\ pulled' = [pulled EXCEPT ![s] = rows]
             /\ StartRead(t, ks)
             /\ rows = IF s = "analytics" THEN Unique(out) ELSE out
             /\ \/ t # "costs" /\ t # "warehouses" /\ ks = skus
                \/ s = "analytics" /\ t = "costs" /\ ks = Refs(rows)
    BY <1>4, JoinIs DEF Safe, Ground
  <2>2. PICK rows \in Seq(Entries(s)), ks \in Seq(KeySet) :
             /\ Reading(s) /\ pulled' = [pulled EXCEPT ![s] = rows]
             /\ StartRead(t, ks)
             /\ rows = IF s = "analytics" THEN Unique(out) ELSE out
             /\ \/ t # "costs" /\ t # "warehouses" /\ ks = skus
                \/ s = "analytics" /\ t = "costs" /\ ks = Refs(rows)
    BY <2>1
  <2>3. stage = s /\ out \in Seq(Entries(s)) /\ DOMAIN pulled = Stages
    BY <2>2 DEF Reading, Safe, Ground, TypeInv, Source
  <2>4. /\ stage' = t /\ keys' = ks /\ out' = <<>>
        /\ \A r \in Threads : reader'[r].parts = <<>> /\ reader'[r].local = <<>>
    BY <1>3, <2>2, Starts
  <2>5. ClaimInv' /\ OrderInv'
    BY <2>4, Fresh
  <2>6. s \in Balance \/ changes = 0 => Distinct(rows)
    <3>1. s = "analytics" => s \notin Balance
      BY DEF Balance
    <3>2. Distinct(Unique(out))
      BY <2>3, UniqueOnce
    <3>3. QED
      BY <2>2, <2>3, <3>1, <3>2 DEF Safe, OnceInv
  <2>7. \A u \in Stages : pulled'[u] = IF u = s THEN rows ELSE pulled[u]
    BY <2>2, <2>3
  <2>8. OnceInv'
    <3>1. Balance \subseteq Stages
      BY DEF Stages
    <3>2. \A u \in Balance : Distinct(pulled'[u])
      BY <2>6, <2>7, <3>1 DEF Safe, OnceInv
    <3>3. changes = 0 => \A u \in Stages : Distinct(pulled'[u])
      BY <2>6, <2>7 DEF Safe, OnceInv
    <3>4. QED
      BY <1>2, <1>3, <2>4, <3>2, <3>3 DEF OnceInv
  <2>9. Distinct(Refs(pulled'["analytics"]))
    <3>1. "analytics" \in Stages
      BY DEF Stages, Flat
    <3>2. CASE s = "analytics"
      <4>1. pulled'["analytics"] = Unique(out)
        BY <2>2, <2>7, <3>1, <3>2
      <4>2. QED
        BY <2>3, <4>1, RefsOnce
    <3>3. CASE s # "analytics"
      BY <2>7, <3>1, <3>3 DEF Safe, KeyInv
    <3>4. QED
      BY <3>2, <3>3
  <2>10. KeyInv'
    <3>1. keys' = KeysOfRead(t)'
      <4>1. CASE t # "costs" /\ t # "warehouses" /\ ks = skus
        BY <1>3, <2>4, <4>1 DEF KeysOfRead
      <4>2. CASE s = "analytics" /\ t = "costs" /\ ks = Refs(rows)
        <5>1. pulled'["analytics"] = rows
          BY <2>7, <4>2
        <5>2. KeysOfRead("costs")' = Refs(pulled'["analytics"])
          BY DEF KeysOfRead
        <5>3. QED
          BY <2>4, <4>2, <5>1, <5>2
      <4>3. QED
        BY <2>2, <4>1, <4>2
    <3>2. Distinct(keys')
      <4>1. CASE t # "costs" /\ t # "warehouses" /\ ks = skus
        BY <2>4, <4>1 DEF Safe, KeyInv
      <4>2. CASE s = "analytics" /\ t = "costs" /\ ks = Refs(rows)
        <5>1. pulled'["analytics"] = rows
          BY <2>7, <4>2
        <5>2. QED
          BY <2>4, <2>9, <4>2, <5>1
      <4>3. QED
        BY <2>2, <4>1, <4>2
    <3>3. Distinct(skus')
      BY <1>3 DEF Safe, KeyInv
    <3>4. QED
      BY <2>4, <2>9, <3>1, <3>2, <3>3 DEF KeyInv
  <2>11. QED
    BY <1>1, <2>5, <2>8, <2>10 DEF Safe
<1>5. CASE JoinSuppliers
  <2>1. /\ Reading("suppliers") /\ pulled' = [pulled EXCEPT ![stage] = out]
        /\ stage' = "answered" /\ keys' = <<>> /\ out' = <<>> /\ UNCHANGED reader
    BY <1>5 DEF JoinSuppliers, Result
  <2>2. stage = "suppliers" /\ stage \in Stages /\ stage' \notin Stages
    BY <2>1 DEF Reading, Stages, Flat, Balance
  <2>3. \A r \in Threads : reader'[r].parts = <<>> /\ reader'[r].local = <<>>
    BY <2>1, <2>2, AllEnded DEF Safe, Ground
  <2>4. ClaimInv' /\ OrderInv'
    BY <2>1, <2>3, Fresh
  <2>5. DOMAIN pulled = Stages
    BY DEF Safe, Ground, TypeInv
  <2>6. \A u \in Stages : pulled'[u] = IF u = "suppliers" THEN out ELSE pulled[u]
    BY <2>1, <2>2, <2>5
  <2>7. KeyInv'
    <3>1. "analytics" \in Stages
      BY DEF Stages, Flat
    <3>2. pulled'["analytics"] = pulled["analytics"]
      BY <2>6, <3>1
    <3>3. QED
      BY <1>2, <1>3, <2>1, <2>2, <3>2 DEF Safe, KeyInv
  <2>8. OnceInv'
    <3>1. Balance \subseteq Stages /\ "suppliers" \notin Balance
      BY DEF Stages, Balance
    <3>2. \A u \in Balance : Distinct(pulled'[u])
      BY <2>6, <3>1 DEF Safe, OnceInv
    <3>3. changes = 0 => \A u \in Stages : Distinct(pulled'[u])
      BY <2>6 DEF Safe, OnceInv
    <3>4. QED
      BY <1>2, <1>3, <2>1, <3>2, <3>3 DEF OnceInv
  <2>9. QED
    BY <1>1, <2>4, <2>7, <2>8 DEF Safe
<1>6. CASE JoinThrown
  <2>1. /\ stage' = "thrown" /\ pulled' = [s \in Stages |-> <<>>]
        /\ keys' = <<>> /\ out' = <<>>
        /\ reader' = [r \in Threads |-> Rest]
    BY <1>6 DEF JoinThrown, Threads
  <2>2. stage' \notin Stages
    BY <2>1 DEF Stages, Flat, Balance
  <2>3. \A r \in Threads : reader'[r].parts = <<>> /\ reader'[r].local = <<>>
    BY <2>1 DEF Rest
  <2>4. ClaimInv' /\ OrderInv'
    BY <2>1, <2>3, Fresh
  <2>5. \A u \in Stages : pulled'[u] = <<>>
    BY <2>1
  <2>6. KeyInv'
    <3>1. pulled'["analytics"] = <<>>
      BY <2>5 DEF Stages, Flat
    <3>2. Distinct(Refs(<<>>))
      BY DEF Refs, Distinct
    <3>3. QED
      BY <1>2, <1>3, <2>1, <2>2, <3>1, <3>2 DEF Safe, KeyInv
  <2>7. OnceInv'
    <3>1. Balance \subseteq Stages
      BY DEF Stages
    <3>2. QED
      BY <1>2, <2>1, <2>5, <3>1 DEF OnceInv
  <2>8. QED
    BY <1>1, <2>4, <2>6, <2>7 DEF Safe
<1>7. QED
  BY <1>4, <1>5, <1>6

LEMMA SafeStep == Safe /\ [Next]_vars => Safe'
<1> SUFFICES ASSUME Safe, [Next]_vars PROVE Safe'
  OBVIOUS
<1>1. Ground'
  BY GroundStep DEF Safe
<1>2. CASE Ask
  BY <1>2, SafeAsk
<1>3. CASE Join
  BY <1>3, SafeJoin
<1>4. CASE OnecChanges
  <2>1. /\ UNCHANGED <<stage, skus, keys, next, reader, out, pulled>> /\ changes' # 0 /\ stage \in Stages
    BY <1>4, EditIs DEF Safe, Ground
  <2>2. KeyInv'
    BY <2>1 DEF Safe, KeyInv, KeysOfRead
  <2>3. ClaimInv'
    <3>1. \A x : Pending(x)' <=> Pending(x)
      BY <2>1 DEF Pending, Offset, ChunkLength
    <3>2. QED
      BY <2>1, <3>1 DEF Safe, ClaimInv
  <2>4. OrderInv'
    <3>1. ASSUME NEW r \in Threads PROVE Orderly(reader[r])'
      <4>1. reader'[r] = reader[r] /\ Orderly(reader[r])
        BY <2>1 DEF Safe, OrderInv
      <4>2. QED
        BY <2>1, <4>1 DEF Orderly
    <3>2. QED
      BY <3>1 DEF OrderInv
  <2>5. OnceInv'
    BY <2>1 DEF Safe, OnceInv
  <2>6. QED
    BY <1>1, <2>2, <2>3, <2>4, <2>5 DEF Safe
<1>5. CASE \E r \in Workers \cup {Main} : Step(r)
  <2>1. PICK r \in Threads : Step(r)
    BY <1>5 DEF Threads
  <2>2. UNCHANGED <<stage, skus, keys, pulled>>
    BY <2>1, StepIs DEF Safe, Ground
  <2>3. KeyInv'
    BY <2>2 DEF Safe, KeyInv, KeysOfRead
  <2>4. ClaimInv'
    BY <2>1, ClaimThread DEF Safe
  <2>5. OrderInv'
    BY <2>1, OrderThread DEF Safe
  <2>6. OnceInv'
    BY <2>1, OnceThread DEF Safe
  <2>7. QED
    BY <1>1, <2>3, <2>4, <2>5, <2>6 DEF Safe
<1>6. CASE UNCHANGED vars
  <2>1. UNCHANGED <<stage, skus, keys, next, reader, out, pulled, book, changes>>
    BY <1>6 DEF vars, onec
  <2>2. KeyInv'
    BY <2>1 DEF Safe, KeyInv, KeysOfRead
  <2>3. ClaimInv'
    <3>1. \A x : Pending(x)' <=> Pending(x)
      BY <2>1 DEF Pending, Offset, ChunkLength
    <3>2. QED
      BY <2>1, <3>1 DEF Safe, ClaimInv
  <2>4. OrderInv'
    <3>1. ASSUME NEW r \in Threads PROVE Orderly(reader[r])'
      <4>1. reader'[r] = reader[r] /\ Orderly(reader[r])
        BY <2>1 DEF Safe, OrderInv
      <4>2. \A part : Matching(part)' = Matching(part)
        BY <2>1 DEF Matching
      <4>3. QED
        BY <2>1, <4>1, <4>2 DEF Orderly
    <3>2. QED
      BY <3>1 DEF OrderInv
  <2>5. OnceInv'
    BY <2>1 DEF Safe, OnceInv
  <2>6. QED
    BY <1>1, <2>2, <2>3, <2>4, <2>5 DEF Safe
<1>7. QED
  BY <1>2, <1>3, <1>4, <1>5, <1>6 DEF Next

LEMMA SafeInit == Init => Safe
<1> SUFFICES ASSUME Init PROVE Safe
  OBVIOUS
<1>1. /\ stage = "start" /\ skus = <<>> /\ keys = <<>> /\ out = <<>> /\ pulled = [s \in Stages |-> <<>>]
      /\ reader = [r \in Threads |-> Rest]
  BY DEF Init, Threads
<1>2. Ground
  BY TypeInit DEF Ground
<1>3. Distinct(<<>>) /\ Distinct(Refs(<<>>)) /\ DOMAIN <<>> = {}
  BY DEF Distinct, Refs
<1>4. "start" \notin Stages /\ "analytics" \in Stages /\ Balance \subseteq Stages
  BY DEF Stages, Flat, Balance
<1>5. \A s \in Stages : pulled[s] = <<>>
  BY <1>1
<1>6. KeyInv
  BY <1>1, <1>3, <1>4, <1>5 DEF KeyInv
<1>7. \A r \in Threads : reader[r].parts = <<>> /\ reader[r].local = <<>>
  BY <1>1 DEF Rest
<1>8. \A x : ~InRows(out, x) /\ \A r \in Threads : ~InRows(reader[r].local, x) /\ ~InParts(reader[r], x)
  BY <1>1, <1>7, NoKeys
<1>9. ClaimInv
  BY <1>8 DEF ClaimInv, Claims
<1>10. OrderInv
  BY <1>3, <1>7, <1>8 DEF OrderInv, Orderly, Distinct
<1>11. OnceInv
  BY <1>1, <1>3, <1>4, <1>5 DEF OnceInv
<1>12. QED
  BY <1>2, <1>6, <1>9, <1>10, <1>11 DEF Safe

(* Rows that are not the same do not say the same.                         *)
LEMMA SaidOnce ==
    ASSUME NEW s \in Stages, NEW rows \in Seq(Entries(s)), Distinct(rows)
    PROVE  Once(rows)
<1> DEFINE said == [i \in DOMAIN rows |-> rows[i].val]
<1>1. \A i, j \in DOMAIN rows : rows[i].val = rows[j].val => i = j
  <2>1. SUFFICES ASSUME NEW i \in DOMAIN rows, NEW j \in DOMAIN rows, rows[i].val = rows[j].val PROVE i = j
    OBVIOUS
  <2>2. rows[i] \in Entries(s) /\ rows[j] \in Entries(s)
    OBVIOUS
  <2>3. rows[i] = rows[j]
    BY <2>1, <2>2, EntriesTyped
  <2>4. QED
    BY <2>3 DEF Distinct
<1>2. DOMAIN said = DOMAIN rows /\ \A i \in DOMAIN rows : said[i] = rows[i].val
  OBVIOUS
<1> HIDE DEF said
<1>3. Distinct(said)
  BY <1>1, <1>2 DEF Distinct
<1>4. QED
  BY <1>3 DEF Once, said

(* However the threads share the chunks, halve them and ask again, and     *)
(* whatever is edited in 1C, no row of a balance and no analytic key is in *)
(* the result twice; no price and no warehouse either, while 1C is left    *)
(* alone.                                                                  *)
THEOREM Ka2ReadsOnce == Spec => []NothingTwice
<1>1. Init => Safe
  BY SafeInit
<1>2. Safe => NothingTwice
  <2>1. SUFFICES ASSUME Safe PROVE NothingTwice
    OBVIOUS
  <2>2. /\ \A s \in Stages : pulled[s] \in Seq(Entries(s))
        /\ {"analytics", "suppliers", "warehouses"} \cup Balance \subseteq Stages
    BY <2>1 DEF Safe, Ground, TypeInv, Stages, Flat
  <2>3. ASSUME NEW s \in Balance \cup {"analytics"} PROVE Once(pulled[s])
    <3>1. CASE s \in Balance
      BY <2>1, <2>2, <3>1, SaidOnce DEF Safe, OnceInv
    <3>2. CASE s = "analytics"
      <4> DEFINE rows == pulled["analytics"]
      <4>1. rows \in Seq(Entries("analytics")) /\ Distinct(Refs(rows))
        BY <2>1, <2>2 DEF Safe, KeyInv
      <4>2. \A i \in DOMAIN rows : i \in DOMAIN Refs(rows) /\ Refs(rows)[i] = rows[i].val.ref
        BY DEF Refs
      <4> HIDE DEF rows
      <4>3. Distinct(rows)
        BY <4>1, <4>2 DEF Distinct
      <4>4. QED
        BY <2>2, <3>2, <4>1, <4>3, SaidOnce DEF rows
    <3>3. QED
      BY <3>1, <3>2
  <2>4. stage \in Balance => Once(out)
    <3>1. SUFFICES ASSUME stage \in Balance PROVE Once(out)
      OBVIOUS
    <3>2. stage \in Stages /\ out \in Seq(Entries(stage)) /\ Distinct(out)
      BY <2>1, <3>1 DEF Safe, Ground, TypeInv, Source, OnceInv, Stages
    <3>3. QED
      BY <3>2, SaidOnce
  <2>5. changes = 0 => Once(pulled["suppliers"]) /\ Once(pulled["warehouses"])
    BY <2>1, <2>2, SaidOnce DEF Safe, OnceInv
  <2>6. QED
    BY <2>3, <2>4, <2>5 DEF NothingTwice
<1>3. QED
  BY <1>1, <1>2, SafeStep, PTL DEF Spec

---------------------------------------------------------------------------
(* Every row asked for is still to be asked for, given up, or read.        *)

LEMMA IsInAppend ==
    ASSUME NEW S, NEW s \in Seq(S), NEW t \in Seq(S), NEW row
    PROVE  IsIn(row, s \o t) <=> IsIn(row, s) \/ IsIn(row, t)
<1> DEFINE u == s \o t
<1>1. /\ \A k \in DOMAIN u :
           \/ k \in DOMAIN s /\ u[k] = s[k]
           \/ \E j \in DOMAIN t : k = Len(s) + j /\ u[k] = t[j]
      /\ \A i \in DOMAIN s : i \in DOMAIN u /\ u[i] = s[i]
      /\ \A j \in DOMAIN t : Len(s) + j \in DOMAIN u /\ u[Len(s) + j] = t[j]
  BY AppendIs
<1> HIDE DEF u
<1>2. IsIn(row, u) => IsIn(row, s) \/ IsIn(row, t)
  BY <1>1 DEF IsIn
<1>3. IsIn(row, s) => IsIn(row, u)
  BY <1>1 DEF IsIn
<1>4. IsIn(row, t) => IsIn(row, u)
  BY <1>1 DEF IsIn
<1>5. QED
  BY <1>2, <1>3, <1>4 DEF u

LEMMA FromAppend ==
    ASSUME NEW S, NEW s \in Seq(S), NEW t \in Seq(S), From(s), From(t)
    PROVE  From(s \o t)
<1> DEFINE u == s \o t
<1>1. \A k \in DOMAIN u :
           \/ k \in DOMAIN s /\ u[k] = s[k]
           \/ \E j \in DOMAIN t : k = Len(s) + j /\ u[k] = t[j]
  BY AppendIs
<1> HIDE DEF u
<1>2. From(u)
  BY <1>1 DEF From
<1>3. QED
  BY <1>2 DEF u

(* A row whose key is in the part at hand is among those it will be given. *)
LEMMA AheadIs ==
    ASSUME TypeInv, BookInv, stage \in Stages, NEW k \in DOMAIN book[stage],
           NEW q, q.parts # <<>>, q.skip = 0, HasKey(Head(q.parts), book[stage][k].key)
    PROVE  Ahead(q, book[stage][k])
<1> DEFINE f == Matching(Head(q.parts))
<1>1. IsIn(book[stage][k], f) /\ f \in Seq(Source)
  BY MatchingIs
<1>2. PICK l \in DOMAIN f : f[l] = book[stage][k]
  BY <1>1 DEF IsIn
<1>3. l \in 1 .. Len(f) /\ Len(f) \in Nat
  BY <1>1
<1>4. l > 0
  BY <1>3
<1> HIDE DEF f
<1>5. l > q.skip
  BY <1>4
<1>6. QED
  BY <1>2, <1>5 DEF Ahead, f

LEMMA GivenUpStays ==
    ASSUME TypeInv, stage \in Stages, stage' = stage,
           NEW part, NEW why \in Reasons, lost' = Missing(part, why)
    PROVE  /\ \A s \in Stages : \A x : GivenUp(s, x) => GivenUp(s, x)'
           /\ \A x : HasKey(part, x) => GivenUp(stage, x)'
<1>1. DOMAIN lost = Stages
  BY DEF TypeInv
<1>2. \A s \in Stages : lost'[s] = IF s = stage THEN lost[s] \cup {<<part[i], why>> : i \in DOMAIN part}
                                   ELSE lost[s]
  BY <1>1 DEF Missing
<1>3. \A s \in Stages : \A x : GivenUp(s, x) => GivenUp(s, x)'
  BY <1>2 DEF GivenUp
<1>4. ASSUME NEW x, HasKey(part, x) PROVE GivenUp(stage, x)'
  <2>1. PICK i \in DOMAIN part : part[i] = x
    BY <1>4 DEF HasKey
  <2>2. <<x, why>> \in lost'[stage]
    BY <1>2, <2>1
  <2>3. QED
    BY <2>2 DEF GivenUp
<1>5. QED
  BY <1>3, <1>4

LEMMA LostGrows ==
    ASSUME Ground, NEW r \in Threads, Step(r)
    PROVE  \A s \in Stages : \A x : GivenUp(s, x) => GivenUp(s, x)'
<1>1. /\ stage \in Stages /\ stage' = stage
      /\ \/ Takes(r) \/ Leaves(r) \/ EndsPart(r) \/ GoesOn(r)
         \/ TriesAgain(r) \/ Halves2(r) \/ Throws(r) \/ Pushes(r)
  BY StepIs DEF Ground
<1>2. CASE lost' = lost
  BY <1>2 DEF GivenUp
<1>3. CASE EndsPart(r)
  <2>1. lost' = lost \/ \E why \in Reasons : lost' = Missing(Head(reader[r].parts), why)
    BY <1>3 DEF EndsPart
  <2>2. QED
    BY <1>1, <1>2, <2>1, GivenUpStays DEF Ground
<1>4. Takes(r) \/ Leaves(r) => lost' = lost
  BY DEF Takes, Leaves
<1>5. GoesOn(r) => lost' = lost
  BY DEF GoesOn
<1>6. TriesAgain(r) \/ Halves2(r) => lost' = lost
  BY DEF TriesAgain, Halves2
<1>7. Throws(r) \/ Pushes(r) => lost' = lost
  BY DEF Throws, Pushes
<1>8. QED
  BY <1>1, <1>2, <1>3, <1>4, <1>5, <1>6, <1>7

(* What the thread that steps holds is covered after the step.             *)
LEMMA HeldStays ==
    ASSUME Ground, NEW r \in Threads, Step(r), NEW k \in DOMAIN book[stage], book[stage][k].good,
           Held(reader[r], book[stage][k])
    PROVE  \/ Held(reader[r], book[stage][k])'
           \/ GivenUp(stage, book[stage][k].key)'
           \/ IsIn(book[stage][k], out')
<1> DEFINE q == reader[r]
           p == reader'[r]
           row == book[stage][k]
<1>1. /\ UNCHANGED <<stage, book>> /\ stage \in Stages
      /\ \/ Takes(r) \/ Leaves(r) \/ EndsPart(r) \/ GoesOn(r)
         \/ TriesAgain(r) \/ Halves2(r) \/ Throws(r) \/ Pushes(r)
  BY StepIs DEF Ground
<1>2. /\ q.parts \in Seq(Seq(KeySet)) /\ q.local \in Seq(Source) /\ q.skip \in Nat
      /\ stage \in Flat => Len(q.parts) <= 1
  BY InHand DEF Ground
<1>3. \A part : Matching(part)' = Matching(part)
  BY <1>1 DEF Matching
<1>4. Held(p, row) => Held(reader[r], row)'
  BY <1>1, <1>3 DEF Held, Ahead
<1>5. Held(q, row)
  OBVIOUS
<1>13. Held(reader[r], row)' => Held(reader[r], book[stage][k])'
  BY <1>1
<1> HIDE DEF row
<1>6. ~IsIn(row, <<>>)
  BY DEF IsIn
<1>7. CASE Takes(r) \/ Leaves(r)
  <2>1. q.parts = <<>> /\ q.local = <<>> /\ q.at # "thrown"
    BY <1>7, TakesIs, LeavesIs DEF Ground
  <2>2. \A a : a \notin DOMAIN <<>>
    OBVIOUS
  <2> HIDE DEF q
  <2>3. QED
    BY <1>5, <1>6, <2>1, <2>2 DEF Held, Ahead
<1>8. CASE Throws(r)
  <2>1. p.at = "thrown"
    BY <1>8, ThrowsIs DEF Ground
  <2>2. Held(p, row)
    BY <2>1 DEF Held
  <2>3. QED
    BY <1>4, <1>13, <2>2
<1>9. CASE Pushes(r)
  <2>1. q.parts = <<>> /\ q.at # "thrown" /\ out' = out \o q.local
    BY <1>9, PushesIs DEF Ground, Pushes
  <2>2. \A a : a \notin DOMAIN <<>>
    OBVIOUS
  <2>3. IsIn(row, q.local)
    <3> HIDE DEF q
    <3>1. QED
      BY <1>5, <2>1, <2>2 DEF Held, Ahead
  <2>4. out \in Seq(Source)
    BY DEF Ground, TypeInv
  <2>5. IsIn(row, out')
    BY <1>2, <2>1, <2>3, <2>4, IsInAppend
  <2>6. QED
    BY <2>5 DEF row
<1>10. CASE TriesAgain(r)
  <2>1. p.parts = q.parts /\ p.local = q.local /\ p.skip = q.skip /\ q.at # "thrown"
    BY <1>10, TriesAgainIs DEF Holds, Ground
  <2>2. Held(p, row)
    <3> HIDE DEF p, q
    <3>1. QED
      BY <1>5, <2>1 DEF Held, Ahead
  <2>3. QED
    BY <1>4, <1>13, <2>2
<1>11. CASE Halves2(r)
  <2>1. PICK new : Halved(q.parts, new) /\ Holds(r, new, 0, q.local)
    BY <1>11, Halves2Is DEF Ground
  <2>2. q.parts # <<>> /\ q.at # "thrown"
    BY <1>11, Halves2Is DEF Ground
  <2>3. p.parts = new /\ p.local = q.local /\ p.skip = 0
    BY <2>1 DEF Holds
  <2>4. /\ new # <<>>
        /\ \A x : HasKey(Head(q.parts), x) => HasKey(Head(new), x) \/ (2 \in DOMAIN new /\ HasKey(new[2], x))
        /\ \A a \in DOMAIN q.parts : a # 1 => a + 1 \in DOMAIN new /\ new[a + 1] = q.parts[a] /\ a + 1 > 1
    <3> HIDE DEF q
    <3>1. QED
      BY <2>1 DEF Halved
  <2>5. CASE IsIn(row, q.local)
    <3>1. Held(p, row)
      BY <2>3, <2>5 DEF Held
    <3>2. QED
      BY <1>4, <1>13, <3>1
  <2>6. CASE \E a \in DOMAIN q.parts : a > 1 /\ HasKey(q.parts[a], row.key)
    <3>1. PICK a \in DOMAIN q.parts : a # 1 /\ HasKey(q.parts[a], row.key)
      BY <2>6
    <3>2. a + 1 \in DOMAIN p.parts /\ a + 1 > 1 /\ HasKey(p.parts[a + 1], row.key)
      BY <2>3, <2>4, <3>1
    <3>3. Held(p, row)
      BY <3>2 DEF Held, Ahead
    <3>4. QED
      BY <1>4, <1>13, <3>3
  <2>7. CASE \E l \in DOMAIN Found(q) : Found(q)[l] = row
    <3>1. HasKey(Head(q.parts), row.key)
      BY <1>1, <2>7, MatchingIs DEF Found, Ground
    <3>2. CASE HasKey(Head(new), row.key)
      <4>1. Ahead(p, row)
        BY <1>1, <2>3, <2>4, <3>2, AheadIs DEF row, Ground
      <4>2. QED
        BY <1>4, <1>13, <4>1 DEF Held
    <3>3. CASE 2 \in DOMAIN new /\ HasKey(new[2], row.key)
      <4>1. 2 \in DOMAIN p.parts /\ 2 > 1 /\ HasKey(p.parts[2], row.key)
        BY <2>3, <3>3
      <4>2. Held(p, row)
        BY <4>1 DEF Held, Ahead
      <4>3. QED
        BY <1>4, <1>13, <4>2
    <3>4. QED
      BY <2>4, <3>1, <3>2, <3>3
  <2>8. IsIn(row, q.local) \/ Ahead(q, row)
    BY <1>5, <2>2 DEF Held
  <2>9. QED
    BY <2>5, <2>6, <2>7, <2>8 DEF Ahead, Found
<1>12. CASE EndsPart(r) \/ GoesOn(r)
  <2>1. PICK n \in Nat, rows \in Seq(Source) : \E left :
          /\ Gain(q, n, rows) /\ p.parts = left /\ p.local = q.local \o rows
          /\ \/ left = q.parts /\ p.skip = q.skip + n /\ UNCHANGED lost
             \/ /\ p.skip = 0 /\ (stage \in Balance => left = Tail(q.parts))
                /\ \/ \A l \in DOMAIN Found(q) : l <= q.skip + n
                   \/ \E why \in Reasons : lost' = Missing(Head(q.parts), why)
    <3>1. CASE EndsPart(r)
      <4>1. PICK n \in Nat, rows \in Seq(Source) : \E left \in {Tail(q.parts), <<>>} :
                /\ Gain(q, n, rows)
                /\ stage \in Balance => left = Tail(q.parts)
                /\ Holds(r, left, 0, q.local \o rows)
                /\ \/ UNCHANGED lost /\ \A l \in DOMAIN Found(q) : l <= q.skip + n
                   \/ \E why \in Reasons : lost' = Missing(Head(q.parts), why)
        BY <1>1, <3>1, EndsPartIs DEF Ground
      <4>2. QED
        BY <4>1 DEF Holds
    <3>2. CASE GoesOn(r)
      <4>1. PICK n \in Nat, rows \in Seq(Source) :
              Gain(q, n, rows) /\ Holds(r, q.parts, q.skip + n, q.local \o rows)
        BY <3>2, GoesOnIs DEF Ground
      <4>2. UNCHANGED lost
        BY <3>2 DEF GoesOn
      <4>3. QED
        BY <4>1, <4>2 DEF Holds
    <3>3. QED
      BY <1>12, <3>1, <3>2
  <2>2. PICK left :
          /\ Gain(q, n, rows) /\ p.parts = left /\ p.local = q.local \o rows
          /\ \/ left = q.parts /\ p.skip = q.skip + n /\ UNCHANGED lost
             \/ /\ p.skip = 0 /\ (stage \in Balance => left = Tail(q.parts))
                /\ \/ \A l \in DOMAIN Found(q) : l <= q.skip + n
                   \/ \E why \in Reasons : lost' = Missing(Head(q.parts), why)
    BY <2>1
  <2>3. q.parts # <<>> /\ q.at # "thrown"
    <3>1. EndsPart(r) => q.parts # <<>> /\ q.at # "thrown"
      BY <1>1, EndsPartIs DEF Ground
    <3>2. GoesOn(r) => q.parts # <<>> /\ q.at # "thrown"
      BY GoesOnIs DEF Ground
    <3>3. QED
      BY <1>12, <3>1, <3>2
  <2>4. IsIn(row, q.local) \/ IsIn(row, rows) => Held(p, row)
    BY <1>2, <2>2, IsInAppend DEF Held
  <2>5. CASE \E a \in DOMAIN q.parts : a > 1 /\ HasKey(q.parts[a], row.key)
    <3>1. PICK a \in DOMAIN q.parts : a > 1 /\ HasKey(q.parts[a], row.key)
      BY <2>5
    <3>0. DOMAIN q.parts = 1 .. Len(q.parts) /\ Len(q.parts) \in Nat
      <4> DEFINE parts == q.parts
      <4>1. parts \in Seq(Seq(KeySet))
        BY <1>2
      <4> HIDE DEF parts
      <4>2. DOMAIN parts = 1 .. Len(parts) /\ Len(parts) \in Nat
        BY <4>1
      <4>3. QED
        BY <4>2 DEF parts
    <3>2. a \in 1 .. Len(q.parts) /\ Len(q.parts) \in Nat
      BY <3>0, <3>1
    <3>3. stage \in Balance
      BY <1>1, <1>2, <3>1, <3>2 DEF Stages
    <3>4. CASE left = q.parts
      <4>1. Held(p, row)
        BY <2>2, <3>1, <3>4 DEF Held, Ahead
      <4>2. QED
        BY <1>4, <1>13, <4>1
    <3>5. CASE left = Tail(q.parts) /\ p.skip = 0
      <4>1. a - 1 \in DOMAIN Tail(q.parts) /\ Tail(q.parts)[a - 1] = q.parts[a]
        BY <1>2, <2>3, <3>1, TailIs
      <4>2. a - 1 = 1 \/ a - 1 > 1
        BY <3>1, <3>2
      <4>3. CASE a - 1 = 1
        <5>1. 1 \in DOMAIN left /\ left[1] = q.parts[a]
          BY <3>5, <4>1, <4>3
        <5>2. left \in Seq(Seq(KeySet))
          BY <1>2, <2>3, <3>5, HeadTailProperties
        <5>3. left # <<>> /\ Head(left) = left[1]
          BY <5>1, <5>2, TailIs, EmptySeq
        <5>4. HasKey(Head(p.parts), row.key) /\ p.parts # <<>> /\ p.skip = 0
          BY <2>2, <3>1, <3>5, <5>1, <5>3
        <5>5. Ahead(p, row)
          BY <1>1, <5>4, AheadIs DEF row, Ground
        <5>6. QED
          BY <1>4, <1>13, <5>5 DEF Held
      <4>4. CASE a - 1 > 1
        <5>1. a - 1 \in DOMAIN p.parts /\ HasKey(p.parts[a - 1], row.key)
          BY <2>2, <3>1, <3>5, <4>1
        <5>2. Held(p, row)
          BY <4>4, <5>1 DEF Held, Ahead
        <5>3. QED
          BY <1>4, <1>13, <5>2
      <4>5. QED
        BY <4>2, <4>3, <4>4
    <3>6. QED
      BY <2>2, <3>3, <3>4, <3>5
  <2>6. CASE \E l \in DOMAIN Found(q) : l > q.skip /\ Found(q)[l] = row
    <3>1. PICK l \in DOMAIN Found(q) : l > q.skip /\ Found(q)[l] = row
      BY <2>6
    <3>2. CASE l <= q.skip + n
      <4>1. Found(q)[l].good
        BY <3>1 DEF row
      <4>2. IsIn(row, rows)
        BY <2>2, <3>1, <3>2, <4>1 DEF Gain
      <4>3. QED
        BY <1>4, <1>13, <2>4, <4>2
    <3>3. CASE ~(l <= q.skip + n)
      <4>1. CASE left = q.parts /\ p.skip = q.skip + n
        <5>1. Found(p) = Found(q)
          BY <2>2, <4>1 DEF Found
        <5>2. l \in Nat
          BY <1>1, MatchingIs DEF Found, Ground
        <5>3. l > p.skip
          BY <1>2, <3>3, <4>1, <5>2
        <5>4. Ahead(p, row)
          BY <2>2, <2>3, <3>1, <4>1, <5>1, <5>3 DEF Ahead, Found
        <5>5. QED
          BY <1>4, <1>13, <5>4 DEF Held
      <4>2. CASE \E why \in Reasons : lost' = Missing(Head(q.parts), why)
        <5>1. HasKey(Head(q.parts), row.key)
          BY <1>1, <3>1, MatchingIs DEF Found, Ground
        <5>2. PICK why \in Reasons : lost' = Missing(Head(q.parts), why)
          BY <4>2
        <5>3. \A x : HasKey(Head(q.parts), x) => GivenUp(stage, x)'
          BY <1>1, <5>2, GivenUpStays DEF Ground
        <5>4. GivenUp(stage, book[stage][k].key)'
          <6>1. \E w \in Reasons : <<row.key, w>> \in lost'[stage]
            BY <1>1, <5>1, <5>3 DEF GivenUp
          <6>2. QED
            BY <1>1, <6>1 DEF GivenUp, row
        <5>5. QED
          BY <5>4
      <4>3. QED
        BY <2>2, <3>1, <3>3, <4>1, <4>2
    <3>4. QED
      BY <3>2, <3>3
  <2>7. CASE IsIn(row, q.local)
    BY <1>4, <1>13, <2>4, <2>7
  <2>8. IsIn(row, q.local) \/ Ahead(q, row)
    BY <1>5, <2>3 DEF Held
  <2>9. QED
    BY <2>5, <2>6, <2>7, <2>8 DEF Ahead, Found
<1>14. QED
  BY <1>1, <1>7, <1>8, <1>9, <1>10, <1>11, <1>12

(* What is read comes from 1C.                                             *)
LEMMA GainFrom ==
    ASSUME TypeInv, BookInv, stage \in Stages, NEW q, NEW n, NEW rows, Gain(q, n, rows)
    PROVE  From(rows)
<1>1. \A i \in DOMAIN rows : \E k \in DOMAIN Found(q) : rows[i] = Found(q)[k]
  BY DEF Gain
<1>2. \A k \in DOMAIN Found(q) : IsIn(Found(q)[k], book[stage])
  BY MatchingIs DEF Found
<1>3. ASSUME NEW i \in DOMAIN rows PROVE \E k \in DOMAIN book[stage] : rows[i] = book[stage][k]
  <2>1. PICK k \in DOMAIN Found(q) : rows[i] = Found(q)[k]
    BY <1>1
  <2>2. IsIn(rows[i], book[stage])
    BY <1>2, <2>1
  <2>3. QED
    BY <2>2 DEF IsIn
<1>4. QED
  BY <1>3 DEF From

LEMMA FromThread ==
    ASSUME Ground, NEW r \in Threads, Step(r), From(out), \A t \in Threads : From(reader[t].local)
    PROVE  From(out') /\ \A t \in Threads : From(reader'[t].local)
<1> DEFINE q == reader[r]
           p == reader'[r]
<1>1. /\ stage \in Stages
      /\ \/ Takes(r) \/ Leaves(r) \/ EndsPart(r) \/ GoesOn(r)
         \/ TriesAgain(r) \/ Halves2(r) \/ Throws(r) \/ Pushes(r)
  BY StepIs DEF Ground
<1>2. q.local \in Seq(Source) /\ out \in Seq(Source) /\ From(q.local)
  <2>1. q.local \in Seq(Source)
    BY InHand DEF Ground
  <2>2. QED
    BY <2>1 DEF Ground, TypeInv
<1>3. From(<<>>)
  BY DEF From
<1>4. From(p.local) /\ Same(r) => \A t \in Threads : From(reader'[t].local)
  BY DEF Same
<1>5. CASE Takes(r) \/ Leaves(r)
  <2>1. p.local = <<>> /\ Same(r)
    BY <1>5, TakesIs, LeavesIs DEF Ground, Holds
  <2>2. out' = out
    BY <1>5 DEF Takes, Leaves
  <2>3. QED
    BY <1>3, <1>4, <2>1, <2>2
<1>6. CASE Throws(r)
  <2>1. p.local = <<>> /\ Same(r)
    BY <1>6, ThrowsIs DEF Ground, Holds
  <2>2. out' = out
    BY <1>6 DEF Throws
  <2>3. QED
    BY <1>3, <1>4, <2>1, <2>2
<1>7. CASE TriesAgain(r)
  <2>1. p.local = q.local /\ Same(r)
    BY <1>7, TriesAgainIs DEF Ground, Holds
  <2>2. out' = out
    BY <1>7 DEF TriesAgain
  <2>3. QED
    BY <1>2, <1>4, <2>1, <2>2
<1>8. CASE Halves2(r)
  <2>1. p.local = q.local /\ Same(r)
    BY <1>8, Halves2Is DEF Ground, Holds
  <2>2. out' = out
    BY <1>8 DEF Halves2
  <2>3. QED
    BY <1>2, <1>4, <2>1, <2>2
<1>9. CASE Pushes(r)
  <2>1. p.local = <<>> /\ Same(r)
    BY <1>9, PushesIs DEF Ground, Holds
  <2>2. out' = out \o q.local
    BY <1>9 DEF Pushes
  <2>3. From(out \o q.local)
    BY <1>2, FromAppend
  <2>4. QED
    BY <1>3, <1>4, <2>1, <2>2, <2>3
<1>10. CASE EndsPart(r) \/ GoesOn(r)
  <2>1. \E n \in Nat, rows \in Seq(Source) : Gain(q, n, rows) /\ p.local = q.local \o rows /\ Same(r)
    <3>1. CASE EndsPart(r)
      <4>1. \E n \in Nat, rows \in Seq(Source) : \E left \in {Tail(q.parts), <<>>} :
              Gain(q, n, rows) /\ Holds(r, left, 0, q.local \o rows)
        BY <1>1, <3>1, EndsPartIs DEF Ground
      <4>2. QED
        BY <4>1 DEF Holds
    <3>2. CASE GoesOn(r)
      <4>1. \E n \in Nat, rows \in Seq(Source) :
              Gain(q, n, rows) /\ Holds(r, q.parts, q.skip + n, q.local \o rows)
        BY <3>2, GoesOnIs DEF Ground
      <4>2. QED
        BY <4>1 DEF Holds
    <3>3. QED
      BY <1>10, <3>1, <3>2
  <2>6. PICK n \in Nat, rows \in Seq(Source) : Gain(q, n, rows) /\ p.local = q.local \o rows /\ Same(r)
    BY <2>1
  <2>7. EndsPart(r) => out' = out
    BY DEF EndsPart
  <2>8. GoesOn(r) => out' = out
    BY DEF GoesOn
  <2>2. out' = out
    BY <1>10, <2>7, <2>8
  <2>3. From(rows)
    BY <1>1, <2>6, GainFrom DEF Ground
  <2>4. From(q.local \o rows)
    BY <1>2, <2>3, FromAppend
  <2>5. QED
    BY <1>4, <2>2, <2>4, <2>6
<1>11. QED
  BY <1>1, <1>5, <1>6, <1>7, <1>8, <1>9, <1>10

(* A chunk that is taken is held by the thread that takes it.              *)
LEMMA TakenIsHeld ==
    ASSUME TypeInv, BookInv, ShapeInv, stage \in Stages, NEW r \in Threads, Takes(r),
           NEW k \in DOMAIN book[stage], HasKey(Chunk(next), book[stage][k].key)
    PROVE  Held(reader'[r], book[stage][k])
<1> DEFINE p == reader'[r]
<1>1. p.parts = <<Chunk(next)>> /\ p.skip = 0
  BY TakesIs DEF Holds
<1> HIDE DEF p
<1>2. \A c : <<c>> # <<>> /\ Head(<<c>>) = c
  OBVIOUS
<1>3. p.parts # <<>> /\ Head(p.parts) = Chunk(next)
  BY <1>1, <1>2
<1>4. HasKey(Head(p.parts), book[stage][k].key)
  BY <1>3
<1>5. Ahead(p, book[stage][k])
  BY <1>1, <1>3, <1>4, AheadIs
<1>6. QED
  BY <1>5 DEF Held, p

LEMMA CoverThread ==
    ASSUME Safe, CoverInv, NEW r \in Threads, Step(r)
    PROVE  CoverInv'
<1>1. /\ UNCHANGED <<stage, keys, book, changes>> /\ stage \in Stages
      /\ \/ Takes(r) \/ Leaves(r) \/ EndsPart(r) \/ GoesOn(r)
         \/ TriesAgain(r) \/ Halves2(r) \/ Throws(r) \/ Pushes(r)
  BY StepIs DEF Safe, Ground
<1> SUFFICES ASSUME changes = 0 PROVE CoverInv'
  BY <1>1 DEF CoverInv
<1>2. From(out) /\ \A t \in Threads : From(reader[t].local)
  BY <1>1 DEF CoverInv
<1>3. From(out') /\ \A t \in Threads : From(reader'[t].local)
  BY <1>2, FromThread DEF Safe
<1>4. From(out)' /\ \A t \in Threads : From(reader[t].local)'
  BY <1>1, <1>3 DEF From
<1>5. /\ Distinct(keys) /\ out \in Seq(Source)
      /\ reader[r].local \in Seq(Source)
  <2>1. Distinct(keys)
    BY DEF Safe, KeyInv
  <2>2. reader[r].local \in Seq(Source)
    BY InHand DEF Safe, Ground
  <2>3. QED
    BY <2>1, <2>2 DEF Safe, Ground, TypeInv
<1>6. /\ Takes(r) => HasChunk(next) /\ next' = next + 1
      /\ ~Takes(r) => next' = next
  <2>1. Takes(r) => HasChunk(next) /\ next' = next + 1
    BY DEF Takes
  <2>2. Leaves(r) \/ TriesAgain(r) \/ Halves2(r) => next' = next
    BY DEF Leaves, TriesAgain, Halves2
  <2>3. Throws(r) \/ Pushes(r) => next' = next
    BY DEF Throws, Pushes
  <2>4. EndsPart(r) => next' = next
    BY DEF EndsPart
  <2>5. GoesOn(r) => next' = next
    BY DEF GoesOn
  <2>6. QED
    BY <1>1, <2>1, <2>2, <2>3, <2>4, <2>5
<1>7. out' = out \/ out' = out \o reader[r].local
  <2>1. Leaves(r) \/ TriesAgain(r) \/ Halves2(r) => out' = out
    BY DEF Leaves, TriesAgain, Halves2
  <2>2. Throws(r) \/ Takes(r) => out' = out
    BY DEF Throws, Takes
  <2>3. EndsPart(r) => out' = out
    BY DEF EndsPart
  <2>4. GoesOn(r) => out' = out
    BY DEF GoesOn
  <2>5. Pushes(r) => out' = out \o reader[r].local
    BY DEF Pushes
  <2>6. QED
    BY <1>1, <2>1, <2>2, <2>3, <2>4, <2>5
<1>8. ASSUME NEW k \in DOMAIN book[stage], book[stage][k].good, HasKey(keys, book[stage][k].key)
      PROVE  Covered(book[stage][k])'
  <2>1. PICK row : row = book[stage][k]
    OBVIOUS
  <2>2. Covered(row)
    BY <1>1, <1>8, <2>1 DEF CoverInv
  <2>3. Covered(row)' => Covered(book[stage][k])'
    BY <1>1, <2>1
  <2>4. CASE Pending(row.key)
    <3>1. CASE Takes(r)
      <4>1. Pending(row.key)' \/ HasKey(Chunk(next), row.key)
        BY <1>1, <1>5, <1>6, <2>4, <3>1, PendingTaken DEF Safe, Ground
      <4>2. CASE Pending(row.key)'
        BY <2>3, <4>2 DEF Covered
      <4>3. CASE HasKey(Chunk(next), row.key)
        <5>1. Held(reader'[r], row)
          BY <1>1, <2>1, <3>1, <4>3, TakenIsHeld DEF Safe, Ground
        <5>2. \A part : Matching(part)' = Matching(part)
          BY <1>1 DEF Matching
        <5>3. Held(reader[r], row)'
          BY <5>1, <5>2 DEF Held, Ahead
        <5>4. Covered(row)'
          BY <5>3 DEF Covered
        <5>5. QED
          BY <2>3, <5>4
      <4>4. QED
        BY <4>1, <4>2, <4>3
    <3>2. CASE ~Takes(r)
      <4>1. Pending(row.key)'
        BY <1>1, <1>6, <2>4, <3>2, PendingStays
      <4>2. QED
        BY <2>3, <4>1 DEF Covered
    <3>3. QED
      BY <3>1, <3>2
  <2>5. CASE GivenUp(stage, row.key)
    <3>1. \A x : GivenUp(stage, x) => \E why \in Reasons : <<x, why>> \in lost'[stage]
      <4>1. \A x : GivenUp(stage, x) => GivenUp(stage, x)'
        BY <1>1, LostGrows DEF Safe
      <4>2. QED
        BY <1>1, <4>1 DEF GivenUp
    <3>2. GivenUp(stage, row.key)'
      BY <1>1, <2>5, <3>1 DEF GivenUp
    <3>3. QED
      BY <2>3, <3>2 DEF Covered
  <2>6. CASE IsIn(row, out)
    <3>0. IsIn(row, out \o reader[r].local)
      BY <1>5, <2>6, IsInAppend
    <3>1. IsIn(row, out')
      BY <1>7, <2>6, <3>0
    <3>2. IsIn(row, out)'
      BY <3>1 DEF IsIn
    <3>3. QED
      BY <2>3, <3>2 DEF Covered
  <2>7. CASE \E t \in Threads : Held(reader[t], row)
    <3>1. PICK t \in Threads : Held(reader[t], row)
      BY <2>7
    <3>2. CASE t = r
      <4>1. \/ Held(reader[r], book[stage][k])'
            \/ GivenUp(stage, book[stage][k].key)'
            \/ IsIn(book[stage][k], out')
        BY <1>8, <2>1, <3>1, <3>2, HeldStays DEF Safe
      <4>2. IsIn(book[stage][k], out') => IsIn(book[stage][k], out)'
        BY <1>1 DEF IsIn
      <4>3. QED
        BY <4>1, <4>2 DEF Covered
    <3>3. CASE t # r
      <4>1. Same(r)
        <5>1. ASSUME NEW rec, Set(r, rec) PROVE Same(r)
          BY <5>1, SetIs DEF Safe, Ground
        <5>2. QED
          BY <1>1, <5>1, TakesIs, LeavesIs, ThrowsIs, PushesIs, TriesAgainIs, GoesOnIs, Halves2Is, EndsPartIs
             DEF Safe, Ground, Holds
      <4>2. reader'[t] = reader[t]
        BY <3>3, <4>1 DEF Same
      <4>3. \A part : Matching(part)' = Matching(part)
        BY <1>1 DEF Matching
      <4>4. Held(reader[t], row)'
        BY <3>1, <4>2, <4>3 DEF Held, Ahead
      <4>5. Covered(row)'
        BY <4>4 DEF Covered
      <4>6. QED
        BY <2>3, <4>5
    <3>4. QED
      BY <3>1, <3>2, <3>3
  <2>8. QED
    BY <2>2, <2>4, <2>5, <2>6, <2>7 DEF Covered
<1>9. QED
  BY <1>1, <1>4, <1>8 DEF CoverInv

(* When a read begins, every key is still to be asked for.                 *)
LEMMA CoverStarts ==
    ASSUME NEW s \in Stages, NEW ks \in Seq(KeySet), StartRead(s, ks), faults' \in Nat
    PROVE  CoverInv'
<1>1. /\ stage' = s /\ keys' = ks /\ next' = 1 /\ out' = <<>>
      /\ \A r \in Threads : reader'[r].local = <<>>
  BY Starts
<1>2. From(out)' /\ \A r \in Threads : From(reader[r].local)'
  BY <1>1 DEF From
<1>3. Offset(next)' = 0
  <2>1. ChunkLength' \in Nat
    BY ReadAssumption DEF ChunkLength
  <2>2. Offset(next)' = (1 - 1) * ChunkLength'
    BY <1>1 DEF Offset
  <2>3. \A c \in Nat : (1 - 1) * c = 0
    OBVIOUS
  <2>4. (1 - 1) * ChunkLength' = 0
    BY <2>1, <2>3, Zenon
  <2>5. QED
    BY <2>2, <2>4, Zenon
<1>4. \A i \in DOMAIN ks : i > 0
  OBVIOUS
<1>5. \A x : HasKey(ks, x) => \E i \in DOMAIN keys' : i > Offset(next)' /\ keys'[i] = x
  BY <1>1, <1>3, <1>4 DEF HasKey
<1>6. ASSUME NEW k \in DOMAIN book'[stage'], HasKey(ks, book'[stage'][k].key)
      PROVE  Covered(book[stage][k])'
  <2>1. Pending(book[stage][k].key)'
    BY <1>5, <1>6 DEF Pending
  <2>2. QED
    BY <2>1 DEF Covered
<1>7. QED
  BY <1>1, <1>2, <1>6 DEF CoverInv

(* Once the threads of a read have ended, nothing is pending or in hand.   *)
LEMMA NothingLeft ==
    ASSUME Safe, CoverInv, changes = 0, NEW s \in Stages, Reading(s)
    PROVE  \A k \in DOMAIN book[s] :
             book[s][k].good /\ HasKey(KeysOfRead(s), book[s][k].key)
                => GivenUp(s, book[s][k].key) \/ IsIn(book[s][k], out)
<1>1. stage = s /\ \A r \in Threads : reader[r].at = "ended" /\ reader[r].parts = <<>> /\ reader[r].local = <<>>
  BY AllEnded DEF Safe, Ground
<1>2. ~HasChunk(next)
  <2>1. \E r : r \in Team(s)
    BY ReadAssumption DEF Team
  <2>2. QED
    BY <2>1, AllEnded DEF Safe, Ground
<1>3. \A x : ~Pending(x)
  <2> DEFINE o == Offset(next)
  <2>1. o \in Nat /\ keys \in Seq(KeySet)
    BY OffsetIs DEF Safe, Ground, TypeInv
  <2>2. ~(o < Len(keys))
    BY <1>2 DEF HasChunk
  <2> HIDE DEF o
  <2>3. \A i \in DOMAIN keys : ~(i > o)
    <3>1. SUFFICES ASSUME NEW i \in DOMAIN keys PROVE ~(i > o)
      OBVIOUS
    <3>2. Len(keys) \in Nat /\ i \in 1 .. Len(keys)
      BY <2>1
    <3>3. QED
      BY <2>1, <2>2, <3>2
  <2>4. QED
    BY <2>3 DEF Pending, o
<1>4. \A r \in Threads : \A row : ~Held(reader[r], row)
  <2>1. SUFFICES ASSUME NEW r \in Threads, NEW row PROVE ~Held(reader[r], row)
    OBVIOUS
  <2>2. reader[r].at = "ended" /\ reader[r].parts = <<>> /\ reader[r].local = <<>>
    BY <1>1
  <2>3. DOMAIN <<>> = {}
    OBVIOUS
  <2>4. ~IsIn(row, reader[r].local)
    BY <2>2, <2>3 DEF IsIn
  <2>5. ~Ahead(reader[r], row)
    BY <2>2, <2>3 DEF Ahead
  <2>6. QED
    BY <2>2, <2>4, <2>5 DEF Held
<1>5. keys = KeysOfRead(s)
  BY <1>1 DEF Safe, KeyInv
<1>6. \A k \in DOMAIN book[stage] :
        book[stage][k].good /\ HasKey(keys, book[stage][k].key) => Covered(book[stage][k])
  BY <1>1 DEF CoverInv
<1>7. SUFFICES ASSUME NEW k \in DOMAIN book[s], book[s][k].good, HasKey(KeysOfRead(s), book[s][k].key)
               PROVE  GivenUp(s, book[s][k].key) \/ IsIn(book[s][k], out)
  OBVIOUS
<1>8. Covered(book[s][k])
  BY <1>1, <1>5, <1>6, <1>7
<1>9. QED
  BY <1>1, <1>3, <1>4, <1>8 DEF Covered

(* The rows that are kept of a read are all of them: without an edit no    *)
(* analytic key has come twice.                                            *)
LEMMA NothingDropped ==
    ASSUME Safe, CoverInv, changes = 0, NEW s \in Stages, Reading(s),
           NEW rows, rows = (IF s = "analytics" THEN Unique(out) ELSE out), NEW row, IsIn(row, out)
    PROVE  IsIn(row, rows)
<1>1. CASE s # "analytics"
  BY <1>1
<1>2. CASE s = "analytics"
  <2>1. /\ stage = "analytics" /\ out \in Seq(Entries("analytics")) /\ Distinct(out) /\ From(out)
        /\ book \in Books
    BY <1>2 DEF Reading, Safe, Ground, TypeInv, Source, OnceInv, CoverInv, BookInv
  <2> DEFINE b == book["analytics"]
  <2>2. \A i, j \in DOMAIN b : b[i].val.ref = b[j].val.ref => i = j
    BY <2>1, BookAssumption
  <2>3. \A i \in DOMAIN out : \E k \in DOMAIN b : out[i] = b[k]
    BY <2>1 DEF From
  <2> HIDE DEF b
  <2>4. \A i, j \in DOMAIN out : out[i].val.ref = out[j].val.ref => i = j
    <3>1. SUFFICES ASSUME NEW i \in DOMAIN out, NEW j \in DOMAIN out, out[i].val.ref = out[j].val.ref
                   PROVE  i = j
      OBVIOUS
    <3>2. PICK k \in DOMAIN b, l \in DOMAIN b : out[i] = b[k] /\ out[j] = b[l]
      BY <2>3
    <3>3. out[i] = out[j]
      BY <2>2, <3>1, <3>2
    <3>4. QED
      BY <2>1, <3>3 DEF Distinct
  <2>5. \A i \in DOMAIN out : \E k \in DOMAIN Unique(out) : Unique(out)[k] = out[i]
    BY <2>1, <2>4, UniqueIs
  <2>6. IsIn(row, Unique(out))
    BY <2>5 DEF IsIn
  <2>7. QED
    BY <1>2, <2>6
<1>3. QED
  BY <1>1, <1>2

LEMMA JustOver ==
    ASSUME Safe, CoverInv, changes = 0, NEW s \in Stages, Reading(s),
           NEW rows, rows = (IF s = "analytics" THEN Unique(out) ELSE out),
           pulled'[s] = rows, s = "costs" => pulled'["analytics"] = pulled["analytics"],
           UNCHANGED <<skus, book, lost>>
    PROVE  ReadOver(s)'
<1>1. KeysOfRead(s)' = KeysOfRead(s)
  BY DEF KeysOfRead
<1>2. \A k \in DOMAIN book[s] :
        book[s][k].good /\ HasKey(KeysOfRead(s), book[s][k].key)
           => GivenUp(s, book[s][k].key) \/ IsIn(book[s][k], rows)
  BY NothingLeft, NothingDropped
<1>3. \A x : GivenUp(s, x)' <=> GivenUp(s, x)
  BY DEF GivenUp
<1>4. SUFFICES ASSUME NEW k \in DOMAIN book[s], book[s][k].good, HasKey(KeysOfRead(s), book[s][k].key)
               PROVE  GivenUp(s, book[s][k].key)' \/ IsIn(book[s][k], pulled'[s])
  BY <1>1 DEF ReadOver, HasKey, IsIn
<1>5. PICK row : row = book[s][k]
  OBVIOUS
<1>6. GivenUp(s, row.key) \/ IsIn(row, rows)
  BY <1>2, <1>4, <1>5
<1>7. GivenUp(s, row.key)' => GivenUp(s, book[s][k].key)'
  BY <1>5
<1>8. QED
  BY <1>3, <1>5, <1>6, <1>7

(* A read that is over stays so.                                           *)
LEMMA StaysOver ==
    ASSUME NEW s \in Stages, UNCHANGED <<skus, book>>, pulled'[s] = pulled[s],
           s = "costs" => pulled'["analytics"] = pulled["analytics"],
           \A x : GivenUp(s, x) => GivenUp(s, x)', ReadOver(s)
    PROVE  ReadOver(s)'
<1>1. KeysOfRead(s)' = KeysOfRead(s)
  BY DEF KeysOfRead
<1>2. SUFFICES ASSUME NEW k \in DOMAIN book[s], book[s][k].good, HasKey(KeysOfRead(s), book[s][k].key)
               PROVE  GivenUp(s, book[s][k].key)' \/ IsIn(book[s][k], pulled'[s])
  BY <1>1 DEF ReadOver, HasKey, IsIn
<1>3. PICK row : row = book[s][k]
  OBVIOUS
<1>4. GivenUp(s, row.key) \/ IsIn(row, pulled[s])
  BY <1>2, <1>3 DEF ReadOver
<1>5. GivenUp(s, row.key)' => GivenUp(s, book[s][k].key)'
  BY <1>3
<1>6. QED
  BY <1>3, <1>4, <1>5

LEMMA DoneJoin ==
    ASSUME Safe, CoverInv, DoneInv, Join
    PROVE  DoneInv'
<1>1. UNCHANGED <<skus, changes, book, lost>>
  BY DEF Join, JoinWarehouses, JoinAnalytics, JoinCosts, JoinStocks, JoinSuppliers, JoinThrown, JoinFrame, onec
<1> SUFFICES ASSUME changes = 0 PROVE DoneInv'
  BY <1>1 DEF DoneInv
<1>2. \A u \in Over : ReadOver(u)
  BY DEF DoneInv
<1>3. \A u \in Stages : \A x : GivenUp(u, x) => GivenUp(u, x)'
  BY <1>1 DEF GivenUp
<1>4. TypeInv /\ ShapeInv /\ DOMAIN pulled = Stages
  BY DEF Safe, Ground, TypeInv
<1>5. CASE ~JoinSuppliers /\ ~JoinThrown
  <2>1. PICK s \in Stages, t \in Stages : \E rows \in Seq(Entries(s)), ks \in Seq(KeySet) :
             /\ Reading(s) /\ pulled' = [pulled EXCEPT ![s] = rows]
             /\ StartRead(t, ks)
             /\ rows = IF s = "analytics" THEN Unique(out) ELSE out
             /\ \/ s = "warehouses" /\ t = "analytics"
                \/ s = "analytics" /\ t = "costs"
                \/ s = "analytics" /\ t = "stocks" /\ rows = <<>>
                \/ s = "costs" /\ t = "stocks"
                \/ s = "stocks" /\ t = "suppliers"
    BY <1>4, <1>5, JoinIs
  <2>2. PICK rows \in Seq(Entries(s)), ks \in Seq(KeySet) :
             /\ Reading(s) /\ pulled' = [pulled EXCEPT ![s] = rows]
             /\ StartRead(t, ks)
             /\ rows = IF s = "analytics" THEN Unique(out) ELSE out
             /\ \/ s = "warehouses" /\ t = "analytics"
                \/ s = "analytics" /\ t = "costs"
                \/ s = "analytics" /\ t = "stocks" /\ rows = <<>>
                \/ s = "costs" /\ t = "stocks"
                \/ s = "stocks" /\ t = "suppliers"
    BY <2>1
  <2>3. stage = s /\ stage' = t
    BY <2>2 DEF Reading, StartRead
  <2>4. \A u \in Stages : pulled'[u] = IF u = s THEN rows ELSE pulled[u]
    BY <1>4, <2>2
  <2>5. "analytics" \in Stages /\ "costs" \in Stages
    BY DEF Stages, Flat, Balance
  <2>6. ReadOver(s)'
    <3>1. s = "costs" => pulled'["analytics"] = pulled["analytics"]
      BY <2>4, <2>5
    <3>2. pulled'[s] = rows
      BY <2>4
    <3>3. rows = (IF s = "analytics" THEN Unique(out) ELSE out) /\ Reading(s)
      BY <2>2
    <3>4. QED
      BY <1>1, <3>1, <3>2, <3>3, JustOver
  <2>7. ASSUME NEW u \in Stages, u \in Over, u # s, u = "costs" => s # "analytics" PROVE ReadOver(u)'
    <3>1. pulled'[u] = pulled[u] /\ (u = "costs" => pulled'["analytics"] = pulled["analytics"])
      BY <2>4, <2>5, <2>7
    <3>2. ReadOver(u)
      BY <1>2, <2>7
    <3>3. QED
      BY <1>1, <1>3, <3>1, <3>2, StaysOver
  <2>8. s = "analytics" /\ t = "stocks" => ReadOver("costs")'
    <3>1. SUFFICES ASSUME s = "analytics", t = "stocks" PROVE ReadOver("costs")'
      OBVIOUS
    <3>2. pulled'["analytics"] = <<>>
      BY <2>2, <2>4, <2>5, <3>1
    <3>3. \A x : ~HasKey(Refs(<<>>), x)
      BY DEF HasKey, Refs
    <3>4. KeysOfRead("costs")' = Refs(<<>>)
      BY <3>2 DEF KeysOfRead
    <3>5. \A x : ~HasKey(KeysOfRead("costs")', x)
      BY <3>3, <3>4
    <3>6. QED
      BY <3>5 DEF ReadOver, HasKey
  <2>9. CASE s = "warehouses" /\ t = "analytics"
    <3>1. Over' = {"warehouses"}
      BY <2>3, <2>9 DEF Over
    <3>2. QED
      BY <2>6, <2>9, <3>1 DEF DoneInv
  <2>10. CASE s = "analytics" /\ t = "costs"
    <3>1. Over' = {"warehouses", "analytics"} /\ "warehouses" \in Over /\ "warehouses" \in Stages
      BY <2>3, <2>10 DEF Over, Stages, Flat
    <3>2. ReadOver("warehouses")'
      BY <2>7, <2>10, <3>1
    <3>3. QED
      BY <2>6, <2>10, <3>1, <3>2 DEF DoneInv
  <2>11. CASE s = "analytics" /\ t = "stocks"
    <3>1. Over' = {"warehouses", "analytics", "costs"} /\ "warehouses" \in Over /\ "warehouses" \in Stages
      BY <2>3, <2>11 DEF Over, Stages, Flat
    <3>2. ReadOver("warehouses")'
      BY <2>7, <2>11, <3>1
    <3>3. QED
      BY <2>6, <2>8, <2>11, <3>1, <3>2 DEF DoneInv
  <2>12. CASE s = "costs" /\ t = "stocks"
    <3>1. /\ Over' = {"warehouses", "analytics", "costs"} /\ {"warehouses", "analytics"} \subseteq Over
          /\ {"warehouses", "analytics"} \subseteq Stages
      BY <2>3, <2>12 DEF Over, Stages, Flat
    <3>2. ReadOver("warehouses")' /\ ReadOver("analytics")'
      BY <2>7, <2>12, <3>1
    <3>3. QED
      BY <2>6, <2>12, <3>1, <3>2 DEF DoneInv
  <2>13. CASE s = "stocks" /\ t = "suppliers"
    <3>1. /\ Over' = {"warehouses", "analytics", "costs", "stocks"}
          /\ {"warehouses", "analytics", "costs"} \subseteq Over
          /\ {"warehouses", "analytics", "costs"} \subseteq Stages
      BY <2>3, <2>13 DEF Over, Stages, Flat, Balance
    <3>2. ReadOver("warehouses")' /\ ReadOver("analytics")' /\ ReadOver("costs")'
      BY <2>7, <2>13, <3>1
    <3>3. QED
      BY <2>6, <2>13, <3>1, <3>2 DEF DoneInv
  <2>14. QED
    BY <2>2, <2>9, <2>10, <2>11, <2>12, <2>13
<1>6. CASE JoinSuppliers
  <2>1. Reading("suppliers") /\ stage = "suppliers" /\ pulled' = [pulled EXCEPT !["suppliers"] = out] /\ stage' = "answered"
    BY <1>6 DEF JoinSuppliers, Reading, Result
  <2>2. "suppliers" \in Stages /\ "analytics" \in Stages
    BY DEF Stages, Flat
  <2>3. \A u \in Stages : pulled'[u] = IF u = "suppliers" THEN out ELSE pulled[u]
    BY <1>4, <2>1
  <2>4. ReadOver("suppliers")'
    <3>1. pulled'["suppliers"] = out
      BY <2>2, <2>3
    <3>2. QED
      BY <1>1, <2>1, <2>2, <3>1, JustOver
  <2>5. ASSUME NEW u \in Stages, u # "suppliers" PROVE ReadOver(u)'
    <3>1. pulled'[u] = pulled[u] /\ pulled'["analytics"] = pulled["analytics"]
      BY <2>2, <2>3, <2>5
    <3>2. u \in Over
      BY <2>1, <2>5 DEF Over, Stages, Flat, Balance
    <3>3. ReadOver(u)
      BY <1>2, <3>2
    <3>4. QED
      BY <1>1, <1>3, <3>1, <3>3, StaysOver
  <2>6. Over' = Stages
    BY <2>1 DEF Over
  <2>7. QED
    BY <2>4, <2>5, <2>6 DEF DoneInv
<1>7. CASE JoinThrown
  <2>1. Over' = {}
    BY <1>7 DEF JoinThrown, Over
  <2>2. QED
    BY <2>1 DEF DoneInv
<1>8. QED
  BY <1>5, <1>6, <1>7

LEMMA DoneThread ==
    ASSUME Safe, DoneInv, NEW r \in Threads, Step(r)
    PROVE  DoneInv'
<1>1. UNCHANGED <<stage, skus, pulled, book, changes>>
  BY StepIs DEF Safe, Ground
<1>2. SUFFICES ASSUME changes = 0, NEW u \in Over PROVE ReadOver(u)'
  BY <1>1 DEF DoneInv, Over
<1>3. u \in Stages
  BY <1>2 DEF Over, Stages, Flat, Balance
<1>4. ReadOver(u)
  BY <1>2 DEF DoneInv
<1>5. \A x : GivenUp(u, x) => GivenUp(u, x)'
  BY <1>3, LostGrows DEF Safe
<1>6. QED
  BY <1>1, <1>3, <1>4, <1>5, StaysOver

---------------------------------------------------------------------------
(* Why a key is given up.                                                  *)

LEMMA Explains ==
    ASSUME TypeInv, stage \in Stages, Explained, NEW part, NEW why \in Reasons,
           lost' = Missing(part, why), faults' >= faults, odd' >= odd, faults' \in Nat, odd' \in Nat,
           why = "retries" => faults' >= MaxRetries, why = "odd" => odd' > 0,
           why = "url" => stage \in Flat, why = "top" => stage \in Balance
    PROVE  Explained'
<1>1. \A s \in Stages : lost'[s] = IF s = stage THEN lost[s] \cup {<<part[i], why>> : i \in DOMAIN part}
                                   ELSE lost[s]
  BY DEF TypeInv, Missing
<1>2. ASSUME NEW s \in Stages, NEW x \in lost'[s]
      PROVE  /\ x[2] = "retries" => faults' >= MaxRetries
             /\ x[2] = "odd" => odd' > 0
             /\ x[2] = "url" => s \in Flat
             /\ x[2] = "top" => s \in Balance
  <2>1. CASE x \in lost[s]
    <3>1. /\ x[2] = "retries" => faults >= MaxRetries
          /\ x[2] = "odd" => odd > 0
          /\ x[2] = "url" => s \in Flat
          /\ x[2] = "top" => s \in Balance
      BY <2>1 DEF Explained
    <3>2. faults \in Nat /\ odd \in Nat /\ MaxRetries \in Nat
      BY ReadAssumption DEF TypeInv
    <3>3. faults >= MaxRetries => faults' >= MaxRetries
      BY <3>2
    <3>4. odd > 0 => odd' > 0
      BY <3>2
    <3>5. QED
      BY <3>1, <3>3, <3>4
  <2>2. CASE x \notin lost[s]
    <3>1. s = stage /\ x \in {<<part[i], why>> : i \in DOMAIN part}
      BY <1>1, <1>2, <2>2
    <3>2. x[2] = why
      BY <3>1
    <3>3. QED
      BY <3>1, <3>2
  <2>3. QED
    BY <2>1, <2>2
<1>3. QED
  BY <1>2 DEF Explained

LEMMA WhyThread ==
    ASSUME Ground, Explained, NEW r \in Threads, Step(r)
    PROVE  Explained'
<1> DEFINE q == reader[r]
           h == Head(q.parts)
<1>1. /\ stage \in Stages /\ faults \in Nat /\ odd \in Nat /\ faults' \in Nat /\ odd' \in Nat
      /\ faults' >= faults /\ odd' >= odd
  <2>1. /\ stage \in Stages /\ faults' \in {faults, faults + 1} /\ odd' \in {odd, odd + 1}
    BY StepIs DEF Ground
  <2>2. faults \in Nat /\ odd \in Nat
    BY ReadAssumption DEF Ground, TypeInv
  <2>3. QED
    BY <2>1, <2>2
<1>2. CASE lost' = lost
  <2>1. MaxRetries \in Nat
    BY ReadAssumption
  <2>2. faults >= MaxRetries => faults' >= MaxRetries
    BY <1>1, <2>1
  <2>3. odd > 0 => odd' > 0
    BY <1>1
  <2>4. QED
    BY <1>2, <2>2, <2>3 DEF Explained
<1>3. CASE Receive(r)
  <2>1. PICK found : lost' = IF stage \in Balance /\ Len(found) > BalanceTop THEN Missing(h, "top") ELSE lost
    BY <1>3 DEF Receive
  <2>2. CASE stage \in Balance /\ lost' = Missing(h, "top")
    <3>1. "top" \in Reasons
      BY DEF Reasons
    <3>2. QED
      BY <1>1, <2>2, <3>1, Explains DEF Ground
  <2>3. QED
    BY <1>2, <2>1, <2>2
<1>4. CASE Fail(r)
  <2>1. CASE q.attempt < MaxRetries
    BY <1>2, <1>4, <2>1 DEF Fail
  <2>2. CASE ~(q.attempt < MaxRetries)
    <3>1. lost' = Missing(h, "retries") /\ faults' = faults + 1
      BY <1>4, <2>2 DEF Fail, GiveUp
    <3>2. q.attempt \in 1 .. MaxRetries /\ q.attempt <= faults + 1 /\ MaxRetries \in Nat
      BY ReadAssumption DEF Ground, TypeInv, Readers, ShapeInv, Shaped
    <3>3. faults' >= MaxRetries
      BY <1>1, <2>2, <3>1, <3>2
    <3>4. "retries" \in Reasons
      BY DEF Reasons
    <3>5. QED
      BY <1>1, <3>1, <3>3, <3>4, Explains DEF Ground
  <2>3. QED
    BY <2>1, <2>2
<1>5. CASE UrlTooLong(r)
  <2>1. CASE stage \in Balance /\ Len(h) > 1
    BY <1>2, <1>5, <2>1 DEF UrlTooLong
  <2>2. CASE ~(stage \in Balance /\ Len(h) > 1)
    <3>1. lost' = Missing(h, "url") /\ TooLong(r) /\ q.at = "read"
      BY <1>5, <2>2 DEF UrlTooLong, GiveUp
    <3>2. Len(h) > limit /\ Len(h) \in Nat
      <4>1. q.parts # <<>> /\ q.parts \in Seq(Seq(KeySet))
        BY <3>1, InHand DEF Ground
      <4>2. h \in Seq(KeySet)
        BY <4>1, HeadTailProperties
      <4>3. QED
        BY <3>1, <4>2 DEF TooLong
    <3>3. limit \in Nat \ {0}
      BY ReadAssumption DEF Ground, TypeInv
    <3>4. Len(h) > 1
      BY <3>2, <3>3
    <3>5. stage \in Flat /\ "url" \in Reasons
      BY <1>1, <2>2, <3>4 DEF Stages, Reasons
    <3>6. QED
      BY <1>1, <3>1, <3>5, Explains DEF Ground
  <2>3. QED
    BY <2>1, <2>2
<1>6. CASE AnswerOdd(r)
  <2>1. odd' = odd + 1 /\ (lost' = Missing(h, "odd") \/ lost' = lost)
    BY <1>6 DEF AnswerOdd, GiveUp
  <2>2. CASE lost' = Missing(h, "odd")
    <3>1. odd' > 0 /\ "odd" \in Reasons
      BY <1>1, <2>1 DEF Reasons
    <3>2. QED
      BY <1>1, <2>2, <3>1, Explains DEF Ground
  <2>3. QED
    BY <1>2, <2>1, <2>2
<1>7. CASE Take(r) \/ Push(r)
  BY <1>2, <1>7 DEF Take, Push
<1>8. QED
  BY <1>3, <1>4, <1>5, <1>6, <1>7 DEF Step

---------------------------------------------------------------------------
(* What a preview shows of costs that are not there.                       *)

LEMMA StocksFinite ==
    ASSUME TypeInv
    PROVE  IsFiniteSet(Rows("stocks", pulled))
<1> DEFINE rows == pulled["stocks"]
           said == {rows[i].val : i \in DOMAIN rows}
           f == [i \in DOMAIN rows |-> rows[i].val]
<1>1. rows \in Seq(Entries("stocks"))
  BY DEF TypeInv, Stages, Balance
<1>2. IsFiniteSet(DOMAIN rows)
  <2>1. DOMAIN rows = 1 .. Len(rows) /\ Len(rows) \in Nat
    BY <1>1
  <2>2. QED
    BY <2>1, FS_Interval
<1> HIDE DEF rows
<1>3. f \in Surjection(DOMAIN rows, said)
  BY DEF Surjection
<1>4. IsFiniteSet(said)
  BY <1>2, <1>3, FS_Surjection
<1>5. QED
  BY <1>4 DEF Rows, rows

LEMMA StockSkusFinite ==
    ASSUME NEW all, IsFiniteSet(all.stocks)
    PROVE  IsFiniteSet(StockSkus(PullToSnapshot(all, {})))
<1> DEFINE kept == {s \in all.stocks : IsAllowed({}, s.warehouse)}
           skuses == {s.sku : s \in kept}
           f == [s \in kept |-> s.sku]
           rows == PullToSnapshot(all, {})
<1>1. IsFiniteSet(kept)
  BY FS_Subset
<1>2. f \in Surjection(kept, skuses)
  BY DEF Surjection
<1>3. IsFiniteSet(skuses)
  BY <1>1, <1>2, FS_Surjection
<1>4. \A x \in StockSkus(rows) : x \in skuses
  <2>1. rows.stocks = SnapshotStocks(all, {})
    BY DEF PullToSnapshot
  <2> DEFINE K == {<<s.sku, s.warehouse>> : s \in kept}
             Sum(k) == Pieces({s \in kept : <<s.sku, s.warehouse>> = k})
  <2>4. SnapshotStocks(all, {}) = {Row(k, Sum(k)) : k \in K}
    BY DEF SnapshotStocks
  <2> HIDE DEF Sum, K
  <2>5. \A x \in {Row(k, Sum(k)) : k \in K} : x.key \in K
    BY DEF Row
  <2>2. \A k \in KeysOf(rows.stocks) : \E s \in kept : k = <<s.sku, s.warehouse>>
    <3>1. \A k \in KeysOf(rows.stocks) : k \in K
      BY <2>1, <2>4, <2>5 DEF KeysOf
    <3>2. QED
      BY <3>1 DEF K
  <2>3. QED
    BY <2>2 DEF StockSkus
<1>5. QED
  BY <1>3, <1>4, FS_Subset

LEMMA CostedAre ==
    ASSUME NEW all
    PROVE  CostSkus(PullToSnapshot(all, {})) \subseteq CostedSkus(all)
<1> DEFINE rows == PullToSnapshot(all, {})
<1>1. rows.batch_cost = BatchCosts(all) /\ rows.supplier_cost = SupplierCosts(all)
  BY DEF PullToSnapshot
<1> HIDE DEF rows
<1>2. \A x \in BatchCosts(all) : x.key \in CostedSkus(all)
  BY DEF BatchCosts, Row
<1>3. \A x \in SupplierCosts(all) : x.key \in CostedSkus(all)
  BY DEF SupplierCosts, Row
<1>4. CostSkus(rows) \subseteq CostedSkus(all)
  BY <1>1, <1>2, <1>3 DEF CostSkus, KeysOf
<1>5. QED
  BY <1>4 DEF rows

LEMMA ShownIs ==
    ASSUME TypeInv, answer = BuildPreview(PullToSnapshot(PulledRows(pulled), {}))
    PROVE  Shown
<1> DEFINE all == PulledRows(pulled)
           rows == PullToSnapshot(all, {})
           stocked == StockSkus(rows)
           costed == CostSkus(rows)
           bare == stocked \ CostedSkus(all)
<1>1. answer.warnings = Warnings(rows)
  BY DEF BuildPreview
<1>2. IsFiniteSet(stocked)
  <2>1. all.stocks = Rows("stocks", pulled)
    BY DEF PulledRows
  <2>2. QED
    BY <2>1, StocksFinite, StockSkusFinite
<1>3. bare \subseteq stocked \ costed
  BY CostedAre
<1> HIDE DEF all, rows
<1>4. /\ stocked \ costed # {} => [what |-> "no_cost", count |-> Cardinality(stocked \ costed)] \in Warnings(rows)
      /\ costed \ stocked # {} => [what |-> "no_stock", count |-> Cardinality(costed \ stocked)] \in Warnings(rows)
      /\ stocked = {} /\ costed = {} => [what |-> "empty", count |-> 0] \in Warnings(rows)
  BY DEF Warnings
<1>5. Cardinality(stocked \ costed) >= Cardinality(bare)
  <2>1. IsFiniteSet(stocked \ costed)
    BY <1>2, FS_Subset
  <2> DEFINE big == stocked \ costed
  <2> HIDE DEF big, bare
  <2>2. IsFiniteSet(big) /\ bare \subseteq big
    BY <1>3, <2>1 DEF big
  <2>3. Cardinality(bare) <= Cardinality(big) /\ Cardinality(bare) \in Nat /\ Cardinality(big) \in Nat
    BY <2>2, FS_Subset, FS_CardinalityType
  <2>4. Cardinality(big) >= Cardinality(bare)
    BY <2>3
  <2>5. QED
    BY <2>4 DEF big
<1> HIDE DEF stocked, costed, bare
<1>6. bare # {} => \E w \in answer.warnings : w.what = "no_cost" /\ w.count >= Cardinality(bare)
  <2>1. SUFFICES ASSUME bare # {} PROVE \E w \in Warnings(rows) : w.what = "no_cost" /\ w.count >= Cardinality(bare)
    BY <1>1
  <2>2. stocked \ costed # {}
    BY <1>3, <2>1
  <2> DEFINE w == [what |-> "no_cost", count |-> Cardinality(stocked \ costed)]
  <2>3. w \in Warnings(rows) /\ w.what = "no_cost" /\ w.count >= Cardinality(bare)
    BY <1>4, <1>5, <2>2
  <2>4. QED
    BY <2>3
<1>7. stocked = {} => \E w \in answer.warnings : w.what \in {"empty", "no_stock"}
  <2>1. SUFFICES ASSUME stocked = {} PROVE \E w \in Warnings(rows) : w.what \in {"empty", "no_stock"}
    BY <1>1
  <2>2. CASE costed = {}
    BY <1>4, <2>1, <2>2
  <2>3. CASE costed # {}
    BY <1>4, <2>1, <2>3
  <2>4. QED
    BY <2>2, <2>3
<1>8. QED
  BY <1>6, <1>7 DEF Shown, all, rows, stocked, bare

---------------------------------------------------------------------------
(* The whole invariant.                                                    *)

Whole == Safe /\ CoverInv /\ DoneInv /\ Explained /\ AnswerInv

LEMMA WholeInit == Init => Whole
<1> SUFFICES ASSUME Init PROVE Whole
  OBVIOUS
<1>1. stage = "start" /\ lost = [s \in Stages |-> {}]
  BY DEF Init
<1>2. stage \notin Stages /\ Over = {}
  BY <1>1 DEF Stages, Flat, Balance, Over
<1>3. Explained
  BY <1>1 DEF Explained
<1>4. QED
  BY <1>1, <1>2, <1>3, SafeInit DEF Whole, CoverInv, DoneInv, AnswerInv

LEMMA WhyFrame ==
    ASSUME Explained, UNCHANGED <<lost, faults, odd>>
    PROVE  Explained'
BY DEF Explained

LEMMA WholeAsk == ASSUME Whole, Ask PROVE Whole'
<1>1. Safe'
  BY SafeAsk DEF Whole
<1>2. PICK ks \in Requests :
         IF ks = <<>> THEN stage' = "refused" ELSE StartRead("warehouses", AllKeys)
  BY DEF Ask
<1>3. stage' = "refused" \/ stage' = "warehouses"
  BY <1>2 DEF StartRead
<1>4. UNCHANGED <<lost, faults, odd>>
  BY DEF Ask
<1>5. CoverInv'
  <2>1. CASE ks = <<>>
    <3>1. stage' \notin Stages
      BY <1>2, <2>1 DEF Stages, Flat, Balance
    <3>2. QED
      BY <3>1 DEF CoverInv
  <2>2. CASE ks # <<>>
    <3>1. StartRead("warehouses", AllKeys) /\ "warehouses" \in Stages
      BY <1>2, <2>2 DEF Stages, Flat
    <3>2. AllKeys \in Seq(KeySet)
      BY DEF AllKeys, KeySet
    <3>3. faults' \in Nat
      BY <1>4, ReadAssumption DEF Whole, Safe, Ground, TypeInv
    <3>4. QED
      BY <3>1, <3>2, <3>3, CoverStarts
  <2>3. QED
    BY <2>1, <2>2
<1>6. DoneInv'
  <2>1. Over' = {}
    BY <1>3 DEF Over
  <2>2. QED
    BY <2>1 DEF DoneInv
<1>7. Explained'
  BY <1>4, WhyFrame DEF Whole
<1>8. AnswerInv'
  BY <1>3 DEF AnswerInv
<1>9. QED
  BY <1>1, <1>5, <1>6, <1>7, <1>8 DEF Whole

(* The preview is built of what was read, the prices of the suppliers too. *)
LEMMA AnswerJoin == ASSUME TypeInv, JoinSuppliers PROVE AnswerInv'
<1>1. stage = "suppliers" /\ pulled' = [pulled EXCEPT ![stage] = out]
  BY DEF JoinSuppliers, Reading, Result
<1>2. answer' = BuildPreview(PullToSnapshot(PulledRows([pulled EXCEPT !["suppliers"] = out]), {}))
  BY DEF JoinSuppliers
<1>3. pulled' = [pulled EXCEPT !["suppliers"] = out]
  BY <1>1
<1>4. answer' = BuildPreview(PullToSnapshot(PulledRows(pulled'), {}))
  BY <1>2, <1>3, Zenon
<1>5. PulledRows(pulled)' = PulledRows(pulled')
  BY DEF PulledRows, Rows
<1>6. QED
  BY <1>4, <1>5 DEF AnswerInv

LEMMA WholeJoin == ASSUME Whole, Join PROVE Whole'
<1>1. Safe'
  BY SafeJoin DEF Whole
<1>2. TypeInv /\ ShapeInv
  BY DEF Whole, Safe, Ground
<1>3. UNCHANGED <<lost, faults, odd>> /\ faults' \in Nat
  <2>1. UNCHANGED <<lost, faults, odd>>
    BY DEF Join, JoinWarehouses, JoinAnalytics, JoinCosts, JoinStocks, JoinSuppliers, JoinThrown, JoinFrame
  <2>2. QED
    BY <1>2, <2>1, ReadAssumption DEF TypeInv
<1>4. Explained'
  BY <1>3, WhyFrame DEF Whole
<1>5. DoneInv'
  BY DoneJoin DEF Whole
<1>6. CASE ~JoinSuppliers /\ ~JoinThrown
  <2>1. PICK t \in Stages, ks \in Seq(KeySet) : StartRead(t, ks)
    BY <1>2, <1>6, JoinIs
  <2>2. CoverInv'
    BY <1>3, <2>1, CoverStarts
  <2>3. stage' # "answered"
    BY <2>1 DEF StartRead, Stages, Flat, Balance
  <2>4. QED
    BY <1>1, <1>4, <1>5, <2>2, <2>3 DEF Whole, AnswerInv
<1>7. CASE JoinSuppliers
  <2>1. stage' \notin Stages
    BY <1>7 DEF JoinSuppliers, Stages, Flat, Balance
  <2>2. QED
    BY <1>1, <1>2, <1>4, <1>5, <1>7, <2>1, AnswerJoin DEF Whole, CoverInv
<1>8. CASE JoinThrown
  <2>1. stage' = "thrown"
    BY <1>8 DEF JoinThrown
  <2>2. stage' \notin Stages /\ stage' # "answered"
    BY <2>1 DEF Stages, Flat, Balance
  <2>3. QED
    BY <1>1, <1>4, <1>5, <2>2 DEF Whole, CoverInv, AnswerInv
<1>9. QED
  BY <1>6, <1>7, <1>8

LEMMA WholeEdit == ASSUME Whole, OnecChanges PROVE Whole'
<1>1. Safe'
  BY SafeStep DEF Whole, Next
<1>2. stage \in Stages /\ UNCHANGED <<stage, lost, faults, odd>> /\ changes' # 0
  BY EditIs DEF Whole, Safe, Ground
<1>3. Explained'
  BY <1>2, WhyFrame DEF Whole
<1>4. stage' # "answered"
  BY <1>2 DEF Stages, Flat, Balance
<1>5. QED
  BY <1>1, <1>2, <1>3, <1>4 DEF Whole, CoverInv, DoneInv, AnswerInv

LEMMA WholeThread == ASSUME Whole, NEW r \in Threads, Step(r) PROVE Whole'
<1>1. Safe'
  <2>1. Next
    BY DEF Next, Threads
  <2>2. QED
    BY <2>1, SafeStep DEF Whole
<1>2. CoverInv' /\ DoneInv' /\ Explained'
  BY CoverThread, DoneThread, WhyThread DEF Whole, Safe
<1>3. stage \in Stages /\ stage' = stage
  BY StepIs DEF Whole, Safe, Ground
<1>4. stage' # "answered"
  BY <1>3 DEF Stages, Flat, Balance
<1>5. QED
  BY <1>1, <1>2, <1>4 DEF Whole, AnswerInv

LEMMA WholeIdle == ASSUME Whole, UNCHANGED vars PROVE Whole'
<1>1. Safe'
  BY SafeStep DEF Whole
<1>2. UNCHANGED <<stage, skus, keys, next, reader, out, pulled, answer, book, changes, faults, odd, lost>>
  BY DEF vars, onec
<1>3. CoverInv'
  <2>1. From(out)' <=> From(out)
    BY <1>2 DEF From
  <2>2. \A r \in Threads : From(reader[r].local)' <=> From(reader[r].local)
    BY <1>2 DEF From
  <2>3. \A x : Covered(x)' <=> Covered(x)
    <3>1. \A x : Pending(x)' <=> Pending(x)
      BY <1>2, PendingStays
    <3>2. \A part : Matching(part)' = Matching(part)
      BY <1>2 DEF Matching
    <3>3. \A x : \A r \in Threads : Held(reader[r], x)' <=> Held(reader[r], x)
      BY <1>2, <3>2 DEF Held, Ahead
    <3>4. \A x : GivenUp(stage, x)' <=> GivenUp(stage, x)
      BY <1>2 DEF GivenUp
    <3>5. \A x : IsIn(x, out)' <=> IsIn(x, out)
      BY <1>2 DEF IsIn
    <3>6. QED
      BY <3>1, <3>3, <3>4, <3>5 DEF Covered
  <2>4. ASSUME NEW k \in DOMAIN book[stage], Covered(book[stage][k]) PROVE Covered(book[stage][k])'
    <3>1. PICK row : row = book[stage][k]
      OBVIOUS
    <3>2. Covered(row)'
      BY <2>3, <2>4, <3>1
    <3>3. QED
      BY <1>2, <3>1, <3>2
  <2>5. QED
    BY <1>2, <2>1, <2>2, <2>4 DEF Whole, CoverInv, HasKey
<1>4. DoneInv'
  <2>1. ASSUME changes = 0, NEW u \in Over PROVE ReadOver(u)'
    <3>1. u \in Stages /\ ReadOver(u)
      BY <2>1 DEF Whole, DoneInv, Over, Stages, Flat, Balance
    <3>2. \A x : GivenUp(u, x) => GivenUp(u, x)'
      BY <1>2 DEF GivenUp
    <3>3. QED
      BY <1>2, <3>1, <3>2, StaysOver
  <2>2. QED
    BY <1>2, <2>1 DEF DoneInv, Over
<1>5. Explained'
  BY <1>2, WhyFrame DEF Whole
<1>6. AnswerInv'
  BY <1>2 DEF Whole, AnswerInv, PulledRows, Rows
<1>7. QED
  BY <1>1, <1>3, <1>4, <1>5, <1>6 DEF Whole

LEMMA WholeStep == Whole /\ [Next]_vars => Whole'
<1> SUFFICES ASSUME Whole, [Next]_vars PROVE Whole'
  OBVIOUS
<1>1. CASE \E r \in Workers \cup {Main} : Step(r)
  BY <1>1, WholeThread DEF Threads
<1>2. QED
  BY <1>1, WholeAsk, WholeJoin, WholeEdit, WholeIdle DEF Next

(* Of an answered request, while 1C is left alone, every row that was      *)
(* asked for was read, or its key was given up for a reason the code       *)
(* knows; and whatever is edited, a SKU with stocks and without costs is   *)
(* counted in a warning.                                                   *)
THEOREM Ka2LossIsExplained == Spec => []LossIsExplained
<1>1. Init => Whole
  BY WholeInit
<1>2. Whole => LossIsExplained
  <2>1. SUFFICES ASSUME Whole, stage = "answered" PROVE Shown /\ (changes = 0 => AllRead /\ Explained)
    BY DEF LossIsExplained
  <2>2. Shown
    BY <2>1, ShownIs DEF Whole, Safe, Ground, AnswerInv
  <2>3. ASSUME changes = 0 PROVE AllRead
    <3>1. \A s \in Stages : ReadOver(s)
      BY <2>1, <2>3 DEF Whole, DoneInv, Over
    <3>2. ASSUME NEW s \in Stages, NEW i \in DOMAIN book[s],
                 book[s][i].good, HasKey(KeysOfRead(s), book[s][i].key)
          PROVE  \/ \E why \in Reasons : <<book[s][i].key, why>> \in lost[s]
                 \/ book[s][i].val \in Rows(s, pulled)
      <4>1. GivenUp(s, book[s][i].key) \/ IsIn(book[s][i], pulled[s])
        BY <3>1, <3>2 DEF ReadOver
      <4>2. IsIn(book[s][i], pulled[s]) => book[s][i].val \in Rows(s, pulled)
        BY DEF IsIn, Rows
      <4>3. QED
        BY <4>1, <4>2 DEF GivenUp
    <3>3. QED
      BY <3>2 DEF AllRead
  <2>4. QED
    BY <2>1, <2>2, <2>3 DEF Whole
<1>3. QED
  BY <1>1, <1>2, WholeStep, PTL DEF Spec
=============================================================================
