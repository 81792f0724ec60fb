-------------------------- MODULE OeeHistoryProofs --------------------------
(***************************************************************************)
(* Proof that sample-by-sample counting computes what is defined over the  *)
(* whole history, for histories of any length with gaps anywhere in them.  *)
(***************************************************************************)
EXTENDS OeeHistory, SequenceTheorems, FiniteSetTheorems, TLAPS

Parts == Edges("B3")
GoodParts == {i \in Parts : \E j \in Samples : Finished(i, j) /\ Clean(i, j)}
BadParts == {i \in Parts : \E j \in Samples :
               Overtaken(i, j) \/ (Finished(i, j) /\ ~Clean(i, j))}

Entries == Images \cup {Gap}

\* The part that entered at sample i is still on the belt.
OnBelt(i) ==
  /\ i \in Parts
  /\ \A k \in i..Len(history) : k \notin Edges("B1") /\ (k > i => k \notin Parts)

\* The engine knows the last sample, and of the part on the belt what has
\* been seen of it.
Follows ==
  /\ history \in Seq(Entries)
  /\ baseline <=> history = << >> \/ history[Len(history)] = Gap
  /\ ~baseline => prev = history[Len(history)]
  /\ openCycle \in Latches \cup {None}
  /\ openCycle = None => \A i \in Parts : ~OnBelt(i)
  /\ openCycle /= None =>
       \E i \in Parts : /\ OnBelt(i)
                        /\ openCycle.b2 <=> SeenDuring("B2", i, Len(history))
                        /\ openCycle.b4 <=> SeenDuring("B4", i, Len(history))

Counted ==
  /\ total = Cardinality(Parts) /\ good = Cardinality(GoodParts)
  /\ bad = Cardinality(BadParts)

IInv == Follows /\ Counted
-----------------------------------------------------------------------------
\* What an entry s more adds to the samples that can be compared, to the
\* edges and to what was seen.
LEMMA OneMore ==
  ASSUME NEW e \in Entries, history \in Seq(Entries), history' = Append(history, e),
         NEW n, n = Len(history)
  PROVE  /\ n \in Nat /\ Len(history') = n + 1
         /\ Compared \subseteq 2..n /\ Compared' \subseteq Compared \cup {n + 1}
         /\ Compared \subseteq Compared'
         /\ n + 1 \in Compared' <=> n > 0 /\ e /= Gap /\ history[n] /= Gap
         /\ \A k \in 1..n : history'[k] = history[k]
         /\ history'[n + 1] = e
<1>1. n \in Nat
  BY LenProperties
<1>2. /\ Len(history') = n + 1 /\ history'[n + 1] = e
      /\ \A k \in 1..n : history'[k] = history[k]
  BY AppendProperties
<1>3. /\ Compared = {i \in 2..n : history[i] /= Gap /\ history[i - 1] /= Gap}
      /\ Compared' = {i \in 2..(n + 1) : history'[i] /= Gap /\ history'[i - 1] /= Gap}
  BY <1>2 DEF Compared
<1>4. \A i \in 2..n : history'[i] = history[i] /\ history'[i - 1] = history[i - 1]
  <2> SUFFICES ASSUME NEW i \in 2..n
               PROVE  history'[i] = history[i] /\ history'[i - 1] = history[i - 1]
    OBVIOUS
  <2>1. i \in 1..n /\ i - 1 \in 1..n
    BY <1>1
  <2> QED BY <1>2, <2>1
<1>5. Compared' \subseteq Compared \cup {n + 1} /\ Compared \subseteq Compared'
  <2>1. \A i \in 2..(n + 1) : i \in 2..n \/ i = n + 1
    BY <1>1
  <2>2. \A i \in 2..n : i \in 2..(n + 1)
    BY <1>1
  <2> QED BY <1>3, <1>4, <2>1, <2>2
<1>6. n + 1 \in Compared' <=> n > 0 /\ e /= Gap /\ history[n] /= Gap
  <2>1. n + 1 \in 2..(n + 1) <=> n > 0
    BY <1>1
  <2>2. (n + 1) - 1 = n /\ (n > 0 => n \in 1..n)
    BY <1>1
  <2> QED BY <1>2, <1>3, <2>1, <2>2
<1> QED BY <1>1, <1>2, <1>3, <1>5, <1>6

LEMMA EdgesGrow ==
  ASSUME NEW e \in Entries, history \in Seq(Entries), history' = Append(history, e),
         NEW n, n = Len(history), NEW tag
  PROVE  /\ Edges(tag) \subseteq 2..n /\ Edges(tag) \subseteq Edges(tag)'
         /\ Edges(tag)' \subseteq Edges(tag) \cup {n + 1}
         /\ n + 1 \in Edges(tag)' <=> /\ n + 1 \in Compared'
                                      /\ tag \in e /\ tag \notin history[n]
<1>1. /\ n \in Nat
      /\ Compared \subseteq 2..n /\ Compared' \subseteq Compared \cup {n + 1}
      /\ Compared \subseteq Compared'
      /\ \A k \in 1..n : history'[k] = history[k]
      /\ history'[n + 1] = e /\ (n + 1 \in Compared' => n > 0)
  BY OneMore
<1>2. \A i \in Compared : history'[i] = history[i] /\ history'[i - 1] = history[i - 1]
  <2> SUFFICES ASSUME NEW i \in Compared
               PROVE  history'[i] = history[i] /\ history'[i - 1] = history[i - 1]
    OBVIOUS
  <2>1. i \in 1..n /\ i - 1 \in 1..n
    BY <1>1
  <2> QED BY <1>1, <2>1
<1>3. n + 1 \in Compared' => history'[(n + 1) - 1] = history[n]
  <2>1. (n + 1) - 1 = n /\ (n > 0 => n \in 1..n)
    BY <1>1
  <2> QED BY <1>1, <2>1
<1>4. n + 1 \notin Compared
  BY <1>1
<1> QED BY <1>1, <1>2, <1>3, <1>4 DEF Edges

LEMMA SeenGrows ==
  ASSUME NEW e \in Entries, history \in Seq(Entries), history' = Append(history, e),
         NEW n, n = Len(history), NEW tag, NEW i \in 1..n
  PROVE  /\ \A j \in 1..n : SeenDuring(tag, i, j)' <=> SeenDuring(tag, i, j)
         /\ SeenDuring(tag, i, n + 1)'
              <=> SeenDuring(tag, i, n) \/ (n + 1 \in Compared' /\ tag \in e)
<1>1. /\ n \in Nat
      /\ Compared \subseteq 2..n /\ Compared' \subseteq Compared \cup {n + 1}
      /\ Compared \subseteq Compared'
      /\ \A k \in 1..n : history'[k] = history[k]
      /\ history'[n + 1] = e
  BY OneMore
<1>2. \A k \in Compared : k \in 1..n /\ history'[k] = history[k]
  BY <1>1
<1>3. \A j \in 1..n : n + 1 \notin i..j
  BY <1>1
<1>4. \A k \in Compared : k \in i..(n + 1) <=> k \in i..n
  BY <1>1, <1>2
<1>5. n + 1 \in i..(n + 1)
  BY <1>1
<1>6. \A j \in 1..n : SeenDuring(tag, i, j)' <=> SeenDuring(tag, i, j)
  BY <1>1, <1>2, <1>3 DEF SeenDuring
<1>7. SeenDuring(tag, i, n + 1)'
        <=> SeenDuring(tag, i, n) \/ (n + 1 \in Compared' /\ tag \in e)
  <2>1. SeenDuring(tag, i, n + 1)' <=> \E k \in Compared' : k \in i..(n + 1) /\ tag \in history'[k]
    BY DEF SeenDuring
  <2>2. SeenDuring(tag, i, n) <=> \E k \in Compared : k \in i..n /\ tag \in history[k]
    BY DEF SeenDuring
  <2> QED BY <1>1, <1>2, <1>4, <1>5, <2>1, <2>2
<1> QED BY <1>6, <1>7

LEMMA EdgesStay ==
  ASSUME NEW e \in Entries, history \in Seq(Entries), history' = Append(history, e),
         NEW n, n = Len(history), NEW k \in 1..n
  PROVE  /\ k \in Edges("B1")' <=> k \in Edges("B1")
         /\ k \in Edges("B3")' <=> k \in Edges("B3")
<1>1. /\ Edges("B1") \subseteq Edges("B1")' /\ Edges("B3") \subseteq Edges("B3")'
      /\ Edges("B1")' \subseteq Edges("B1") \cup {n + 1}
      /\ Edges("B3")' \subseteq Edges("B3") \cup {n + 1}
  BY EdgesGrow
<1>2. n \in Nat
  BY OneMore
<1>3. k /= n + 1
  BY <1>2
<1> QED BY <1>1, <1>3

\* What became of a part up to the last sample stays as it is.
LEMMA PastStays ==
  ASSUME NEW e \in Entries, history \in Seq(Entries), history' = Append(history, e),
         NEW n, n = Len(history), NEW i \in Parts, NEW j \in 1..n
  PROVE  /\ Overtaken(i, j)' <=> Overtaken(i, j)
         /\ Finished(i, j)' <=> Finished(i, j)
         /\ Clean(i, j)' <=> Clean(i, j)
<1>1. n \in Nat /\ i \in 1..n
  BY OneMore, EdgesGrow DEF Parts
<1>2. \A k \in 1..n : /\ k \in Edges("B1")' <=> k \in Edges("B1")
                      /\ k \in Edges("B3")' <=> k \in Edges("B3")
  BY EdgesStay
<1>3. \A k \in i..(j - 1) : k \in 1..n
  BY <1>1
<1>4. \A k \in (i + 1)..j : k \in 1..n
  BY <1>1
<1>5. Overtaken(i, j)' <=> Overtaken(i, j)
  BY <1>2, <1>3 DEF Overtaken
<1>6. Finished(i, j)' <=> Finished(i, j)
  BY <1>2, <1>3, <1>4 DEF Finished
<1>7. Clean(i, j)' <=> Clean(i, j)
  <2>1. SeenDuring("B2", i, j)' <=> SeenDuring("B2", i, j)
    BY <1>1, SeenGrows
  <2>2. SeenDuring("B4", i, j)' <=> SeenDuring("B4", i, j)
    BY <1>1, SeenGrows
  <2> QED BY <2>1, <2>2 DEF Clean
<1> QED BY <1>5, <1>6, <1>7

\* An entry overtakes or finishes only the part on the belt, or the part that
\* enters with it.
LEMMA EndsNow ==
  ASSUME NEW e \in Entries, history \in Seq(Entries), history' = Append(history, e),
         NEW n, n = Len(history), NEW i \in Parts
  PROVE  /\ Overtaken(i, n + 1)' <=> n + 1 \in Parts' /\ OnBelt(i)
         /\ Finished(i, n + 1)' <=> /\ n + 1 \in Edges("B1")' /\ n + 1 \notin Parts'
                                    /\ OnBelt(i)
         /\ OnBelt(i)' <=> /\ n + 1 \notin Edges("B1")' /\ n + 1 \notin Parts'
                           /\ OnBelt(i)
<1>1. n \in Nat /\ i \in 1..n /\ Len(history') = n + 1
  BY OneMore, EdgesGrow DEF Parts
<1>2. \A k \in 1..n : /\ k \in Edges("B1")' <=> k \in Edges("B1")
                      /\ k \in Parts' <=> k \in Parts
  BY EdgesStay DEF Parts
<1>3. /\ \A k \in i..n : k \in 1..n
      /\ \A k : k \in i..(n + 1) <=> k \in i..n \/ k = n + 1
      /\ \A k : k \in (i + 1)..(n + 1) <=> (k \in i..n /\ k > i) \/ k = n + 1
      /\ n + 1 > i /\ n + 1 >= i /\ (n + 1) - 1 = n
  BY <1>1
<1>4. i \in Parts'
  BY <1>1, <1>2
<1>5. Overtaken(i, n + 1)' <=>
        /\ n + 1 \in Parts'
        /\ \A k \in i..n : k \notin Edges("B1")' /\ (k > i => k \notin Parts')
  BY <1>3 DEF Overtaken, Parts
<1>6. Finished(i, n + 1)' <=>
        /\ n + 1 \in Edges("B1")'
        /\ \A k \in i..n : k \notin Edges("B1")'
        /\ \A k \in (i + 1)..(n + 1) : k \notin Parts'
  BY <1>3 DEF Finished, Parts
<1>7. OnBelt(i)' <=> \A k \in i..(n + 1) : k \notin Edges("B1")' /\ (k > i => k \notin Parts')
  BY <1>1, <1>4 DEF OnBelt
<1>8. OnBelt(i) <=> \A k \in i..n : k \notin Edges("B1") /\ (k > i => k \notin Parts)
  BY DEF OnBelt
<1> QED BY <1>2, <1>3, <1>5, <1>6, <1>7, <1>8

\* A part that enters with the entry is on the belt unless it finishes at once.
LEMMA EntersNow ==
  ASSUME NEW e \in Entries, history \in Seq(Entries), history' = Append(history, e),
         NEW n, n = Len(history), n + 1 \in Parts'
  PROVE  /\ \A j \in 1..(n + 1) : ~Overtaken(n + 1, j)'
         /\ \A j \in 1..n : ~Finished(n + 1, j)'
         /\ Finished(n + 1, n + 1)' <=> n + 1 \in Edges("B1")'
         /\ OnBelt(n + 1)' <=> n + 1 \notin Edges("B1")'
         /\ \A tag : SeenDuring(tag, n + 1, n + 1)' <=> tag \in e
<1>1. n \in Nat /\ Len(history') = n + 1 /\ history'[n + 1] = e
  BY OneMore
<1>2. n + 1 \in Compared'
  BY EdgesGrow DEF Parts
<1>3. /\ (n + 1)..((n + 1) - 1) = {} /\ ((n + 1) + 1)..(n + 1) = {}
      /\ (n + 1)..(n + 1) = {n + 1}
      /\ \A j \in 1..(n + 1) : ~(j > n + 1)
      /\ \A j \in 1..n : ~(j >= n + 1)
      /\ n + 1 >= n + 1 /\ ~(n + 1 > n + 1)
  BY <1>1
<1>4. \A j \in 1..(n + 1) : ~Overtaken(n + 1, j)'
  BY <1>3 DEF Overtaken
<1>5. \A j \in 1..n : ~Finished(n + 1, j)'
  BY <1>3 DEF Finished
<1>6. Finished(n + 1, n + 1)' <=> n + 1 \in Edges("B1")'
  BY <1>3 DEF Finished
<1>7. OnBelt(n + 1)' <=> n + 1 \notin Edges("B1")'
  BY <1>1, <1>3 DEF OnBelt
<1>8. \A tag : SeenDuring(tag, n + 1, n + 1)' <=> tag \in e
  BY <1>1, <1>2, <1>3 DEF SeenDuring
<1> QED BY <1>4, <1>5, <1>6, <1>7, <1>8

\* The parts that this entry makes good, or bad, are added to those that were.
LEMMA BooksGrow ==
  ASSUME NEW e \in Entries, history \in Seq(Entries), history' = Append(history, e),
         NEW n, n = Len(history)
  PROVE  /\ Parts' = Parts \cup {i \in {n + 1} : i \in Parts'}
         /\ GoodParts' = GoodParts \cup
              {i \in Parts' : Finished(i, n + 1)' /\ Clean(i, n + 1)'}
         /\ BadParts' = BadParts \cup
              {i \in Parts' : \/ Overtaken(i, n + 1)'
                              \/ Finished(i, n + 1)' /\ ~Clean(i, n + 1)'}
<1>1. n \in Nat /\ Len(history') = n + 1
  BY OneMore
<1>2. /\ Parts \subseteq 2..n /\ Parts \subseteq Parts'
      /\ Parts' \subseteq Parts \cup {n + 1}
  BY EdgesGrow DEF Parts
<1>3. Samples = 1..n /\ Samples' = 1..(n + 1)
  BY <1>1 DEF Samples
<1>4. \A j : j \in 1..(n + 1) <=> j \in 1..n \/ j = n + 1
  BY <1>1
<1>5. \A i \in Parts, j \in 1..n : /\ Overtaken(i, j)' <=> Overtaken(i, j)
                                   /\ Finished(i, j)' <=> Finished(i, j)
                                   /\ Clean(i, j)' <=> Clean(i, j)
  BY PastStays
<1>6. n + 1 \in Parts' => \A j \in 1..n : ~Overtaken(n + 1, j)' /\ ~Finished(n + 1, j)'
  BY <1>4, EntersNow
<1>7. ASSUME NEW i
      PROVE  i \in GoodParts' <=>
               \/ i \in GoodParts
               \/ i \in Parts' /\ Finished(i, n + 1)' /\ Clean(i, n + 1)'
  <2>1. i \in GoodParts' <=> /\ i \in Parts'
                             /\ \E j \in 1..(n + 1) : Finished(i, j)' /\ Clean(i, j)'
    BY <1>3 DEF GoodParts
  <2>2. i \in GoodParts <=> i \in Parts /\ \E j \in 1..n : Finished(i, j) /\ Clean(i, j)
    BY <1>3 DEF GoodParts
  <2>3. CASE i \in Parts
    BY <1>2, <1>4, <1>5, <2>1, <2>2, <2>3
  <2>4. CASE i \notin Parts
    <3>1. i \in Parts' => i = n + 1
      BY <1>2, <2>4
    <3> QED BY <1>4, <1>6, <2>1, <2>2, <2>4, <3>1
  <2> QED BY <2>3, <2>4
<1>8. ASSUME NEW i
      PROVE  i \in BadParts' <=>
               \/ i \in BadParts
               \/ /\ i \in Parts'
                  /\ Overtaken(i, n + 1)' \/ (Finished(i, n + 1)' /\ ~Clean(i, n + 1)')
  <2>1. i \in BadParts' <=>
          /\ i \in Parts'
          /\ \E j \in 1..(n + 1) : Overtaken(i, j)' \/ (Finished(i, j)' /\ ~Clean(i, j)')
    BY <1>3 DEF BadParts
  <2>2. i \in BadParts <=>
          /\ i \in Parts
          /\ \E j \in 1..n : Overtaken(i, j) \/ (Finished(i, j) /\ ~Clean(i, j))
    BY <1>3 DEF BadParts
  <2>3. CASE i \in Parts
    BY <1>2, <1>4, <1>5, <2>1, <2>2, <2>3
  <2>4. CASE i \notin Parts
    <3>1. i \in Parts' => i = n + 1
      BY <1>2, <2>4
    <3> QED BY <1>4, <1>6, <2>1, <2>2, <2>4, <3>1
  <2> QED BY <2>3, <2>4
<1>9. Parts' = Parts \cup {i \in {n + 1} : i \in Parts'}
  BY <1>2
<1> QED BY <1>7, <1>8, <1>9

\* There are finitely many parts, the one on the belt is the last, and it is
\* neither good nor bad yet.
LEMMA BeltIsOpen ==
  ASSUME history \in Seq(Entries)
  PROVE  /\ IsFiniteSet(Parts) /\ IsFiniteSet(GoodParts) /\ IsFiniteSet(BadParts)
         /\ \A i \in Parts : OnBelt(i) => i \notin GoodParts /\ i \notin BadParts
         /\ \A i, j \in Parts : OnBelt(i) /\ OnBelt(j) => i = j
<1> DEFINE n == Len(history)
<1>1. n \in Nat /\ Samples = 1..n
  BY LenProperties DEF Samples
<1>2. Parts \subseteq 2..n
  BY <1>1 DEF Parts, Edges, Compared
<1>3. IsFiniteSet(2..n)
  BY <1>1, FS_Interval
<1>4. IsFiniteSet(Parts) /\ IsFiniteSet(GoodParts) /\ IsFiniteSet(BadParts)
  BY <1>2, <1>3, FS_Subset DEF GoodParts, BadParts
<1>5. ASSUME NEW i \in Parts, OnBelt(i), NEW j \in Samples
      PROVE  ~Overtaken(i, j) /\ ~Finished(i, j)
  <2>1. i \in Nat /\ j \in Nat /\ j <= n
    BY <1>1, <1>2
  <2>2. j >= i => j \in i..n
    BY <1>1, <2>1
  <2>3. j > i => j >= i
    BY <2>1
  <2>4. \A k \in i..n : k \notin Edges("B1") /\ (k > i => k \notin Edges("B3"))
    BY <1>5 DEF OnBelt, Parts
  <2> HIDE DEF n
  <2> QED BY <2>2, <2>3, <2>4 DEF Overtaken, Finished
<1>6. ASSUME NEW i \in Parts, NEW j \in Parts, OnBelt(i), OnBelt(j) PROVE i = j
  <2>1. i \in Nat /\ j \in Nat /\ i <= n /\ j <= n
    BY <1>1, <1>2
  <2>2. ~(j > i)
    <3>1. j > i => j \in i..n
      BY <1>1, <2>1
    <3> QED BY <1>6, <3>1 DEF OnBelt
  <2>3. ~(i > j)
    <3>1. i > j => i \in j..n
      BY <1>1, <2>1
    <3> QED BY <1>6, <3>1 DEF OnBelt
  <2> QED BY <2>1, <2>2, <2>3
<1>7. \A i \in Parts : OnBelt(i) => i \notin GoodParts /\ i \notin BadParts
  BY <1>5 DEF GoodParts, BadParts
<1> QED BY <1>4, <1>6, <1>7
-----------------------------------------------------------------------------
\* An entry that cannot be compared changes neither the engine's counts nor
\* what the history defines.
LEMMA IdleStep ==
  ASSUME IInv, NEW e \in Entries, history' = Append(history, e),
         Len(history) + 1 \notin Compared', UNCHANGED counts,
         baseline' <=> e = Gap, ~baseline' => prev' = e
  PROVE  IInv'
<1>0. PICK n \in Nat : n = Len(history)
  BY LenProperties DEF IInv, Follows
<1>1. /\ history \in Seq(Entries) /\ history' \in Seq(Entries) /\ history' /= << >>
      /\ Len(history') = n + 1 /\ history'[n + 1] = e
  BY <1>0, AppendProperties DEF IInv, Follows
<1>2. n + 1 \notin Edges("B1")' /\ n + 1 \notin Parts' /\ Parts' = Parts
  <2>1. n + 1 \notin Compared'
    BY <1>0
  <2>2. n + 1 \notin Edges("B1")'
    BY <1>0, <1>1, <2>1, EdgesGrow
  <2>3. /\ n + 1 \notin Edges("B3")'
        /\ Edges("B3") \subseteq Edges("B3")'
        /\ Edges("B3")' \subseteq Edges("B3") \cup {n + 1}
    BY <1>0, <1>1, <2>1, EdgesGrow
  <2>4. Edges("B3")' = Edges("B3")
    BY <2>3
  <2> QED BY <2>2, <2>3, <2>4 DEF Parts
<1>3. \A i \in Parts : /\ ~Overtaken(i, n + 1)' /\ ~Finished(i, n + 1)'
                       /\ OnBelt(i)' <=> OnBelt(i)
  BY <1>0, <1>1, <1>2, EndsNow
<1>4. GoodParts' = GoodParts /\ BadParts' = BadParts
  <2>1. {i \in Parts' : Finished(i, n + 1)' /\ Clean(i, n + 1)'} = {}
    BY <1>2, <1>3
  <2>2. {i \in Parts' : \/ Overtaken(i, n + 1)'
                        \/ Finished(i, n + 1)' /\ ~Clean(i, n + 1)'} = {}
    BY <1>2, <1>3
  <2> QED BY <1>0, <1>1, <2>1, <2>2, BooksGrow
<1>5. Counted'
  BY <1>2, <1>4 DEF IInv, Counted, counts
<1>6. \A i \in Parts : /\ SeenDuring("B2", i, n + 1)' <=> SeenDuring("B2", i, n)
                       /\ SeenDuring("B4", i, n + 1)' <=> SeenDuring("B4", i, n)
  <2> SUFFICES ASSUME NEW i \in Parts
               PROVE  /\ SeenDuring("B2", i, n + 1)' <=> SeenDuring("B2", i, n)
                      /\ SeenDuring("B4", i, n + 1)' <=> SeenDuring("B4", i, n)
    OBVIOUS
  <2>1. i \in 1..n
    BY <1>0, <1>1, EdgesGrow DEF Parts
  <2> QED BY <1>0, <1>1, <2>1, SeenGrows
<1>7. openCycle' \in Latches \cup {None}
      /\ (openCycle' = None => \A i \in Parts' : ~OnBelt(i)')
  BY <1>2, <1>3 DEF IInv, Follows, counts
<1>8. ASSUME openCycle' /= None
      PROVE  \E i \in Parts' : /\ OnBelt(i)'
                               /\ openCycle'.b2 <=> SeenDuring("B2", i, n + 1)'
                               /\ openCycle'.b4 <=> SeenDuring("B4", i, n + 1)'
  <2>1. PICK i \in Parts : /\ OnBelt(i)
                           /\ openCycle.b2 <=> SeenDuring("B2", i, n)
                           /\ openCycle.b4 <=> SeenDuring("B4", i, n)
    BY <1>0, <1>8 DEF IInv, Follows, counts
  <2>2. openCycle' = openCycle
    BY DEF counts
  <2> QED BY <1>2, <1>3, <1>6, <2>1, <2>2
<1>9. Follows'
  <2>1. \A i : /\ SeenDuring("B2", i, Len(history))' <=> SeenDuring("B2", i, n + 1)'
               /\ SeenDuring("B4", i, Len(history))' <=> SeenDuring("B4", i, n + 1)'
    BY <1>1 DEF SeenDuring
  <2> QED BY <1>1, <1>7, <1>8, <2>1 DEF Follows
<1> QED BY <1>5, <1>9 DEF IInv

\* A set to which at most one new element is added.
LEMMA OneAdded ==
  ASSUME NEW S, IsFiniteSet(S), NEW x, NEW P, P => x \notin S
  PROVE  /\ IsFiniteSet(S \cup {i \in {x} : P})
         /\ Cardinality(S \cup {i \in {x} : P}) = Cardinality(S) + One(P)
<1>1. CASE P
  <2>1. S \cup {i \in {x} : P} = S \cup {x}
    BY <1>1
  <2>2. IsFiniteSet(S \cup {x}) /\ Cardinality(S \cup {x}) = Cardinality(S) + 1
    BY <1>1, FS_AddElement
  <2> QED BY <1>1, <2>1, <2>2 DEF One
<1>2. CASE ~P
  <2>1. S \cup {i \in {x} : P} = S
    BY <1>2
  <2>2. Cardinality(S) \in Nat
    BY FS_CardinalityType
  <2>3. One(P) = 0 /\ Cardinality(S) + 0 = Cardinality(S)
    BY <1>2, <2>2 DEF One
  <2> QED BY <2>1, <2>3
<1> QED BY <1>1, <1>2

\* What a sample ends: the part on the belt when another one enters, or the
\* open cycle's part f when the finish sensor rises.
LEMMA SampleEnds ==
  ASSUME IInv, NEW e \in Images, history' = Append(history, e), ~baseline,
         NEW n \in Nat, n = Len(history)
  PROVE  \E o, f :
           /\ Rising("B3", e) => f = n + 1 /\ n + 1 \notin Parts
           /\ ~Rising("B3", e) => f = o
           /\ openCycle /= None => /\ o \in Parts /\ o /= n + 1
                                   /\ o \notin GoodParts /\ o \notin BadParts
           /\ Rising("B3", e) <=> n + 1 \in Parts'
           /\ \A i \in Parts' :
                /\ Overtaken(i, n + 1)' <=> Rising("B3", e) /\ openCycle /= None /\ i = o
                /\ Finished(i, n + 1)' <=> /\ Rising("B3", e) \/ openCycle /= None
                                           /\ Rising("B1", e) /\ i = f
                /\ OnBelt(i)' <=> /\ Rising("B3", e) \/ openCycle /= None
                                  /\ ~Rising("B1", e) /\ i = f
           /\ Rising("B3", e) \/ openCycle /= None =>
                /\ f \in Parts'
                /\ SeenDuring("B2", f, n + 1)' <=>
                     (~Rising("B3", e) /\ openCycle.b2) \/ "B2" \in e
                /\ SeenDuring("B4", f, n + 1)' <=>
                     (~Rising("B3", e) /\ openCycle.b4) \/ "B4" \in e
<1>1. /\ history \in Seq(Entries) /\ e \in Entries /\ e /= Gap
      /\ n > 0 /\ history[n] /= Gap /\ prev = history[n]
  <2>1. history \in Seq(Entries) /\ history /= << >> /\ history[n] /= Gap /\ prev = history[n]
    BY DEF IInv, Follows
  <2>2. n /= 0
    BY <2>1, EmptySeq
  <2> QED BY <2>1, <2>2, GapAssumption DEF Entries
<1>2. n + 1 \in Compared'
  BY <1>1, OneMore
<1>3. /\ n + 1 \in Parts' <=> Rising("B3", e)
      /\ Parts \subseteq 2..n /\ Parts \subseteq Parts' /\ Parts' \subseteq Parts \cup {n + 1}
  BY <1>1, <1>2, EdgesGrow DEF Parts, Rising
<1>4. n + 1 \in Edges("B1")' <=> Rising("B1", e)
  BY <1>1, <1>2, EdgesGrow DEF Rising
<1>5. n + 1 \notin Parts
  BY <1>3
<1>6. PICK o : openCycle /= None => /\ o \in Parts /\ OnBelt(o)
                                    /\ openCycle.b2 <=> SeenDuring("B2", o, n)
                                    /\ openCycle.b4 <=> SeenDuring("B4", o, n)
  BY DEF IInv, Follows
<1>7. \A i \in Parts : OnBelt(i) <=> openCycle /= None /\ i = o
  BY <1>1, <1>6, BeltIsOpen DEF IInv, Follows
<1>8. openCycle /= None => o \notin GoodParts /\ o \notin BadParts
  BY <1>1, <1>6, BeltIsOpen
<1>9. PICK f : /\ Rising("B3", e) => f = n + 1
               /\ ~Rising("B3", e) => f = o
  OBVIOUS
<1>10. ASSUME NEW i \in Parts'
       PROVE  /\ Overtaken(i, n + 1)' <=> Rising("B3", e) /\ openCycle /= None /\ i = o
              /\ Finished(i, n + 1)' <=> /\ Rising("B3", e) \/ openCycle /= None
                                         /\ Rising("B1", e) /\ i = f
              /\ OnBelt(i)' <=> /\ Rising("B3", e) \/ openCycle /= None
                                /\ ~Rising("B1", e) /\ i = f
  <2>1. CASE i \in Parts
    <3>1. i /= n + 1
      BY <1>5, <2>1
    <3>2. /\ Overtaken(i, n + 1)' <=> Rising("B3", e) /\ OnBelt(i)
          /\ Finished(i, n + 1)' <=> Rising("B1", e) /\ ~Rising("B3", e) /\ OnBelt(i)
          /\ OnBelt(i)' <=> ~Rising("B1", e) /\ ~Rising("B3", e) /\ OnBelt(i)
      BY <1>1, <1>3, <1>4, <2>1, EndsNow
    <3> QED BY <1>7, <1>9, <2>1, <3>1, <3>2
  <2>2. CASE i \notin Parts
    <3>1. i = n + 1 /\ Rising("B3", e) /\ i = f
      BY <1>3, <1>9, <2>2
    <3>2. n + 1 \in 1..(n + 1)
      OBVIOUS
    <3>3. /\ ~Overtaken(n + 1, n + 1)'
          /\ Finished(n + 1, n + 1)' <=> Rising("B1", e)
          /\ OnBelt(n + 1)' <=> ~Rising("B1", e)
      BY <1>1, <1>3, <1>4, <3>1, <3>2, EntersNow
    <3>4. ~(openCycle /= None /\ i = o)
      BY <1>6, <2>2
    <3> QED BY <3>1, <3>3, <3>4
  <2> QED BY <2>1, <2>2
<1>11. ASSUME Rising("B3", e) \/ openCycle /= None
       PROVE  /\ f \in Parts'
              /\ SeenDuring("B2", f, n + 1)' <=>
                   (~Rising("B3", e) /\ openCycle.b2) \/ "B2" \in e
              /\ SeenDuring("B4", f, n + 1)' <=>
                   (~Rising("B3", e) /\ openCycle.b4) \/ "B4" \in e
  <2>1. CASE Rising("B3", e)
    <3>1. f = n + 1 /\ n + 1 \in Parts'
      BY <1>3, <1>9, <2>1
    <3>2. /\ SeenDuring("B2", n + 1, n + 1)' <=> "B2" \in e
          /\ SeenDuring("B4", n + 1, n + 1)' <=> "B4" \in e
      BY <1>1, <3>1, EntersNow
    <3> QED BY <2>1, <3>1, <3>2
  <2>2. CASE ~Rising("B3", e)
    <3>1. f = o /\ openCycle /= None
      BY <1>9, <1>11, <2>2
    <3>3. o \in Parts
      BY <1>6, <3>1
    <3>4. o \in 1..n /\ o \in Parts'
      BY <1>3, <3>3
    <3>2. /\ SeenDuring("B2", o, n + 1)' <=> SeenDuring("B2", o, n) \/ "B2" \in e
          /\ SeenDuring("B4", o, n + 1)' <=> SeenDuring("B4", o, n) \/ "B4" \in e
      BY <1>1, <1>2, <3>4, SeenGrows
    <3> QED BY <1>6, <2>2, <3>1, <3>2, <3>4
  <2> QED BY <2>1, <2>2
<1>12. openCycle /= None => o \in Parts /\ o /= n + 1
  BY <1>5, <1>6
<1>13. WITNESS o, f
<1> QED BY <1>3, <1>5, <1>8, <1>9, <1>10, <1>11, <1>12

\* A sample that can be compared: the engine counts what the history gains.
LEMMA SampleStep ==
  ASSUME IInv, NEW e \in Images, history' = Append(history, e), ~baseline,
         Count(e), ~baseline', prev' = e
  PROVE  IInv'
<1> DEFINE enters == Rising("B3", e)
           overtaken == enters /\ openCycle /= None
           open == enters \/ openCycle /= None
           finishes == open /\ Rising("B1", e)
           clean == Latched(e).b2 /\ ~Latched(e).b4
<1>1. PICK n \in Nat : n = Len(history)
  BY LenProperties DEF IInv, Follows
<1>2. /\ history \in Seq(Entries) /\ e \in Entries /\ e /= Gap
      /\ history' \in Seq(Entries) /\ history' /= << >>
      /\ Len(history') = n + 1 /\ history'[n + 1] = e
  BY <1>1, GapAssumption, AppendProperties DEF IInv, Follows, Entries
<1>3. PICK o, f :
        /\ enters => f = n + 1 /\ n + 1 \notin Parts
        /\ ~enters => f = o
        /\ openCycle /= None => /\ o \in Parts /\ o /= n + 1
                                /\ o \notin GoodParts /\ o \notin BadParts
        /\ enters <=> n + 1 \in Parts'
        /\ \A i \in Parts' :
             /\ Overtaken(i, n + 1)' <=> enters /\ openCycle /= None /\ i = o
             /\ Finished(i, n + 1)' <=> open /\ Rising("B1", e) /\ i = f
             /\ OnBelt(i)' <=> open /\ ~Rising("B1", e) /\ i = f
        /\ open => /\ f \in Parts'
                   /\ SeenDuring("B2", f, n + 1)' <=> (~enters /\ openCycle.b2) \/ "B2" \in e
                   /\ SeenDuring("B4", f, n + 1)' <=> (~enters /\ openCycle.b4) \/ "B4" \in e
  BY <1>1, SampleEnds
<1>4. /\ good' = good + One(finishes /\ clean)
      /\ bad' = bad + One(overtaken) + One(finishes /\ ~clean)
      /\ total' = total + One(enters)
      /\ openCycle' = IF open /\ ~finishes THEN Latched(e) ELSE None
  BY DEF Count
<1>5. open => /\ Latched(e) \in Latches
              /\ Latched(e).b2 <=> (~enters /\ openCycle.b2) \/ "B2" \in e
              /\ Latched(e).b4 <=> (~enters /\ openCycle.b4) \/ "B4" \in e
  <2>1. openCycle \in Latches \cup {None}
    BY DEF IInv, Follows
  <2>2. CASE enters
    BY <2>2 DEF Latched, Latches
  <2>3. CASE ~enters
    BY <2>1, <2>3 DEF Latched, Latches
  <2> QED BY <2>2, <2>3
<1>6. open => (Clean(f, n + 1)' <=> clean)
  BY <1>3, <1>5 DEF Clean
<1> HIDE DEF enters, overtaken, open, finishes, clean
<1>7. finishes => open
  BY DEF finishes
<1>8. \A i \in Parts' : /\ Overtaken(i, n + 1)' <=> overtaken /\ i = o
                        /\ Finished(i, n + 1)' <=> finishes /\ i = f
                        /\ OnBelt(i)' <=> open /\ ~finishes /\ i = f
  BY <1>3 DEF overtaken, finishes
<1>9. /\ overtaken => o \in Parts' /\ enters /\ openCycle /= None
      /\ finishes => f \in Parts'
  <2>1. Parts \subseteq Parts'
    BY <1>1, <1>2, EdgesGrow DEF Parts
  <2> QED BY <1>3, <1>7, <2>1 DEF overtaken
<1>10. total' = Cardinality(Parts')
  <2>1. Parts' = Parts \cup {i \in {n + 1} : enters}
    BY <1>1, <1>2, <1>3, BooksGrow
  <2>2. IsFiniteSet(Parts) /\ total = Cardinality(Parts)
    BY <1>2, BeltIsOpen DEF IInv, Counted
  <2> QED BY <1>3, <1>4, <2>1, <2>2, OneAdded
<1>11. good' = Cardinality(GoodParts')
  <2>1. GoodParts' = GoodParts \cup {i \in {f} : finishes /\ clean}
    <3>1. {i \in Parts' : Finished(i, n + 1)' /\ Clean(i, n + 1)'}
            = {i \in {f} : finishes /\ clean}
      BY <1>6, <1>7, <1>8, <1>9
    <3> QED BY <1>1, <1>2, <3>1, BooksGrow
  <2>2. IsFiniteSet(GoodParts) /\ good = Cardinality(GoodParts)
    BY <1>2, BeltIsOpen DEF IInv, Counted
  <2>3. finishes => f \notin GoodParts
    BY <1>3, <1>7 DEF open, GoodParts
  <2> QED BY <1>4, <2>1, <2>2, <2>3, OneAdded
<1>12. bad' = Cardinality(BadParts')
  <2> DEFINE B == BadParts \cup {i \in {o} : overtaken}
  <2>1. BadParts' = B \cup {i \in {f} : finishes /\ ~clean}
    <3>1. {i \in Parts' : \/ Overtaken(i, n + 1)'
                          \/ Finished(i, n + 1)' /\ ~Clean(i, n + 1)'}
            = {i \in {o} : overtaken} \cup {i \in {f} : finishes /\ ~clean}
      BY <1>6, <1>7, <1>8, <1>9
    <3> QED BY <1>1, <1>2, <3>1, BooksGrow
  <2>2. IsFiniteSet(BadParts) /\ bad = Cardinality(BadParts)
    BY <1>2, BeltIsOpen DEF IInv, Counted
  <2>3. IsFiniteSet(B) /\ Cardinality(B) = bad + One(overtaken)
    <3>1. overtaken => o \notin BadParts
      BY <1>3, <1>9
    <3>2. IsFiniteSet(B) /\ Cardinality(B) = Cardinality(BadParts) + One(overtaken)
      BY <2>2, <3>1, OneAdded
    <3> QED BY <2>2, <3>2
  <2>4. finishes => f \notin B
    BY <1>3, <1>7, <1>9 DEF open, BadParts
  <2> HIDE DEF B
  <2>5. Cardinality(B \cup {i \in {f} : finishes /\ ~clean})
          = Cardinality(B) + One(finishes /\ ~clean)
    BY <2>3, <2>4, OneAdded
  <2> QED BY <1>4, <2>1, <2>3, <2>5
<1>13. Follows'
  <2>1. openCycle' \in Latches \cup {None} /\ (openCycle' /= None <=> open /\ ~finishes)
    BY <1>4, <1>5, NoneAssumption DEF Latches
  <2>2. openCycle' = None => \A i \in Parts' : ~OnBelt(i)'
    BY <1>8, <2>1
  <2>3. ASSUME openCycle' /= None
        PROVE  /\ f \in Parts' /\ OnBelt(f)'
               /\ openCycle'.b2 <=> SeenDuring("B2", f, n + 1)'
               /\ openCycle'.b4 <=> SeenDuring("B4", f, n + 1)'
    <3>1. open /\ openCycle' = Latched(e) /\ f \in Parts'
      BY <1>3, <1>4, <2>1, <2>3
    <3> QED BY <1>3, <1>5, <1>8, <2>1, <2>3, <3>1
  <2>4. \A i : /\ SeenDuring("B2", i, Len(history))' <=> SeenDuring("B2", i, n + 1)'
               /\ SeenDuring("B4", i, Len(history))' <=> SeenDuring("B4", i, n + 1)'
    BY <1>2 DEF SeenDuring
  <2>5. /\ baseline' <=> history' = << >> \/ history'[Len(history')] = Gap
        /\ ~baseline' => prev' = history'[Len(history')]
    BY <1>2
  <2> QED BY <1>2, <2>1, <2>2, <2>3, <2>4, <2>5 DEF Follows
<1> QED BY <1>10, <1>11, <1>12, <1>13 DEF IInv, Counted

LEMMA InitIInv == HistoryInit => IInv
<1> SUFFICES ASSUME HistoryInit PROVE IInv
  OBVIOUS
<1>1. history = << >> /\ history \in Seq(Entries) /\ Len(history) = 0
  BY EmptySeq DEF HistoryInit
<1>2. Compared = {}
  <2>1. 2..0 = {}
    OBVIOUS
  <2> QED BY <1>1, <2>1 DEF Compared
<1>3. Parts = {} /\ GoodParts = {} /\ BadParts = {}
  BY <1>2 DEF Parts, GoodParts, BadParts, Edges
<1>4. Counted
  BY <1>3, FS_EmptySet DEF Counted, HistoryInit, EngineInit
<1>5. Follows
  BY <1>1, <1>3 DEF Follows, HistoryInit, EngineInit
<1> QED BY <1>4, <1>5 DEF IInv

LEMMA NextIInv == IInv /\ [HistoryNext]_historyVars => IInv'
<1> SUFFICES ASSUME IInv, [HistoryNext]_historyVars PROVE IInv'
  OBVIOUS
<1>1. history \in Seq(Entries) /\ Len(history) \in Nat
  BY LenProperties DEF IInv, Follows
<1>2. ASSUME NEW raw \in Images, NEW now \in Times, Rebaseline(raw, now), Fed(raw)
      PROVE  IInv'
  <2>1. raw \in Entries /\ raw /= Gap /\ history' = Append(history, raw)
    BY <1>2, GapAssumption DEF Entries, Fed
  <2>2. Len(history) + 1 \notin Compared'
    <3>1. history = << >> \/ history[Len(history)] = Gap
      BY <1>2 DEF IInv, Follows, Rebaseline
    <3>2. history = << >> => ~(Len(history) > 0)
      BY EmptySeq
    <3>3. Len(history) + 1 \in Compared' <=>
            Len(history) > 0 /\ raw /= Gap /\ history[Len(history)] /= Gap
      <4>1. PICK n \in Nat : n = Len(history)
        BY <1>1
      <4>2. n + 1 \in Compared' <=> n > 0 /\ raw /= Gap /\ history[n] /= Gap
        BY <1>1, <2>1, <4>1, OneMore
      <4> QED BY <4>1, <4>2
    <3> QED BY <3>1, <3>2, <3>3
  <2> QED BY <1>2, <2>1, <2>2, IdleStep DEF Rebaseline
<1>3. ASSUME NEW raw \in Images, NEW now \in Times, Sample(raw, now), Fed(raw)
      PROVE  IInv'
  BY <1>3, SampleStep DEF Sample, Fed
<1>4. ASSUME OnDisconnect, Fed(Gap)
      PROVE  IInv'
  <2>1. Gap \in Entries /\ history' = Append(history, Gap)
    BY <1>4 DEF Entries, Fed
  <2>2. Len(history) + 1 \notin Compared'
    <3>1. PICK n \in Nat : n = Len(history)
      BY <1>1
    <3>2. n + 1 \notin Compared'
      BY <1>1, <2>1, <3>1, OneMore
    <3> QED BY <3>1, <3>2
  <2> QED BY <1>4, <2>1, <2>2, IdleStep DEF OnDisconnect
<1>5. CASE UNCHANGED historyVars
  <2>1. /\ UNCHANGED <<history, baseline, prev, openCycle, total, good, bad>>
    BY <1>5 DEF historyVars, engineVars, counts
  <2>2. Parts' = Parts /\ Edges("B1")' = Edges("B1") /\ Compared' = Compared
    BY <2>1 DEF Parts, Edges, Compared
  <2>3. Follows'
    BY <2>1, <2>2 DEF IInv, Follows, OnBelt, SeenDuring
  <2>4. GoodParts' = GoodParts /\ BadParts' = BadParts
    BY <2>1, <2>2 DEF Parts, GoodParts, BadParts, Samples, Overtaken, Finished, Clean,
                      SeenDuring
  <2>5. Counted'
    BY <2>1, <2>2, <2>4 DEF IInv, Counted
  <2> QED BY <2>3, <2>5 DEF IInv
<1> QED BY <1>2, <1>3, <1>4, <1>5 DEF HistoryNext, OnSnapshot

\* What the engine counts sample by sample is what the history defines, for a
\* history of any length with failed polls anywhere in it: one cycle per B3
\* edge, good when B2 but not B4 was seen up to its B1 edge, bad when the next
\* part overtakes it or it finishes unclean (oee.py:89-116).
THEOREM CountsFollowHistory == HistorySpec => []CountsMatchHistory
<1>1. IInv => CountsMatchHistory
  BY DEF IInv, Counted, CountsMatchHistory, Parts, GoodParts, BadParts
<1> QED BY <1>1, InitIInv, NextIInv, PTL DEF HistorySpec
-----------------------------------------------------------------------------
\* No sample shows a part at the finish sensor and the next one entering.
NoMergedEdges == Edges("B1") \cap Edges("B3") = {}

\* oee-recording's "Clean part finishes" holds as long as no sample merges the
\* two edges (oee.py:94-116): the order in which one sample's edges are looked
\* at is all that can turn a clean part into a bad one.
THEOREM CleanPartsAreGood ==
  HistorySpec => [](NoMergedEdges => CleanPartIsGood)
<1> DEFINE Reached(i, j) ==
             /\ j \in Edges("B1") /\ j > i
             /\ \A k \in (i + 1)..(j - 1) : k \notin Edges("B1") \cup Edges("B3")
           CleanParts == {i \in Edges("B3") \ Edges("B1") :
                            \E j \in Samples : Reached(i, j) /\ Clean(i, j)}
<1>1. ASSUME IInv, NoMergedEdges PROVE CleanPartIsGood
  <2>1. Edges("B1") \subseteq Nat /\ Edges("B3") \subseteq Nat
    <3>1. Len(history) \in Nat
      BY <1>1, LenProperties DEF IInv, Follows
    <3>2. 2..Len(history) \subseteq Nat
      BY <3>1
    <3> QED BY <3>2 DEF Edges, Compared
  <2>2. ASSUME NEW i \in Edges("B3") \ Edges("B1"), NEW j \in Samples, Reached(i, j)
        PROVE  Finished(i, j)
    <3>1. i \in Nat /\ j \in Nat /\ j > i /\ j \in Edges("B1") /\ i \notin Edges("B1")
      BY <2>1, <2>2
    <3>2. j \notin Edges("B3")
      BY <1>1, <3>1 DEF NoMergedEdges
    <3>3. \A k \in i..(j - 1) : k = i \/ k \in (i + 1)..(j - 1)
      BY <3>1
    <3>4. \A k \in (i + 1)..j : k = j \/ k \in (i + 1)..(j - 1)
      BY <3>1
    <3>5. j >= i
      BY <3>1
    <3> QED BY <2>2, <3>1, <3>2, <3>3, <3>4, <3>5 DEF Finished
  <2>3. CleanParts \subseteq GoodParts
    BY <2>2 DEF GoodParts, Parts
  <2>4. IsFiniteSet(GoodParts) /\ good = Cardinality(GoodParts)
    BY <1>1, BeltIsOpen DEF IInv, Follows, Counted
  <2>5. Cardinality(CleanParts) <= good
    BY <2>3, <2>4, FS_Subset
  <2>6. good \in Nat /\ Cardinality(CleanParts) \in Nat
    BY <2>3, <2>4, FS_Subset, FS_CardinalityType
  <2>7. good >= Cardinality(CleanParts)
    BY <2>5, <2>6
  <2> QED BY <2>7 DEF CleanPartIsGood
<1> HIDE DEF Reached, CleanParts
<1> QED BY <1>1, InitIInv, NextIInv, PTL DEF HistorySpec
=============================================================================
