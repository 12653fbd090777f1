---------------------------- MODULE QueryProofs ----------------------------
(***************************************************************************)
(* Proofs about `trace', `run' and `thread' queries (RunQueries): what a   *)
(* listing or an export shows when it ends is what there was of it at some *)
(* time, however the pages it walked were cut and whatever began or was    *)
(* deleted between them, and so is what a lookup by id shows. And of       *)
(* conversations (TraceMessages, ThreadMessages): they are told in their   *)
(* order and none twice, wherever pages and streams of events are cut.     *)
(* Before them, the lemmas on sequences that these proofs and those of     *)
(* CommandProofs use.                                                      *)
(***************************************************************************)
EXTENDS RunQueries, ThreadMessages, WellFoundedInduction, SequenceTheorems, FiniteSetTheorems, TLAPS

-----------------------------------------------------------------------------
(* Numbers and sequences. Induction over data goes by the least place at   *)
(* which something fails.                                                  *)

\* Some number of a set is the least.
LEMMA LeastIsThere ==
  ASSUME NEW T \in SUBSET Nat, T # {}
  PROVE  \E m \in T : \A k \in T : m <= k
<1> DEFINE R == OpToRel(<, Nat)
<1>1. PICK m \in T : \A k \in T : <<k, m>> \notin R
  <2> HIDE DEF R
  <2> QED
    BY NatLessThanWellFounded, WFMin DEF R
<1>2. \A k \in T : ~(k < m)
  BY <1>1 DEF OpToRel
<1> QED
  BY <1>2

\* Of finitely many numbers one is the largest.
LEMMA LastIsThere ==
  ASSUME NEW n \in Nat, NEW S \in SUBSET (1 .. n), S # {}
  PROVE  \E m \in S : \A k \in S : k <= m
<1> DEFINE T == {n - i : i \in S}
<1>1. T \in SUBSET Nat /\ T # {}
  <2>1. \A i \in S : n - i \in Nat
    BY ONLY n \in Nat, S \subseteq 1 .. n
  <2> QED
    BY <2>1
<1>2. PICK m \in T : \A k \in T : m <= k
  <2> HIDE DEF T
  <2> QED
    BY <1>1, LeastIsThere
<1>3. PICK i \in S : m = n - i
  OBVIOUS
<1>4. \A j \in S : j <= i
  <2> TAKE j \in S
  <2>1. n - j \in T
    OBVIOUS
  <2>2. n - i <= n - j
    BY <1>2, <1>3, <2>1
  <2>3. i \in Nat /\ j \in Nat
    OBVIOUS
  <2> QED
    BY ONLY <2>2, <2>3, n \in Nat
<1> QED
  BY <1>4

LEMMA MaxIsThere ==
  ASSUME NEW n \in Nat, NEW S \in SUBSET (1 .. n), S # {}
  PROVE  Max(S) \in S
<1>1. PICK m \in S : \A k \in S : k <= m
  BY LastIsThere
<1>2. \A k \in S : m >= k
  BY <1>1
<1> QED
  BY <1>2 DEF Max

\* A sequence from which some places are kept, as the models define it: f[n] is what
\* is kept of the first n places. There is such a function, whatever is kept.
KeepsPlaces(items, kept, f, n) ==
  f = [i \in 0 .. n |->
        IF i = 0 THEN <<>> ELSE IF i \in kept THEN Append(f[i - 1], items[i]) ELSE f[i - 1]]

LEMMA KeepsExists ==
  ASSUME NEW items, NEW kept, NEW N \in Nat
  PROVE  \E f : KeepsPlaces(items, kept, f, N)
<1> DEFINE T == {n \in 0 .. N : ~\E f : KeepsPlaces(items, kept, f, n)}
<1> SUFFICES T = {}
  OBVIOUS
<1> SUFFICES ASSUME T # {} PROVE FALSE
  OBVIOUS
<1>0. T \in SUBSET Nat
  OBVIOUS
<1>1. PICK m \in T : \A k \in T : m <= k
  <2> HIDE DEF T
  <2> QED
    BY <1>0, LeastIsThere
<1>2. m # 0
  <2> DEFINE f == [i \in 0 .. 0 |-> <<>>]
  <2>1. KeepsPlaces(items, kept, f, 0)
    BY DEF KeepsPlaces
  <2> QED
    BY <2>1
<1>3. PICK f : KeepsPlaces(items, kept, f, m - 1)
  <2>1. m - 1 \in 0 .. N /\ m - 1 \notin T
    BY <1>1, <1>2
  <2> QED
    BY <2>1
<1> DEFINE g == [i \in 0 .. m |-> IF i < m THEN f[i] ELSE IF m \in kept THEN Append(f[m - 1], items[m]) ELSE f[m - 1]]
<1>4. \A i \in 0 .. m : g[i] = IF i = 0 THEN <<>> ELSE IF i \in kept THEN Append(g[i - 1], items[i]) ELSE g[i - 1]
  <2>1. m \in Nat \ {0}
    BY <1>2
  <2>2. \A i \in 0 .. m - 1 : f[i] = IF i = 0 THEN <<>> ELSE IF i \in kept THEN Append(f[i - 1], items[i]) ELSE f[i - 1]
    BY <1>3 DEF KeepsPlaces
  <2> TAKE i \in 0 .. m
  <2>3. CASE i < m
    <3>1. i \in 0 .. m - 1 /\ (i # 0 => i - 1 \in 0 .. m /\ i - 1 < m)
      BY <2>1, <2>3
    <3> HIDE DEF T
    <3> QED
      BY <2>2, <2>3, <3>1
  <2>4. CASE i = m
    <3>1. m - 1 \in 0 .. m /\ m - 1 < m /\ m \in 0 .. m /\ ~(m < m)
      BY <2>1
    <3> HIDE DEF T
    <3> QED
      BY <2>1, <2>4, <3>1
  <2> QED
    BY <2>1, <2>3, <2>4
<1>5. KeepsPlaces(items, kept, g, m)
  <2> HIDE DEF g
  <2>1. g = [i \in 0 .. m |-> g[i]]
    BY DEF g
  <2> QED
    BY <1>4, <2>1 DEF KeepsPlaces
<1> QED
  BY <1>1, <1>5

\* What is kept is of the same kind, and everything if every place is.
LEMMA KeptOfSequence ==
  ASSUME NEW S, NEW items \in Seq(S), NEW kept, NEW objects, KeepsPlaces(items, kept, objects, Len(items))
  PROVE  /\ objects[Len(items)] \in Seq(S)
         /\ DOMAIN items \subseteq kept => objects[Len(items)] = items
<1> DEFINE N == Len(items)
<1>1. N \in Nat /\ DOMAIN items = 1 .. N /\ \A n \in 1 .. N : items[n] \in S
  OBVIOUS
<1>4. \A n \in 0 .. N : objects[n] = IF n = 0 THEN <<>> ELSE IF n \in kept THEN Append(objects[n - 1], items[n]) ELSE objects[n - 1]
  BY DEF KeepsPlaces
<1> DEFINE Good(n) == /\ objects[n] \in Seq(S)
                      /\ 1 .. N \subseteq kept =>
                           Len(objects[n]) = n /\ \A k \in 1 .. n : objects[n][k] = items[k]
           T == {n \in 0 .. N : ~Good(n)}
<1>5. T = {}
  <2> SUFFICES ASSUME T # {} PROVE FALSE
    OBVIOUS
  <2>0. T \in SUBSET Nat
    BY <1>1
  <2>1. PICK m \in T : \A k \in T : m <= k
    <3> HIDE DEF T
    <3> QED
      BY <2>0, LeastIsThere
  <2>2. m # 0
    <3>1. objects[0] = <<>>
      BY <1>1, <1>4
    <3>2. Good(0)
      BY <3>1
    <3> HIDE DEF Good
    <3> QED
      BY <2>1, <3>2
  <2>3. m - 1 \in 0 .. N /\ Good(m - 1)
    <3> HIDE DEF Good
    <3> QED
      BY <1>1, <2>1, <2>2
  <2>6. m \in 1 .. N /\ ~Good(m)
    BY <1>1, <2>2
  <2>4. CASE m \notin kept
    <3>1. objects[m] = objects[m - 1]
      BY <1>1, <1>4, <2>6, <2>4
    <3> QED
      BY <2>6, <2>3, <2>4, <3>1
  <2>5. CASE m \in kept
    <3>1. objects[m] = Append(objects[m - 1], items[m]) /\ items[m] \in S /\ m \in Nat
      <4>1. m \in 0 .. N /\ m # 0 /\ m \in Nat /\ items[m] \in S
        BY <1>1, <2>6
      <4> HIDE DEF T, N, Good
      <4> QED
        BY <1>4, <2>5, <4>1
    <3>2. objects[m] \in Seq(S)
      BY <2>3, <3>1
    <3>3. ASSUME 1 .. N \subseteq kept
          PROVE  Len(objects[m]) = m /\ \A k \in 1 .. m : objects[m][k] = items[k]
      <4>1. Len(objects[m - 1]) = m - 1 /\ \A k \in 1 .. m - 1 : objects[m - 1][k] = items[k]
        BY <2>3, <3>3
      <4>2. objects[m - 1] \in Seq(S)
        BY <2>3
      <4> DEFINE before == objects[m - 1]
                 added  == items[m]
      <4> HIDE DEF before, added
      <4>3. before \in Seq(S) /\ added \in S /\ Len(before) = m - 1
        BY <3>1, <4>1, <4>2 DEF before, added
      <4>4. Len(Append(before, added)) = m /\ Append(before, added)[m] = added
            /\ \A k \in 1 .. m - 1 : Append(before, added)[k] = before[k]
        BY <3>1, <4>3
      <4> QED
        BY <3>1, <4>1, <4>4 DEF before, added
    <3> QED
      BY <2>6, <3>2, <3>3
  <2> QED
    BY <2>4, <2>5
<1>6. Good(N)
  <2> HIDE DEF Good
  <2> QED
    BY <1>1, <1>5
<1>7. ASSUME DOMAIN items \subseteq kept
      PROVE  objects[N] = items
  BY <1>1, <1>6, <1>7
<1> QED
  BY <1>6, <1>7

\* What is kept are the items at the places that are kept, and if these differ, each once.
LEMMA KeptAre ==
  ASSUME NEW S, NEW items \in Seq(S), NEW kept, NEW objects, KeepsPlaces(items, kept, objects, Len(items))
  PROVE  LET all == objects[Len(items)]
         IN  /\ all \in Seq(S)
             /\ \A k \in 1 .. Len(all) : \E i \in 1 .. Len(items) : i \in kept /\ all[k] = items[i]
             /\ \A i \in 1 .. Len(items) : i \in kept => \E k \in 1 .. Len(all) : all[k] = items[i]
             /\ (\A i, j \in 1 .. Len(items) : i \in kept /\ j \in kept /\ items[i] = items[j] => i = j)
                  => \A k, l \in 1 .. Len(all) : all[k] = all[l] => k = l
<1> DEFINE N == Len(items)
           Distinct == \A i, j \in 1 .. N : i \in kept /\ j \in kept /\ items[i] = items[j] => i = j
           From(all, n) == \A k \in 1 .. Len(all) : \E i \in 1 .. n : i \in kept /\ all[k] = items[i]
           To(all, n)   == \A i \in 1 .. n : i \in kept => \E k \in 1 .. Len(all) : all[k] = items[i]
           Once(all)    == Distinct => \A k, l \in 1 .. Len(all) : all[k] = all[l] => k = l
           Good(n) == objects[n] \in Seq(S) /\ From(objects[n], n) /\ To(objects[n], n) /\ Once(objects[n])
           T == {n \in 0 .. N : ~Good(n)}
<1>1. N \in Nat /\ \A n \in 1 .. N : items[n] \in S
  OBVIOUS
<1>2. \A n \in 0 .. N : objects[n] = IF n = 0 THEN <<>> ELSE IF n \in kept THEN Append(objects[n - 1], items[n]) ELSE objects[n - 1]
  BY DEF KeepsPlaces
<1> HIDE DEF Distinct, N
<1>3. ASSUME NEW m \in T, \A k \in T : m <= k
      PROVE  FALSE
  <2>1. m # 0
    <3>1. objects[0] = <<>>
      BY <1>1, <1>2
    <3>2. Good(0)
      BY <3>1
    <3> HIDE DEF Good
    <3> QED
      BY <1>3, <3>2
  <2>2. m \in 1 .. N /\ m - 1 \in 0 .. N /\ m \in Nat /\ ~Good(m) /\ Good(m - 1)
    <3>1. m \in 0 .. N /\ ~Good(m)
      OBVIOUS
    <3>2. m \in 1 .. N /\ m - 1 \in 0 .. N /\ m \in Nat /\ ~(m <= m - 1)
      BY ONLY <1>1, <2>1, <3>1
    <3>3. m - 1 \notin T
      BY <1>3, <3>2
    <3> HIDE DEF Good
    <3> QED
      BY <3>1, <3>2, <3>3
  <2> DEFINE before == objects[m - 1]
             all    == objects[m]
  <2>3. before \in Seq(S) /\ From(before, m - 1) /\ To(before, m - 1) /\ Once(before)
    BY <2>2
  <2>4. all = IF m \in kept THEN Append(before, items[m]) ELSE before
    BY <1>2, <2>1, <2>2
  <2>5. ~(all \in Seq(S) /\ From(all, m) /\ To(all, m) /\ Once(all))
    BY <2>2
  <2>6. \A i \in 1 .. m - 1 : i \in 1 .. m /\ i \in 1 .. N /\ i # m
    BY ONLY <1>1, <2>2
  <2>7. \A i \in 1 .. m : i \in 1 .. m - 1 \/ i = m
    BY ONLY <1>1, <2>2
  <2> HIDE DEF before, all, T
  <2>8. CASE m \notin kept
    BY <2>3, <2>4, <2>5, <2>6, <2>7, <2>8
  <2>9. CASE m \in kept
    <3> DEFINE added == items[m]
    <3>1. added \in S /\ all = Append(before, added)
      BY <1>1, <2>2, <2>4, <2>9
    <3> HIDE DEF added
    <3>2. /\ all \in Seq(S) /\ Len(all) = Len(before) + 1 /\ Len(before) \in Nat
          /\ \A k \in 1 .. Len(before) : all[k] = before[k]
          /\ all[Len(before) + 1] = added
      BY <2>3, <3>1
    <3>3. \A k \in 1 .. Len(all) : k \in 1 .. Len(before) \/ k = Len(before) + 1
      BY <3>2
    <3>4. Len(before) + 1 \in 1 .. Len(all) /\ \A k \in 1 .. Len(before) : k \in 1 .. Len(all)
      BY <3>2
    <3>5. From(all, m)
      <4> TAKE k \in 1 .. Len(all)
      <4>1. CASE k \in 1 .. Len(before)
        <5>1. PICK i \in 1 .. m - 1 : i \in kept /\ before[k] = items[i]
          BY <2>3, <4>1
        <5>2. i \in 1 .. m /\ all[k] = before[k]
          BY <2>6, <3>2, <4>1
        <5> QED
          BY ONLY <5>1, <5>2
      <4>2. CASE k = Len(before) + 1
        <5>1. m \in 1 .. m
          BY <2>2
        <5> QED
          BY <2>9, <3>2, <4>2, <5>1 DEF added
      <4> QED
        BY <3>3, <4>1, <4>2
    <3>6. To(all, m)
      <4> SUFFICES ASSUME NEW i \in 1 .. m, i \in kept
                   PROVE  \E k \in 1 .. Len(all) : all[k] = items[i]
        OBVIOUS
      <4>1. CASE i \in 1 .. m - 1
        <5>1. PICK k \in 1 .. Len(before) : before[k] = items[i]
          BY <2>3, <4>1
        <5> QED
          BY <3>2, <3>4, <5>1
      <4>2. CASE i = m
        BY <3>2, <3>4, <4>2 DEF added
      <4> QED
        BY <2>7, <4>1, <4>2
    <3>7. Once(all)
      <4> SUFFICES ASSUME Distinct, NEW k \in 1 .. Len(all), NEW l \in 1 .. Len(all), all[k] = all[l]
                   PROVE  k = l
        OBVIOUS
      <4>1. \A n \in 1 .. Len(before) : before[n] # added
        <5> SUFFICES ASSUME NEW n \in 1 .. Len(before), before[n] = added PROVE FALSE
          OBVIOUS
        <5>1. PICK i \in 1 .. m - 1 : i \in kept /\ before[n] = items[i]
          BY <2>3
        <5>2. i \in 1 .. N /\ i # m /\ items[i] = items[m]
          BY <2>6, <5>1 DEF added
        <5> QED
          BY <2>2, <2>9, <5>1, <5>2 DEF Distinct
      <4>2. \A n, o \in 1 .. Len(before) : before[n] = before[o] => n = o
        BY <2>3
      <4> QED
        BY <3>2, <3>3, <4>1, <4>2
    <3> QED
      BY <2>5, <3>2, <3>5, <3>6, <3>7
  <2> QED
    BY <2>8, <2>9
<1>4. T = {}
  <2> SUFFICES ASSUME T # {} PROVE FALSE
    OBVIOUS
  <2>1. T \in SUBSET Nat
    BY <1>1
  <2> HIDE DEF T
  <2>2. PICK m \in T : \A k \in T : m <= k
    BY <2>1, LeastIsThere
  <2> QED
    BY <1>3, <2>2
<1>5. Good(N)
  <2>1. N \in 0 .. N
    BY <1>1
  <2> HIDE DEF Good
  <2> QED
    BY <1>4, <2>1
<1> QED
  BY <1>5 DEF N, Distinct

LEMMA AppendIs ==
  ASSUME NEW S, NEW s \in Seq(S), NEW e \in S
  PROVE  /\ Append(s, e) \in Seq(S) /\ Len(Append(s, e)) = Len(s) + 1 /\ Len(s) \in Nat
         /\ DOMAIN Append(s, e) = 1 .. Len(Append(s, e)) /\ DOMAIN s = 1 .. Len(s)
         /\ \A n \in 1 .. Len(s) : Append(s, e)[n] = s[n]
         /\ Append(s, e)[Len(s) + 1] = e
OBVIOUS

\* What follows a sequence keeps its order.
LEMMA ConcatIs ==
  ASSUME NEW S, NEW s \in Seq(S), NEW t \in Seq(S)
  PROVE  /\ s \o t \in Seq(S) /\ Len(s \o t) = Len(s) + Len(t)
         /\ \A n \in 1 .. Len(s) : (s \o t)[n] = s[n]
         /\ \A n \in 1 .. Len(t) : (s \o t)[Len(s) + n] = t[n]
<1>1. s \o t \in Seq(S) /\ Len(s \o t) = Len(s) + Len(t) /\ Len(s) \in Nat /\ Len(t) \in Nat
  OBVIOUS
<1>2. ASSUME NEW n \in 1 .. Len(s) PROVE (s \o t)[n] = s[n]
  OBVIOUS
<1>3. ASSUME NEW n \in 1 .. Len(t) PROVE (s \o t)[Len(s) + n] = t[n]
  <2>1. Len(s) + n \in 1 .. Len(s) + Len(t) /\ Len(s) + n > Len(s) /\ Len(s) + n - Len(s) = n
    BY <1>1
  <2> QED
    BY <1>1, <2>1
<1> QED
  BY <1>1, <1>2, <1>3

LEMMA MinOfTwo == ASSUME NEW a \in Nat, NEW b \in Nat PROVE Min({a, b}) = IF a <= b THEN a ELSE b
BY DEF Min

\* The page of a list that comes next after the first places.
PageAt(all, from, size) == SubSeq(all, from + 1, Min({Len(all), from + size}))

LEMMA PageIsNext ==
  ASSUME NEW S, NEW all \in Seq(S), NEW L \in Nat, NEW size \in Nat \ {0}
  PROVE  LET page == PageAt(all, L, size)
         IN  /\ page \in Seq(S)
             /\ L <= Len(all) =>
                  /\ L + Len(page) <= Len(all)
                  /\ \A n \in 1 .. Len(page) : page[n] = all[L + n]
                  /\ page = <<>> => L = Len(all)
                  /\ Len(page) <= size /\ (Len(page) < size => L + Len(page) = Len(all))
<1> DEFINE A == Len(all)
           e == Min({A, L + size})
           page == PageAt(all, L, size)
<1>1. L \in Nat /\ A \in Nat /\ L + size \in Nat /\ \A i \in 1 .. A : all[i] \in S
  OBVIOUS
<1>2. e = IF A <= L + size THEN A ELSE L + size
  BY <1>1, MinOfTwo
<1>3. page = SubSeq(all, L + 1, e)
  BY DEF PageAt
<1> HIDE DEF page, e, A
<1>4. e \in Nat /\ e <= A
  BY <1>1, <1>2
<1>5. /\ page \in Seq(S) /\ Len(page) = IF L + 1 <= e THEN e - (L + 1) + 1 ELSE 0
      /\ \A i \in 1 .. e - (L + 1) + 1 : page[i] = all[L + 1 + i - 1]
  <2>1. \A i \in L + 1 .. e : all[i] \in S
    BY <1>1, <1>4
  <2> QED
    BY <1>1, <1>3, <1>4, <2>1, SubSeqProperties
<1>6. ASSUME L <= A
      PROVE  /\ Len(page) = e - L
             /\ \A n \in 1 .. Len(page) : page[n] = all[L + n]
             /\ e = L => L = A
             /\ e - L <= size /\ (e - L < size => e = A)
  <2>1. L <= e /\ (e = L => L = A) /\ e - L <= size /\ (e - L < size => e = A)
    BY <1>1, <1>2, <1>6
  <2>2. Len(page) = e - L
    BY <1>1, <1>4, <1>5, <2>1
  <2>3. \A n \in 1 .. e - L : page[n] = all[L + n]
    <3> TAKE n \in 1 .. e - L
    <3>1. n \in 1 .. e - (L + 1) + 1 /\ L + 1 + n - 1 = L + n
      BY <1>1, <1>4
    <3> QED
      BY <1>5, <3>1
  <2> QED
    BY <2>1, <2>2, <2>3
<1>7. ASSUME L <= A
      PROVE  /\ L + Len(page) <= A /\ (page = <<>> => L = A)
             /\ Len(page) <= size /\ (Len(page) < size => L + Len(page) = A)
  BY <1>1, <1>4, <1>6, <1>7
<1> QED
  BY <1>5, <1>6, <1>7 DEF A, page

-----------------------------------------------------------------------------
(* Lookups of a trace or a run while it goes on, or is deleted.            *)

SoughtTrace == [home : {NoProject, "p", "q"}, runs : Seq(LongAgo .. JustNow)]

\* The root of a trace starts first.
RootIsFirst(trace) ==
  /\ trace \in SoughtTrace /\ Len(trace.runs) >= 1
  /\ \A n \in 1 .. Len(trace.runs) : trace.runs[1] <= trace.runs[n]

PendingLookups == {"locate", "read trace", "read run"}

LookupState ==
  [at : PendingLookups \cup {"found", "not found", "failed"}, in : LookupInput, trace : SoughtTrace,
   scope : {NoProject, "p", "q"}, runs : SUBSET Nat, told : LongAgo .. JustNow]

\* The project a lookup reads is the one that was asked for. Only on v2, where none
\* was, is it the one the trace was found in, unless that is deleted since.
ScopeIsMeant ==
  \/ sought.scope = sought.in.project
  \/ ~OnV1 /\ sought.in.project = NoProject /\ sought.trace.home \in {NoProject, sought.scope}

LookupInv ==
  \/ sought = NoLookup
  \/ /\ sought \in LookupState /\ RootIsFirst(sought.trace) /\ ScopeIsMeant
     /\ sought.at = "locate" => ~OnV1 /\ sought.in.cmd = "trace get" /\ sought.in.project = NoProject
     /\ sought.at = "read trace" => OnV1 \/ sought.scope # NoProject
     /\ sought.at = "read run" => sought.in.cmd = "run get" /\ sought.scope = sought.in.project
     /\ LookupsTellTheTruth

LEMMA TimesOfLookups ==
  ASSUME NEW in \in LookupInput
  PROVE  /\ StartAsked(in) \in LongAgo .. JustNow /\ SinceAsked(in) \in LongAgo .. JustNow
         /\ StartAsked(in) \in Int /\ SinceAsked(in) \in Int
         /\ SinceAsked(in) <= StartAsked(in)
         /\ in.since # NoSince => StartAsked(in) = in.since /\ SinceAsked(in) = in.since
         /\ in.since = NoSince => StartAsked(in) = ThisWeek /\ SinceAsked(in) = LongAgo
<1> DEFINE since == in.since
<1>1. since \in {NoSince, LongAgo, JustNow}
  BY DEF LookupInput
<1>2. /\ StartAsked(in) = IF since = NoSince THEN ThisWeek ELSE since
      /\ SinceAsked(in) = IF since = NoSince THEN LongAgo ELSE since
  BY DEF StartAsked, SinceAsked
<1> HIDE DEF since
<1>3. /\ StartAsked(in) \in LongAgo .. JustNow /\ SinceAsked(in) \in LongAgo .. JustNow
      /\ SinceAsked(in) <= StartAsked(in)
      /\ since # NoSince => StartAsked(in) = since /\ SinceAsked(in) = since
      /\ since = NoSince => StartAsked(in) = ThisWeek /\ SinceAsked(in) = LongAgo
  <2>1. CASE since = NoSince
    BY <1>2, <2>1 DEF LongAgo, ThisWeek, JustNow
  <2>2. CASE since \in {LongAgo, JustNow}
    BY <1>2, <2>2 DEF LongAgo, ThisWeek, JustNow, NoSince
  <2> QED
    BY <1>1, <2>1, <2>2
<1>4. \A t \in LongAgo .. JustNow : t \in Int
  BY DEF LongAgo, JustNow
<1> QED
  BY <1>3, <1>4 DEF since

LEMMA TracesAreSought ==
  ASSUME NEW trace \in SoughtTraces
  PROVE  RootIsFirst(trace)
<1>1. PICK home \in {NoProject, "p", "q"}, starts \in SeqOf(LongAgo .. JustNow, 2) :
        /\ trace = [home |-> home, runs |-> starts] /\ starts # <<>>
        /\ \A n \in DOMAIN starts : starts[1] <= starts[n]
  BY DEF SoughtTraces
<1>2. PICK m \in 0 .. 2 : starts \in [1 .. m -> LongAgo .. JustNow]
  BY <1>1 DEF SeqOf
<1> DEFINE times == LongAgo .. JustNow
<1>3. starts \in Seq(times) /\ Len(starts) = m /\ DOMAIN starts = 1 .. m
  <2>1. starts \in [1 .. m -> times] /\ m \in Nat
    BY <1>2
  <2> HIDE DEF times
  <2> QED
    BY <2>1
<1>4. Len(starts) >= 1
  BY <1>1, <1>3
<1> QED
  BY <1>1, <1>3, <1>4 DEF RootIsFirst, SoughtTrace

\* What a lookup finds are runs of the trace that are not from before the time.
LEMMA FoundInScope ==
  ASSUME NEW trace, RootIsFirst(trace), NEW project, NEW start
  PROVE  /\ DOMAIN trace.runs = 1 .. Len(trace.runs) /\ 1 \in DOMAIN trace.runs 
         /\ \A n \in DOMAIN trace.runs : trace.runs[n] \in Int
         /\ RunsSince(trace, project, start) \in SUBSET Nat
         /\ RunsSince(trace, project, start) =
              IF InScope(trace, project) THEN {n \in DOMAIN trace.runs : trace.runs[n] >= start} ELSE {}
<1> DEFINE runs == trace.runs
           times == LongAgo .. JustNow
<1>1. runs \in Seq(times) /\ Len(runs) >= 1
  BY DEF RootIsFirst, SoughtTrace
<1>2. RunsSince(trace, project, start) = {n \in DOMAIN runs : InScope(trace, project) /\ runs[n] >= start}
  BY DEF RunsSince
<1> HIDE DEF runs, times
<1>3. DOMAIN runs = 1 .. Len(runs) /\ Len(runs) \in Nat /\ 1 \in DOMAIN runs
  BY <1>1
<1>4. \A n \in DOMAIN runs : runs[n] \in Int
  <2>1. \A n \in DOMAIN runs : runs[n] \in times
    BY <1>1, <1>3
  <2>2. \A t \in times : t \in Int
    BY DEF times, LongAgo, JustNow
  <2> QED
    BY <2>1, <2>2
<1>5. RunsSince(trace, project, start) \in SUBSET Nat
  BY <1>2, <1>3
<1>6. RunsSince(trace, project, start) = IF InScope(trace, project) THEN {n \in DOMAIN runs : runs[n] >= start} ELSE {}
  BY <1>2
<1> QED
  BY <1>3, <1>4, <1>5, <1>6 DEF runs, times

LEMMA LookupBegins ==
  ASSUME NEW in \in LookupInputs, NEW trace \in SoughtTraces, UNCHANGED deployment,
         TraceGet(in, trace) \/ RunGet(in, trace)
  PROVE  LookupInv'
<1>1. in \in LookupInput /\ RootIsFirst(trace)
  BY LookupAssumption, TracesAreSought
<1>2. PICK at \in PendingLookups :
        /\ BeginLookup(in, trace, at)
        /\ at = "locate" => ~OnV1 /\ in.cmd = "trace get" /\ in.project = NoProject
        /\ at = "read trace" => OnV1 \/ in.project # NoProject
        /\ at = "read run" => in.cmd = "run get"
  BY DEF TraceGet, RunGet, PendingLookups
<1>3. sought' = [at |-> at, in |-> in, trace |-> trace, scope |-> in.project, runs |-> {}, told |-> LongAgo]
  BY <1>2 DEF BeginLookup, NoLookup
<1>4. in.project \in {NoProject, "p"} /\ trace \in SoughtTrace
  BY <1>1 DEF LookupInput, RootIsFirst
<1>5. sought' \in LookupState
  <2>1. LongAgo \in LongAgo .. JustNow /\ {} \in SUBSET Nat
    BY DEF LongAgo, JustNow
  <2> QED
    BY <1>1, <1>2, <1>3, <1>4, <2>1 DEF LookupState
<1>6. RootIsFirst(sought.trace)' /\ ScopeIsMeant'
  BY <1>1, <1>3 DEF RootIsFirst, ScopeIsMeant
<1>7. LookupsTellTheTruth'
  BY <1>2, <1>3 DEF LookupsTellTheTruth, PendingLookups
<1> QED
  BY <1>2, <1>3, <1>5, <1>6, <1>7 DEF LookupInv, OnV1, PendingLookups

\* What holds while a lookup goes on.
LEMMA LookupGoesOn ==
  ASSUME LookupInv, sought.at \in PendingLookups
  PROVE  /\ sought \in LookupState /\ RootIsFirst(sought.trace) /\ ScopeIsMeant /\ sought.in \in LookupInput
         /\ sought.at = "locate" => ~OnV1 /\ sought.in.cmd = "trace get" /\ sought.in.project = NoProject
         /\ sought.at = "read trace" => OnV1 \/ sought.scope # NoProject
         /\ sought.at = "read run" => sought.in.cmd = "run get" /\ sought.scope = sought.in.project
<1>1. sought # NoLookup
  <2>1. NoLookup.at = "idle"
    BY DEF NoLookup
  <2> QED
    BY <2>1 DEF PendingLookups
<1> QED
  BY <1>1 DEF LookupInv, LookupState

\* A lookup that ends without runs has only to say the truth about the root.
LEMMA LookupEndsWithout ==
  ASSUME LookupInv, sought.at \in PendingLookups, UNCHANGED deployment, NEW time \in LongAgo .. JustNow,
         NEW at \in {"not found", "failed"},
         sought' = [sought EXCEPT !.at = at, !.told = time],
         at = "not found" /\ sought.in.cmd = "trace get" =>
           ~InScope(sought.trace, sought.in.project) \/ sought.trace.runs[1] < time
  PROVE  LookupInv'
<1>1. sought \in LookupState /\ RootIsFirst(sought.trace) /\ ScopeIsMeant
  BY LookupGoesOn
<1>2. /\ sought' \in LookupState /\ sought'.at = at /\ sought'.told = time
      /\ sought'.in = sought.in /\ sought'.trace = sought.trace /\ sought'.scope = sought.scope
  BY <1>1 DEF LookupState
<1>3. LookupsTellTheTruth'
  BY <1>2 DEF LookupsTellTheTruth, InScope
<1> QED
  BY <1>1, <1>2, <1>3 DEF LookupInv, ScopeIsMeant, OnV1

\* One that finds runs has found those of the project that was asked for since a time.
LEMMA LookupEndsWith ==
  ASSUME LookupInv, sought.at \in PendingLookups, UNCHANGED deployment, NEW found \in SUBSET Nat, found # {},
         sought' = [sought EXCEPT !.at = "found", !.runs = found],
         InScope(sought.trace, sought.in.project),
         NEW start \in {StartAsked(sought.in), SinceAsked(sought.in)},
         OnV1 => start = StartAsked(sought.in),
         ~OnV1 /\ sought.in.cmd = "trace get" => start = SinceAsked(sought.in),
         \A n \in found : n \in DOMAIN sought.trace.runs /\ sought.trace.runs[n] >= start,
         sought.in.cmd = "trace get" =>
           \A n \in DOMAIN sought.trace.runs : sought.trace.runs[n] >= start => n \in found
  PROVE  LookupInv'
<1>1. sought \in LookupState /\ RootIsFirst(sought.trace) /\ ScopeIsMeant /\ sought.in \in LookupInput
  BY LookupGoesOn
<1>2. /\ sought' \in LookupState /\ sought'.at = "found" /\ sought'.runs = found
      /\ sought'.in = sought.in /\ sought'.trace = sought.trace /\ sought'.scope = sought.scope
  BY <1>1 DEF LookupState
<1>3. /\ sought.in.since # NoSince => start = sought.in.since
      /\ sought.in.since = NoSince /\ OnV1 => start = ThisWeek
      /\ sought.in.since = NoSince /\ ~OnV1 /\ sought.in.cmd = "trace get" => start = LongAgo
  BY <1>1, TimesOfLookups
<1>4. \A n \in DOMAIN sought.trace.runs : sought.trace.runs[n] \in Int
  BY <1>1, FoundInScope
<1>5. start \in Int
  BY <1>1, TimesOfLookups
<1>6. LookupsTellTheTruth'
  <2> DEFINE of == DOMAIN sought.trace.runs
  <2>1. sought.trace.home # NoProject /\ sought.in.project \in {NoProject, sought.trace.home}
    BY DEF InScope
  <2>2. sought.in.since # NoSince => \A n \in found : sought.trace.runs[n] >= sought.in.since
    BY <1>3
  <2>3. sought.in.cmd = "trace get" =>
          \A n \in of \ found :
            sought.trace.runs[n] < IF sought.in.since # NoSince THEN sought.in.since ELSE IF OnV1 THEN ThisWeek ELSE LongAgo
    <3>1. ASSUME sought.in.cmd = "trace get", NEW n \in of \ found
          PROVE  sought.trace.runs[n] < start
      <4>1. n \in of /\ sought.trace.runs[n] \in Int /\ ~(sought.trace.runs[n] >= start)
        BY <1>4, <3>1
      <4> QED
        BY ONLY <1>5, <4>1
    <3> QED
      BY <1>3, <3>1
  <2>4. OnV1' <=> OnV1
    BY DEF OnV1
  <2> QED
    BY <1>2, <2>1, <2>2, <2>3, <2>4, Zenon DEF LookupsTellTheTruth
<1> QED
  BY <1>1, <1>2, <1>6 DEF LookupInv, ScopeIsMeant, OnV1

\* The trace goes on, or is deleted, and the lookup does not know.
LEMMA TraceChangesUnderLookup ==
  ASSUME LookupInv, sought.at \in PendingLookups, UNCHANGED deployment, NEW trace, RootIsFirst(trace),
         trace.home \in {NoProject, sought.trace.home}, sought' = [sought EXCEPT !.trace = trace]
  PROVE  LookupInv'
<1>1. sought \in LookupState /\ ScopeIsMeant /\ trace \in SoughtTrace
  BY LookupGoesOn DEF RootIsFirst
<1>2. /\ sought' \in LookupState /\ sought'.at = sought.at /\ sought'.trace = trace
      /\ sought'.in = sought.in /\ sought'.scope = sought.scope
  BY <1>1 DEF LookupState
<1>3. ScopeIsMeant'
  BY <1>1, <1>2 DEF ScopeIsMeant, OnV1
<1>4. LookupsTellTheTruth'
  BY <1>2 DEF LookupsTellTheTruth, PendingLookups
<1> QED
  BY <1>2, <1>3, <1>4, LookupGoesOn DEF LookupInv, OnV1

LEMMA LocateTraceKeeps ==
  ASSUME LookupInv, LocateTrace, UNCHANGED deployment
  PROVE  LookupInv'
<1>1. sought.at \in PendingLookups /\ sought.at = "locate"
  BY DEF LocateTrace, PendingLookups
<1>2. /\ sought \in LookupState /\ RootIsFirst(sought.trace) /\ ScopeIsMeant /\ sought.in \in LookupInput
      /\ sought.in.cmd = "trace get" /\ sought.in.project = NoProject
  BY <1>1, LookupGoesOn
<1>3. sought.trace.runs[1] \in Int /\ StartAsked(sought.in) \in Int /\ StartAsked(sought.in) \in LongAgo .. JustNow
  BY <1>2, FoundInScope, TimesOfLookups
<1>4. CASE sought.trace.home # NoProject /\ sought.trace.runs[1] >= StartAsked(sought.in)
  <2>1. sought' = [sought EXCEPT !.at = "read trace", !.scope = sought.trace.home]
    BY <1>4 DEF LocateTrace
  <2>2. sought.trace.home \in {NoProject, "p", "q"}
    BY <1>2 DEF LookupState, SoughtTrace
  <2>3. /\ sought' \in LookupState /\ sought'.at = "read trace" /\ sought'.scope = sought.trace.home
        /\ sought'.trace = sought.trace /\ sought'.in = sought.in
    BY <1>2, <2>1, <2>2 DEF LookupState, PendingLookups
  <2>4. ~OnV1
    BY <1>1, LookupGoesOn
  <2>5. ScopeIsMeant' /\ LookupsTellTheTruth'
    BY <1>2, <2>3, <2>4 DEF ScopeIsMeant, LookupsTellTheTruth, OnV1
  <2> QED
    BY <1>2, <1>4, <2>3, <2>5 DEF LookupInv, OnV1
<1>5. CASE ~(sought.trace.home # NoProject /\ sought.trace.runs[1] >= StartAsked(sought.in))
  <2>1. sought' = [sought EXCEPT !.at = "not found", !.told = StartAsked(sought.in)]
    BY <1>5 DEF LocateTrace, NotFound
  <2>2. ~InScope(sought.trace, sought.in.project) \/ sought.trace.runs[1] < StartAsked(sought.in)
    BY <1>3, <1>5 DEF InScope
  <2> QED
    BY <1>1, <1>3, <2>1, <2>2, LookupEndsWithout
<1> QED
  BY <1>4, <1>5

LEMMA ReadTraceKeeps ==
  ASSUME LookupInv, ReadTrace, UNCHANGED deployment
  PROVE  LookupInv'
<1> DEFINE in    == sought.in
           start == IF OnV1 THEN StartAsked(in) ELSE SinceAsked(in)
           found == RunsSince(sought.trace, sought.scope, start)
           time  == IF ~OnV1 /\ in.project # NoProject THEN SinceAsked(in) ELSE StartAsked(in)
           trace == sought.trace
<1>1. sought.at \in PendingLookups /\ sought.at = "read trace"
  BY DEF ReadTrace, PendingLookups
<1>2. RootIsFirst(trace) /\ ScopeIsMeant /\ in \in LookupInput /\ (OnV1 \/ sought.scope # NoProject)
  BY <1>1, LookupGoesOn
<1>3. /\ found \in SUBSET Nat /\ 1 \in DOMAIN trace.runs /\ \A n \in DOMAIN trace.runs : trace.runs[n] \in Int
      /\ found = IF InScope(trace, sought.scope) THEN {n \in DOMAIN trace.runs : trace.runs[n] >= start} ELSE {}
  BY <1>2, FoundInScope
<1>4. /\ start \in Int /\ time \in Int /\ time \in LongAgo .. JustNow /\ start <= time
      /\ start \in {StartAsked(in), SinceAsked(in)}
  BY <1>2, TimesOfLookups
<1>5. IF found # {} THEN sought' = [sought EXCEPT !.at = "found", !.runs = found]
                    ELSE sought' = [sought EXCEPT !.at = "not found", !.told = time]
  BY DEF ReadTrace, NotFound
<1>6. InScope(trace, sought.scope) <=> InScope(trace, in.project)
  BY <1>2 DEF ScopeIsMeant, InScope
<1>7. OnV1 => start = StartAsked(in)
  OBVIOUS
<1>8. ~OnV1 => start = SinceAsked(in)
  OBVIOUS
<1> HIDE DEF start, time, found
<1>9. CASE found # {}
  <2>1. InScope(trace, in.project) /\ found = {n \in DOMAIN trace.runs : trace.runs[n] >= start}
    BY <1>3, <1>6, <1>9
  <2> QED
    BY <1>1, <1>3, <1>4, <1>5, <1>7, <1>8, <1>9, <2>1, LookupEndsWith
<1>10. CASE found = {}
  <2>1. ~InScope(trace, in.project) \/ trace.runs[1] < time
    <3>1. ~InScope(trace, in.project) \/ ~(trace.runs[1] >= start)
      BY <1>3, <1>6, <1>10
    <3>2. trace.runs[1] \in Int
      BY <1>3
    <3> QED
      BY <1>4, <3>1, <3>2
  <2> QED
    BY <1>1, <1>4, <1>5, <1>10, <2>1, LookupEndsWithout
<1> QED
  BY <1>9, <1>10

LEMMA ReadRunKeeps ==
  ASSUME LookupInv, ReadRun, UNCHANGED deployment
  PROVE  LookupInv'
<1> DEFINE in    == sought.in
           start == StartAsked(in)
           since == RunsSince(sought.trace, sought.scope, start)
           found == since \cap {in.run}
           trace == sought.trace
<1>1. sought.at \in PendingLookups /\ sought.at = "read run"
  BY DEF ReadRun, PendingLookups
<1>2. RootIsFirst(trace) /\ in \in LookupInput /\ in.cmd = "run get" /\ sought.scope = in.project
  BY <1>1, LookupGoesOn
<1>3. since \in SUBSET Nat
      /\ since = IF InScope(trace, in.project) THEN {n \in DOMAIN trace.runs : trace.runs[n] >= start} ELSE {}
  BY <1>2, FoundInScope
<1>4. start \in LongAgo .. JustNow /\ in.cmd # "trace get"
  BY <1>2, TimesOfLookups
<1>5. IF found # {} THEN sought' = [sought EXCEPT !.at = "found", !.runs = found]
                    ELSE sought' = [sought EXCEPT !.at = "not found", !.told = start]
  BY DEF ReadRun, NotFound
<1>6. found \in SUBSET Nat /\ found \subseteq since
  BY <1>3
<1>7. start = StartAsked(in)
  OBVIOUS
<1> HIDE DEF start, since, found
<1>8. CASE found # {}
  <2>1. InScope(trace, in.project) /\ \A n \in found : n \in DOMAIN trace.runs /\ trace.runs[n] >= start
    BY <1>3, <1>6, <1>8
  <2> QED
    BY <1>1, <1>4, <1>5, <1>6, <1>7, <1>8, <2>1, LookupEndsWith
<1>9. CASE found = {}
  BY <1>1, <1>4, <1>5, <1>9, LookupEndsWithout
<1> QED
  BY <1>8, <1>9

LEMMA TraceIsDisturbed ==
  ASSUME LookupInv, LookupFails \/ TraceGrows \/ TraceIsDeleted, UNCHANGED deployment
  PROVE  LookupInv'
<1>1. sought.at \in PendingLookups
  BY DEF LookupFails, TraceGrows, TraceIsDeleted, PendingLookups
<1>2. sought \in LookupState /\ RootIsFirst(sought.trace)
  BY <1>1, LookupGoesOn
<1> DEFINE trace == sought.trace
           runs  == trace.runs
           times == LongAgo .. JustNow
<1>3. /\ trace \in SoughtTrace /\ trace.home \in {NoProject, "p", "q"} /\ runs \in Seq(times) /\ Len(runs) >= 1
      /\ \A n \in 1 .. Len(runs) : runs[1] <= runs[n]
  BY <1>2 DEF RootIsFirst, SoughtTrace
<1>4. CASE LookupFails
  <2>1. sought' = [sought EXCEPT !.at = "failed", !.told = sought.told]
    BY <1>2, <1>4 DEF LookupFails, LookupGoes, LookupState
  <2>2. sought.told \in LongAgo .. JustNow
    BY <1>2 DEF LookupState
  <2> QED
    BY <1>1, <2>1, <2>2, LookupEndsWithout
<1>5. CASE TraceGrows
  <2> DEFINE longer == Append(runs, JustNow)
             next   == [trace EXCEPT !.runs = longer]
  <2>1. sought' = [sought EXCEPT !.trace = next]
    BY <1>2, <1>3, <1>5 DEF TraceGrows, LookupState, SoughtTrace
  <2>2. longer \in Seq(times) /\ Len(longer) >= 1 /\ \A n \in 1 .. Len(longer) : longer[1] <= longer[n]
    <3>1. JustNow \in times /\ JustNow \in Int /\ \A t \in times : t \in Int /\ t <= JustNow
      BY DEF times, LongAgo, JustNow
    <3> HIDE DEF runs, times
    <3>2. /\ longer \in Seq(times) /\ Len(longer) = Len(runs) + 1 /\ Len(runs) \in Nat
          /\ \A n \in 1 .. Len(runs) : longer[n] = runs[n]
          /\ longer[Len(runs) + 1] = JustNow
      BY <1>3, <3>1
    <3>3. \A n \in 1 .. Len(runs) : runs[n] \in times
      BY <1>3
    <3>4. 1 \in 1 .. Len(runs) /\ longer[1] = runs[1] /\ longer[1] <= JustNow
      <4>1. 1 \in 1 .. Len(runs)
        BY <1>3, <3>2
      <4>2. longer[1] = runs[1] /\ runs[1] \in times
        BY <3>2, <3>3, <4>1
      <4> QED
        BY <3>1, <4>1, <4>2
    <3> HIDE DEF longer
    <3>5. ASSUME NEW n \in 1 .. Len(longer)
          PROVE  longer[1] <= longer[n]
      <4>1. n \in 1 .. Len(runs) \/ n = Len(runs) + 1
        BY <3>2
      <4> QED
        BY <1>3, <3>2, <3>4, <4>1
    <3> QED
      BY <1>3, <3>2, <3>5
  <2> HIDE DEF longer
  <2>3. next.runs = longer /\ next.home = trace.home /\ next \in SoughtTrace
    BY <1>3, <2>2 DEF SoughtTrace
  <2>4. RootIsFirst(next)
    BY <2>2, <2>3 DEF RootIsFirst
  <2> QED
    BY <1>1, <2>1, <2>3, <2>4, TraceChangesUnderLookup
<1>6. CASE TraceIsDeleted
  <2> DEFINE next == [trace EXCEPT !.home = NoProject]
  <2>1. sought' = [sought EXCEPT !.trace = next]
    BY <1>2, <1>3, <1>6 DEF TraceIsDeleted, LookupState, SoughtTrace
  <2>2. next.runs = runs /\ next.home = NoProject /\ next \in SoughtTrace
    BY <1>3 DEF SoughtTrace
  <2>3. RootIsFirst(next)
    BY <1>3, <2>2 DEF RootIsFirst
  <2> QED
    BY <1>1, <2>1, <2>2, <2>3, TraceChangesUnderLookup
<1> QED
  BY <1>4, <1>5, <1>6

\* However many requests a lookup of a trace or a run takes, and whatever happens to
\* the trace between them, what it finds is of the project and the window asked for and
\* leaves nothing of them out, and what it does not find is not where it says it is not.
THEOREM LookupsAreTrue == LookupSpec => []LookupsTellTheTruth
<1>1. LookupInit => LookupInv
  BY DEF LookupInit, LookupInv
<1>2. LookupInv /\ [LookupNext]_lookupVars => LookupInv'
  <2> SUFFICES ASSUME LookupInv, [LookupNext]_lookupVars
               PROVE  LookupInv'
    OBVIOUS
  <2>1. CASE UNCHANGED lookupVars
    BY <2>1 DEF lookupVars, LookupInv, ScopeIsMeant, LookupsTellTheTruth, OnV1
  <2>2. CASE LookupNext
    BY <2>2, LookupBegins, LocateTraceKeeps, ReadTraceKeeps, ReadRunKeeps, TraceIsDisturbed DEF LookupNext
  <2> QED
    BY <2>1, <2>2
<1>3. LookupInv => LookupsTellTheTruth
  <2>1. NoLookup.at = "idle"
    BY DEF NoLookup
  <2> QED
    BY <2>1 DEF LookupInv, LookupsTellTheTruth
<1> QED
  BY <1>1, <1>2, <1>3, PTL DEF LookupSpec

-----------------------------------------------------------------------------
(* Lists of numbers, the largest first: each is the set it lists in one    *)
(* order, so that pages and what was printed can be compared as sets.      *)

ItemsOf(seq) == {seq[n] : n \in 1 .. Len(seq)}

Falls(seq) == \A i, j \in 1 .. Len(seq) : i < j => seq[i] > seq[j]

Lists(seq, set) == seq \in Seq(Nat) /\ Falls(seq) /\ ItemsOf(seq) = set

\* The part of a list between two places lists the items between them.
LEMMA PartLists ==
  ASSUME NEW seq \in Seq(Nat), Falls(seq), NEW m \in Nat \ {0}, NEW n \in Nat, n <= Len(seq)
  PROVE  LET part == SubSeq(seq, m, n)
         IN  /\ Lists(part, {seq[i] : i \in m .. n})
             /\ Len(part) = IF m <= n THEN n - m + 1 ELSE 0
             /\ \A i \in 1 .. Len(part) : part[i] = seq[m + i - 1]
<1> DEFINE part == SubSeq(seq, m, n)
           L == Len(part)
<1>1. Len(seq) \in Nat /\ \A i \in 1 .. Len(seq) : seq[i] \in Nat
  OBVIOUS
<1>2. /\ part \in Seq(Nat) /\ L = IF m <= n THEN n - m + 1 ELSE 0
      /\ \A i \in 1 .. n - m + 1 : part[i] = seq[m + i - 1]
  <2>1. \A i \in m .. n : seq[i] \in Nat
    BY <1>1
  <2> QED
    BY <2>1, SubSeqProperties
<1> HIDE DEF part
<1>3. L \in Nat /\ (\A i \in 1 .. L : i \in 1 .. n - m + 1 /\ m + i - 1 \in m .. n /\ m + i - 1 \in 1 .. Len(seq))
      /\ (\A i \in m .. n : i - m + 1 \in 1 .. L /\ m + (i - m + 1) - 1 = i)
  BY ONLY <1>1, <1>2, n <= Len(seq), m \in Nat \ {0}, n \in Nat
<1>4. \A i \in 1 .. L : part[i] = seq[m + i - 1]
  BY <1>2, <1>3
<1>5. Falls(part)
  <2> SUFFICES ASSUME NEW i \in 1 .. L, NEW j \in 1 .. L, i < j PROVE part[i] > part[j]
    BY DEF Falls
  <2>1. m + i - 1 < m + j - 1
    BY <1>3
  <2> QED
    BY <1>3, <1>4, <2>1 DEF Falls
<1>6. ItemsOf(part) = {seq[i] : i \in m .. n}
  <2>1. ASSUME NEW x \in ItemsOf(part) PROVE x \in {seq[i] : i \in m .. n}
    BY <1>3, <1>4 DEF ItemsOf
  <2>2. ASSUME NEW i \in m .. n PROVE seq[i] \in ItemsOf(part)
    <3>1. part[i - m + 1] = seq[i] /\ i - m + 1 \in 1 .. L
      BY <1>3, <1>4
    <3> QED
      BY <3>1 DEF ItemsOf
  <2> QED
    BY <2>1, <2>2
<1> QED
  BY <1>2, <1>4, <1>5, <1>6 DEF Lists, part

\* The first items of a list are the largest ones.
LEMMA FirstAreLargest ==
  ASSUME NEW seq, NEW set, Lists(seq, set), NEW n \in 1 .. Len(seq)
  PROVE  /\ seq[n] \in set /\ seq[n] \in Nat
         /\ {seq[i] : i \in 1 .. n} = {x \in set : x >= seq[n]}
         /\ {seq[i] : i \in n + 1 .. Len(seq)} = {x \in set : x < seq[n]}
<1>1. seq \in Seq(Nat) /\ Falls(seq) /\ set = {seq[i] : i \in 1 .. Len(seq)} /\ Len(seq) \in Nat
      /\ \A i \in 1 .. Len(seq) : seq[i] \in Nat
  BY DEF Lists, ItemsOf
<1>2. \A i \in 1 .. Len(seq) : (i <= n => seq[i] >= seq[n]) /\ (i > n => seq[i] < seq[n])
  <2> TAKE i \in 1 .. Len(seq)
  <2>1. CASE i < n
    BY <1>1, <2>1 DEF Falls
  <2>2. CASE i = n
    BY <1>1, <2>2
  <2>3. CASE i > n
    BY <1>1, <2>3 DEF Falls
  <2> QED
    BY <2>1, <2>2, <2>3
<1>3. \A i \in 1 .. n : i \in 1 .. Len(seq) /\ i <= n
  BY <1>1
<1>4. \A i \in n + 1 .. Len(seq) : i \in 1 .. Len(seq) /\ i > n
  BY <1>1
<1>5. \A i \in 1 .. Len(seq) : (i \in 1 .. n \/ i \in n + 1 .. Len(seq)) /\ ~(i <= n /\ i > n)
  BY <1>1
<1>6. \A i \in 1 .. Len(seq) : ~(seq[i] >= seq[n] /\ seq[i] < seq[n])
  BY <1>1
<1>7. {seq[i] : i \in 1 .. n} = {x \in set : x >= seq[n]}
  BY <1>1, <1>2, <1>3, <1>4, <1>5, <1>6
<1>8. {seq[i] : i \in n + 1 .. Len(seq)} = {x \in set : x < seq[n]}
  BY <1>1, <1>2, <1>3, <1>4, <1>5, <1>6
<1> QED
  BY <1>1, <1>7, <1>8

\* A list and one of smaller items are a list together.
LEMMA JoinLists ==
  ASSUME NEW s, NEW S, Lists(s, S), NEW t, NEW T, Lists(t, T), \A x \in S : \A y \in T : x > y
  PROVE  Lists(s \o t, S \cup T)
<1> DEFINE all == s \o t
<1>1. /\ s \in Seq(Nat) /\ Falls(s) /\ S = {s[i] : i \in 1 .. Len(s)} /\ Len(s) \in Nat
      /\ t \in Seq(Nat) /\ Falls(t) /\ T = {t[i] : i \in 1 .. Len(t)} /\ Len(t) \in Nat
  BY DEF Lists, ItemsOf
<1>2. /\ all \in Seq(Nat) /\ Len(all) = Len(s) + Len(t)
      /\ \A n \in 1 .. Len(s) : all[n] = s[n]
      /\ \A n \in 1 .. Len(t) : all[Len(s) + n] = t[n]
  BY <1>1, ConcatIs
<1> HIDE DEF all
<1> DEFINE a == Len(s)
           b == Len(t)
<1>3. \A i \in 1 .. a + b : i \in 1 .. a \/ (i - a \in 1 .. b /\ a + (i - a) = i)
  BY <1>1
<1>4. (\A i \in 1 .. a : i \in 1 .. a + b) /\ (\A i \in 1 .. b : a + i \in 1 .. a + b)
  BY <1>1
<1>5. \A i \in 1 .. a + b : (i \in 1 .. a /\ all[i] = s[i]) \/ (i - a \in 1 .. b /\ all[i] = t[i - a])
  BY <1>2, <1>3
<1>6. Falls(all)
  <2> SUFFICES ASSUME NEW i \in 1 .. a + b, NEW j \in 1 .. a + b, i < j PROVE all[i] > all[j]
    BY <1>2 DEF Falls
  <2>1. CASE i \in 1 .. a /\ j \in 1 .. a
    BY <1>1, <1>2, <2>1 DEF Falls
  <2>2. CASE i \in 1 .. a /\ j - a \in 1 .. b /\ all[j] = t[j - a]
    BY <1>1, <1>2, <2>2
  <2>3. CASE i - a \in 1 .. b /\ j - a \in 1 .. b /\ all[i] = t[i - a] /\ all[j] = t[j - a]
    <3>1. i - a < j - a
      BY <1>1
    <3> QED
      BY <1>1, <2>3, <3>1 DEF Falls
  <2>4. CASE i - a \in 1 .. b /\ j \in 1 .. a
    BY <1>1, <2>4
  <2> QED
    BY <1>5, <2>1, <2>2, <2>3, <2>4
<1>7. ItemsOf(all) = S \cup T
  <2>1. ASSUME NEW i \in 1 .. a + b PROVE all[i] \in S \cup T
    BY <1>1, <1>5
  <2>2. ASSUME NEW i \in 1 .. a PROVE s[i] \in ItemsOf(all)
    BY <1>2, <1>4 DEF ItemsOf
  <2>3. ASSUME NEW i \in 1 .. b PROVE t[i] \in ItemsOf(all)
    <3>1. all[a + i] = t[i] /\ a + i \in 1 .. Len(all)
      BY <1>2, <1>4
    <3> QED
      BY <3>1 DEF ItemsOf
  <2>4. ItemsOf(all) \subseteq S \cup T
    <3> HIDE DEF all
    <3> QED
      BY ONLY <1>2, <2>1 DEF ItemsOf
  <2>5. S \subseteq ItemsOf(all) /\ T \subseteq ItemsOf(all)
    <3> HIDE DEF all
    <3> QED
      BY ONLY <1>1, <2>2, <2>3
  <2> QED
    BY ONLY <2>4, <2>5
<1> QED
  BY <1>2, <1>6, <1>7 DEF Lists, all

\* The largest items of a list, listed, begin it.
LEMMA LargestBegin ==
  ASSUME NEW s, NEW S, Lists(s, S), NEW t, NEW T, Lists(t, T), NEW b \in Nat, S = {x \in T : x >= b}
  PROVE  IsPrefix(s, t)
<1>1. /\ s \in Seq(Nat) /\ Falls(s) /\ S = {s[i] : i \in 1 .. Len(s)} /\ Len(s) \in Nat
      /\ t \in Seq(Nat) /\ Falls(t) /\ T = {t[i] : i \in 1 .. Len(t)} /\ Len(t) \in Nat
      /\ (\A i \in 1 .. Len(s) : s[i] \in Nat) /\ (\A i \in 1 .. Len(t) : t[i] \in Nat)
  BY DEF Lists, ItemsOf
<1> DEFINE Differ == {n \in 1 .. Len(s) : ~(n <= Len(t) /\ s[n] = t[n])}
<1>2. ASSUME NEW m \in Differ, \A k \in Differ : m <= k
      PROVE  FALSE
  <2>1. m \in 1 .. Len(s) /\ m \in Nat /\ ~(m <= Len(t) /\ s[m] = t[m])
    BY <1>1
  <2>2. ASSUME NEW l \in 1 .. m - 1
        PROVE  l \in 1 .. Len(s) /\ l \in 1 .. Len(t) /\ l < m /\ s[l] = t[l]
    <3>1. l \in 1 .. Len(s) /\ l < m /\ ~(m <= l)
      BY <1>1, <2>1
    <3>2. l \notin Differ
      BY <1>2, <3>1
    <3> HIDE DEF Differ
    <3>3. l <= Len(t) /\ s[l] = t[l]
      BY <3>1, <3>2 DEF Differ
    <3> QED
      BY <1>1, <3>1, <3>3
  <2> HIDE DEF Differ
  <2>3. PICK k \in 1 .. Len(t) : t[k] = s[m]
    BY <1>1, <2>1
  <2>4. ~(k < m)
    <3> SUFFICES ASSUME k < m PROVE FALSE
      OBVIOUS
    <3>1. k \in 1 .. m - 1
      BY <1>1, <2>1
    <3>2. s[k] = t[k] /\ k \in 1 .. Len(s)
      BY <2>2, <3>1
    <3>3. s[k] > s[m]
      BY <1>1, <2>1, <3>2 DEF Falls
    <3> QED
      BY <1>1, <2>1, <2>3, <3>2, <3>3
  <2>5. m \in 1 .. Len(t) /\ m # k /\ m < k
    <3>1. m \in 1 .. Len(t)
      BY <1>1, <2>1, <2>3, <2>4
    <3>2. m # k
      BY <1>1, <2>1, <2>3
    <3> QED
      BY <1>1, <2>1, <2>4, <3>1, <3>2
  <2>6. t[m] > s[m] /\ t[m] \in T /\ t[m] >= b
    <3>1. t[m] > t[k]
      BY <1>1, <2>5 DEF Falls
    <3>2. s[m] \in S
      BY <1>1, <2>1
    <3>3. t[m] \in T /\ t[m] \in Nat /\ s[m] \in Nat /\ s[m] >= b
      <4>1. t[m] \in T /\ t[m] \in Nat /\ s[m] \in Nat
        BY ONLY <1>1, <2>1, <2>5
      <4> QED
        BY <3>2, <4>1
    <3> QED
      BY ONLY <2>3, <3>1, <3>3, b \in Nat
  <2>7. PICK l \in 1 .. Len(s) : s[l] = t[m]
    BY <1>1, <2>6
  <2>8. CASE l < m
    <3>1. l \in 1 .. m - 1
      BY <1>1, <2>1, <2>8
    <3>2. s[l] = t[l] /\ l \in 1 .. Len(t)
      BY <2>2, <3>1
    <3>3. t[l] > t[m]
      BY <1>1, <2>5, <2>8, <3>2 DEF Falls
    <3> QED
      BY <1>1, <2>5, <2>7, <3>2, <3>3
  <2>9. CASE l = m
    <3>1. s[m] = t[m] /\ s[m] \in Nat /\ t[m] > s[m]
      BY ONLY <1>1, <2>1, <2>6, <2>7, <2>9
    <3> QED
      BY ONLY <3>1
  <2>10. CASE l > m
    <3>1. s[m] > s[l]
      BY <1>1, <2>1, <2>10 DEF Falls
    <3>2. s[m] \in Nat /\ s[l] \in Nat /\ t[m] = s[l] /\ t[m] > s[m]
      BY ONLY <1>1, <2>1, <2>6, <2>7
    <3> QED
      BY ONLY <3>1, <3>2
  <2> QED
    BY <1>1, <2>1, <2>8, <2>9, <2>10
<1>3. Differ = {}
  <2> SUFFICES ASSUME Differ # {} PROVE FALSE
    OBVIOUS
  <2>1. Differ \in SUBSET Nat
    BY <1>1
  <2> HIDE DEF Differ
  <2>2. PICK m \in Differ : \A k \in Differ : m <= k
    BY <2>1, LeastIsThere
  <2> QED
    BY <1>2, <2>2
<1>4. \A n \in 1 .. Len(s) : n <= Len(t) /\ s[n] = t[n]
  BY <1>3
<1>5. Len(s) <= Len(t)
  <2>1. CASE Len(s) = 0
    BY <1>1, <2>1
  <2>2. CASE Len(s) # 0
    <3>1. Len(s) \in 1 .. Len(s)
      BY <1>1, <2>2
    <3> QED
      BY <1>4, <3>1
  <2> QED
    BY <2>1, <2>2
<1>6. SubSeq(s, 1, Len(s)) = s
  BY <1>1, SubSeqFull
<1>7. SubSeq(t, 1, Len(s)) = s
  <2> DEFINE u == SubSeq(t, 1, Len(s))
  <2>1. /\ u \in Seq(Nat) /\ Len(u) = IF 1 <= Len(s) THEN Len(s) - 1 + 1 ELSE 0
        /\ \A i \in 1 .. Len(s) - 1 + 1 : u[i] = t[1 + i - 1]
    <3>1. \A i \in 1 .. Len(s) : t[i] \in Nat
      BY <1>1, <1>5
    <3> QED
      BY <1>1, <3>1, SubSeqProperties
  <2> HIDE DEF u
  <2>2. Len(u) = Len(s)
    BY <1>1, <2>1
  <2>3. \A i \in 1 .. Len(s) : u[i] = s[i]
    <3> TAKE i \in 1 .. Len(s)
    <3>1. i \in 1 .. Len(s) - 1 + 1 /\ 1 + i - 1 = i
      BY <1>1
    <3> QED
      BY <1>4, <2>1, <3>1
  <2>4. u = s
    BY <1>1, <2>1, <2>2, <2>3, SeqEqual
  <2> QED
    BY <2>4 DEF u
<1> QED
  BY <1>5, <1>6, <1>7 DEF IsPrefix

\* A set is listed in one way only.
LEMMA ListedOnce ==
  ASSUME NEW s, NEW t, NEW S, Lists(s, S), Lists(t, S)
  PROVE  s = t
<1>1. S = {x \in S : x >= 0} /\ 0 \in Nat
  <2>1. \A x \in S : x \in Nat
    BY DEF Lists, ItemsOf
  <2> QED
    BY <2>1
<1>2. IsPrefix(s, t) /\ IsPrefix(t, s)
  BY <1>1, LargestBegin
<1>3. s \in Seq(Nat) /\ t \in Seq(Nat) /\ Len(s) \in Nat /\ Len(t) \in Nat
  BY DEF Lists
<1>4. Len(s) = Len(t)
  BY <1>2, <1>3 DEF IsPrefix
<1>5. SubSeq(s, 1, Len(s)) = s /\ SubSeq(t, 1, Len(t)) = t
  BY <1>3, SubSeqFull
<1> QED
  BY <1>2, <1>4, <1>5 DEF IsPrefix

\* What a command wants of a list is listed in the same order.
LEMMA WantedIsKept ==
  ASSUME NEW S, NEW items \in Seq(S), NEW keep
  PROVE  \E f : KeepsPlaces(items, {i \in DOMAIN items : items[i] \in keep}, f, Len(items)) /\ Wanted(items, keep) = f[Len(items)]
<1> DEFINE places == {i \in DOMAIN items : items[i] \in keep}
           f == CHOOSE g : KeepsPlaces(items, places, g, Len(items))
<1>1. Len(items) \in Nat
  OBVIOUS
<1>2. KeepsPlaces(items, places, f, Len(items))
  BY <1>1, KeepsExists
<1>3. Wanted(items, keep) = f[Len(items)]
  BY DEF Wanted, KeepsPlaces
<1> QED
  BY <1>2, <1>3

\* What a command wants of a list, in the same order.
LEMMA WantedLists ==
  ASSUME NEW items, NEW set, Lists(items, set), NEW keep
  PROVE  Lists(Wanted(items, keep), set \cap keep)
<1> DEFINE N == Len(items)
           places == {i \in DOMAIN items : items[i] \in keep}
<1>1. /\ items \in Seq(Nat) /\ Falls(items) /\ set = {items[i] : i \in 1 .. N} /\ N \in Nat /\ DOMAIN items = 1 .. N
      /\ \A i \in 1 .. N : items[i] \in Nat
  BY DEF Lists, ItemsOf
<1>2. PICK f : KeepsPlaces(items, places, f, N) /\ Wanted(items, keep) = f[N]
  BY <1>1, WantedIsKept
<1>3. /\ f[N] \in Seq(Nat)
      /\ \A k \in 1 .. Len(f[N]) : \E i \in 1 .. N : i \in places /\ f[N][k] = items[i]
      /\ \A i \in 1 .. N : i \in places => \E k \in 1 .. Len(f[N]) : f[N][k] = items[i]
  <2> HIDE DEF places
  <2>1. items \in Seq(Nat) /\ KeepsPlaces(items, places, f, Len(items))
    BY <1>1, <1>2
  <2> HIDE DEF N
  <2> QED
    BY <2>1, KeptAre DEF N
<1>4. ItemsOf(f[N]) = set \cap keep
  <2>1. ASSUME NEW x \in ItemsOf(f[N]) PROVE x \in set \cap keep
    <3>1. PICK k \in 1 .. Len(f[N]) : x = f[N][k]
      BY DEF ItemsOf
    <3>2. PICK i \in 1 .. N : i \in places /\ f[N][k] = items[i]
      BY <1>3
    <3> QED
      BY <1>1, <3>1, <3>2
  <2>2. ASSUME NEW x \in set \cap keep PROVE x \in ItemsOf(f[N])
    <3>1. PICK i \in 1 .. N : x = items[i]
      BY <1>1
    <3>2. i \in places
      BY <1>1, <3>1
    <3>3. PICK k \in 1 .. Len(f[N]) : f[N][k] = items[i]
      BY <1>3, <3>2
    <3> QED
      BY <3>1, <3>3 DEF ItemsOf
  <2> QED
    BY <2>1, <2>2
<1> DEFINE From(all, n) == \A k \in 1 .. Len(all) : \E i \in 1 .. n : all[k] = items[i]
           Good(n) == f[n] \in Seq(Nat) /\ From(f[n], n) /\ Falls(f[n])
           T == {n \in 0 .. N : ~Good(n)}
<1>5. \A n \in 0 .. N : f[n] = IF n = 0 THEN <<>> ELSE IF n \in places THEN Append(f[n - 1], items[n]) ELSE f[n - 1]
  BY <1>2 DEF KeepsPlaces
<1> HIDE DEF places
<1>6. ASSUME NEW m \in T, \A k \in T : m <= k
      PROVE  FALSE
  <2>1. m # 0
    <3>1. f[0] = <<>>
      BY <1>1, <1>5
    <3>2. Good(0)
      BY <3>1 DEF Falls
    <3> HIDE DEF Good
    <3> QED
      BY <1>6, <3>2
  <2>2. m \in 1 .. N /\ m - 1 \in 0 .. N /\ m \in Nat /\ ~Good(m) /\ Good(m - 1)
    <3>1. m \in 0 .. N /\ ~Good(m)
      OBVIOUS
    <3>2. m \in 1 .. N /\ m - 1 \in 0 .. N /\ m \in Nat /\ ~(m <= m - 1)
      BY ONLY <1>1, <2>1, <3>1
    <3>3. m - 1 \notin T
      BY <1>6, <3>2
    <3> HIDE DEF Good
    <3> QED
      BY <3>1, <3>2, <3>3
  <2> DEFINE before == f[m - 1]
             all    == f[m]
  <2>3. before \in Seq(Nat) /\ From(before, m - 1) /\ Falls(before)
    BY <2>2
  <2>4. all = IF m \in places THEN Append(before, items[m]) ELSE before
    BY <1>5, <2>1, <2>2
  <2>5. ~(all \in Seq(Nat) /\ From(all, m) /\ Falls(all))
    BY <2>2
  <2>6. \A i \in 1 .. m - 1 : i \in 1 .. m /\ i \in 1 .. N /\ i < m
    BY ONLY <1>1, <2>2
  <2> HIDE DEF before, all, T
  <2>7. CASE m \notin places
    BY <2>3, <2>4, <2>5, <2>6, <2>7
  <2>8. CASE m \in places
    <3> DEFINE added == items[m]
    <3>1. added \in Nat /\ all = Append(before, added)
      BY <1>1, <2>2, <2>4, <2>8
    <3>2. \A k \in 1 .. Len(before) : before[k] > added /\ \E i \in 1 .. m : before[k] = items[i]
      <4> TAKE k \in 1 .. Len(before)
      <4>1. PICK i \in 1 .. m - 1 : before[k] = items[i]
        BY <2>3
      <4>2. items[i] > items[m]
        BY <1>1, <2>2, <2>6 DEF Falls
      <4> QED
        BY <2>6, <4>1, <4>2
    <3>3. \E i \in 1 .. m : added = items[i]
      BY <2>2
    <3> HIDE DEF added
    <3>4. /\ all \in Seq(Nat) /\ Len(all) = Len(before) + 1 /\ Len(before) \in Nat
          /\ \A k \in 1 .. Len(before) : all[k] = before[k]
          /\ all[Len(before) + 1] = added
      BY <2>3, <3>1, AppendIs
    <3>5. \A k \in 1 .. Len(all) : (k \in 1 .. Len(before) /\ all[k] = before[k]) \/ (k = Len(before) + 1 /\ all[k] = added)
      BY <3>4
    <3>6. From(all, m)
      BY <3>2, <3>3, <3>5
    <3>7. Falls(all)
      <4> SUFFICES ASSUME NEW i \in 1 .. Len(all), NEW j \in 1 .. Len(all), i < j PROVE all[i] > all[j]
        BY DEF Falls
      <4>1. i \in 1 .. Len(before) /\ all[i] = before[i]
        BY <3>4, <3>5
      <4>2. CASE j \in 1 .. Len(before) /\ all[j] = before[j]
        BY <2>3, <4>1, <4>2 DEF Falls
      <4>3. CASE all[j] = added
        BY <3>2, <4>1, <4>3
      <4> QED
        BY <3>5, <4>2, <4>3
    <3> QED
      BY <2>5, <3>4, <3>6, <3>7
  <2> QED
    BY <2>7, <2>8
<1>7. T = {}
  <2> SUFFICES ASSUME T # {} PROVE FALSE
    OBVIOUS
  <2>1. T \in SUBSET Nat
    BY <1>1
  <2> HIDE DEF T
  <2>2. PICK m \in T : \A k \in T : m <= k
    BY <2>1, LeastIsThere
  <2> QED
    BY <1>6, <2>2
<1>8. Good(N)
  <2>1. N \in 0 .. N
    BY <1>1
  <2> HIDE DEF Good
  <2> QED
    BY <1>7, <2>1
<1> QED
  BY <1>2, <1>3, <1>4, <1>8 DEF Lists

\* The items of a set, newest first, are a list.
LEMMA NewestLists ==
  ASSUME NEW set
  PROVE  Lists(Newest(set), Roots \cap set)
<1> DEFINE all == [n \in Roots |-> MaxRoots + 1 - n]
<1>1. MaxRoots \in Nat /\ Roots = 1 .. MaxRoots
  BY QueryAssumption DEF Roots
<1>2. all \in Seq(Nat) /\ Len(all) = MaxRoots /\ \A n \in 1 .. MaxRoots : all[n] = MaxRoots + 1 - n
  BY <1>1
<1>3. Falls(all)
  BY <1>1, <1>2 DEF Falls
<1>4. ItemsOf(all) = Roots
  <2>1. ASSUME NEW n \in 1 .. MaxRoots PROVE all[n] \in Roots /\ n = all[MaxRoots + 1 - n] /\ MaxRoots + 1 - n \in 1 .. Len(all)
    BY <1>1, <1>2
  <2> QED
    BY <1>1, <1>2, <2>1 DEF ItemsOf
<1>5. Lists(all, Roots)
  BY <1>2, <1>3, <1>4 DEF Lists
<1> HIDE DEF all
<1>6. Lists(Wanted(all, set), Roots \cap set)
  BY <1>5, WantedLists
<1> QED
  BY <1>6 DEF Newest, all

-----------------------------------------------------------------------------
(* The walk over pages: what a page adds to what was collected.            *)

HasRoom(walk) == walk.limit = 0 \/ Len(walk.out) < walk.limit

\* The largest of some numbers up to a bound.
LEMMA MaxFromZero ==
  ASSUME NEW n \in Nat, NEW S \in SUBSET (0 .. n), S # {}
  PROVE  Max(S) \in S /\ \A j \in S : Max(S) >= j
<1> DEFINE T == {n - i : i \in S}
<1>1. T \in SUBSET Nat /\ T # {}
  <2>1. \A i \in S : n - i \in Nat
    BY ONLY n \in Nat, S \subseteq 0 .. n
  <2> QED
    BY <2>1
<1>2. PICK m \in T : \A k \in T : m <= k
  <2> HIDE DEF T
  <2> QED
    BY <1>1, LeastIsThere
<1>3. PICK i \in S : m = n - i
  OBVIOUS
<1>4. \A j \in S : i >= j
  <2> TAKE j \in S
  <2>1. n - i <= n - j
    BY <1>2, <1>3
  <2>2. i \in Nat /\ j \in Nat
    OBVIOUS
  <2> QED
    BY ONLY <2>1, <2>2, n \in Nat
<1> QED
  BY <1>4 DEF Max

\* What AfterPage finds out: how many of the rest of a page it takes.
ShortOf(walk, rest, keep) ==
  {i \in 0 .. Len(rest) : walk.limit = 0 \/ Len(walk.out) + Cardinality({j \in 1 .. i : rest[j] \in keep}) < walk.limit}

TakesOfPage(walk, rest, keep) ==
  LET stop == Max(ShortOf(walk, rest, keep)) + 1
  IN  IF stop < Len(rest) THEN stop ELSE Len(rest)

\* A walk with room takes something of every page that has something.
LEMMA TakesSome ==
  ASSUME NEW walk, walk.limit \in Nat, walk.out \in Seq(Nat), HasRoom(walk), NEW rest \in Seq(Nat), NEW keep
  PROVE  LET k == TakesOfPage(walk, rest, keep)
             stop == Max(ShortOf(walk, rest, keep)) + 1
         IN  /\ k \in Nat /\ k <= Len(rest) /\ (k = 0 => Len(rest) = 0)
             /\ stop < Len(rest) <=> k < Len(rest)
             /\ k < Len(rest) => k = stop
             /\ walk.limit = 0 \/ Len(rest) <= walk.limit - Len(walk.out) => k = Len(rest)
<1> DEFINE L == Len(rest)
           A == Len(walk.out)
           m == walk.limit
           KeptOfFirst(i) == {j \in 1 .. i : rest[j] \in keep}
           short == {i \in 0 .. L : m = 0 \/ A + Cardinality(KeptOfFirst(i)) < m}
           k == TakesOfPage(walk, rest, keep)
<1>1. L \in Nat /\ A \in Nat /\ m \in Nat /\ (m = 0 \/ A < m)
  BY DEF HasRoom
<1>2. \A i \in 0 .. L : Cardinality(KeptOfFirst(i)) \in Nat /\ Cardinality(KeptOfFirst(i)) <= i
  <2> TAKE i \in 0 .. L
  <2>1. IsFiniteSet(1 .. i) /\ Cardinality(1 .. i) = i
    <3>1. i \in Nat /\ 1 \in Int /\ i \in Int
      BY <1>1
    <3>2. IsFiniteSet(1 .. i) /\ Cardinality(1 .. i) = IF 1 > i THEN 0 ELSE i - 1 + 1
      BY <3>1, FS_Interval
    <3> QED
      BY <3>1, <3>2
  <2>2. KeptOfFirst(i) \in SUBSET (1 .. i)
    OBVIOUS
  <2> HIDE DEF KeptOfFirst
  <2>3. IsFiniteSet(KeptOfFirst(i)) /\ Cardinality(KeptOfFirst(i)) <= i
    BY <2>1, <2>2, FS_Subset
  <2> QED
    BY <2>3, FS_CardinalityType
<1> HIDE DEF KeptOfFirst
<1>3. 0 \in short /\ short \in SUBSET (0 .. L) /\ short # {}
  <2>1. Cardinality(KeptOfFirst(0)) = 0
    BY <1>1, <1>2
  <2> QED
    BY <1>1, <2>1
<1>4. Max(short) \in 0 .. L /\ \A j \in short : Max(short) >= j
  <2> HIDE DEF short
  <2> QED
    BY <1>1, <1>3, MaxFromZero
<1>5. k = IF Max(short) + 1 < L THEN Max(short) + 1 ELSE L
  BY DEF TakesOfPage, ShortOf, KeptOfFirst
<1> DEFINE top == Max(short)
<1>6. ASSUME m = 0 \/ L <= m - A
      PROVE  ~(top + 1 < L)
  <2> SUFFICES ASSUME top + 1 < L PROVE FALSE
    OBVIOUS
  <2>1. L - 1 \in 0 .. L /\ L - 1 < L /\ L - 1 \in Nat
    BY <1>1, <1>4
  <2>2. L - 1 \in short
    <3>1. CASE m = 0
      BY <2>1, <3>1
    <3>2. CASE L <= m - A
      <4>1. Cardinality(KeptOfFirst(L - 1)) \in Nat /\ Cardinality(KeptOfFirst(L - 1)) <= L - 1
        BY <1>2, <2>1
      <4>2. A + Cardinality(KeptOfFirst(L - 1)) < m
        BY <1>1, <2>1, <3>2, <4>1
      <4> QED
        BY <2>1, <4>2
    <3> QED
      BY <1>6, <3>1, <3>2
  <2> HIDE DEF short
  <2>3. top >= L - 1
    BY <1>4, <2>2
  <2> QED
    BY <1>1, <1>4, <2>1, <2>3
<1> HIDE DEF top, k
<1>7. top \in Nat /\ top <= L /\ k = IF top + 1 < L THEN top + 1 ELSE L
  BY <1>1, <1>4, <1>5 DEF top
<1>8. /\ k \in Nat /\ k <= L /\ (k = 0 => L = 0)
      /\ top + 1 < L <=> k < L
      /\ k < L => k = top + 1
      /\ m = 0 \/ L <= m - A => k = L
  BY <1>1, <1>6, <1>7
<1> QED
  BY <1>8 DEF top, k, KeptOfFirst, ShortOf

\* AfterPage, told by what it takes.
RestOfPage(walk, items) == SubSeq(items, walk.skip + 1, Len(items))

Onward(walk, next) == IF next = walk.place THEN Nowhere ELSE next

TakenPage(walk, items, next, keep) ==
  LET rest   == RestOfPage(walk, items)
      k      == TakesOfPage(walk, rest, keep)
      onward == Onward(walk, next)
  IN  [walk EXCEPT !.out = walk.out \o Wanted(SubSeq(rest, 1, k), keep), !.skip = 0, !.place = onward,
                   !.resume = IF k < Len(rest) THEN PageCursor(walk.place, walk.skip + k) ELSE PageCursor(onward, 0)]

\* AfterPage, told by how many items it takes.
LEMMA AfterPageIs ==
  ASSUME NEW walk, walk.limit \in Nat, walk.skip \in Nat, walk.out \in Seq(Nat), HasRoom(walk),
         NEW items \in Seq(Nat), NEW next, NEW keep
  PROVE  AfterPage(walk, items, next, keep) = TakenPage(walk, items, next, keep)
<1> DEFINE rest   == SubSeq(items, walk.skip + 1, Len(items))
           k      == TakesOfPage(walk, rest, keep)
           onward == IF next = walk.place THEN Nowhere ELSE next
           short  == {i \in 0 .. Len(rest) :
                        walk.limit = 0 \/ Len(walk.out) + Cardinality({j \in 1 .. i : rest[j] \in keep}) < walk.limit}
           within == Max(short) + 1 < Len(rest)
           stop   == Max(short) + 1
<1>1. rest \in Seq(Nat) /\ Len(rest) \in Nat
  <2>1. \A i \in walk.skip + 1 .. Len(items) : items[i] \in Nat
    OBVIOUS
  <2>2. rest \in Seq(Nat)
    <3>1. walk.skip + 1 \in Int /\ Len(items) \in Int
      OBVIOUS
    <3> QED
      BY <2>1, <3>1, SubSeqProperties
  <2> QED
    BY <2>2
<1>2. AfterPage(walk, items, next, keep) =
        [walk EXCEPT !.out = walk.out \o Wanted(IF within THEN SubSeq(rest, 1, stop) ELSE rest, keep), !.skip = 0, !.place = onward,
                     !.resume = IF within THEN PageCursor(walk.place, walk.skip + stop) ELSE PageCursor(onward, 0)]
  BY DEF AfterPage
<1> HIDE DEF rest
<1>3. k <= Len(rest) /\ k \in Nat /\ (within <=> k < Len(rest)) /\ (k < Len(rest) => k = stop)
  <2>1. short = ShortOf(walk, rest, keep)
    BY DEF ShortOf
  <2> HIDE DEF short
  <2> QED
    BY <1>1, <2>1, TakesSome
<1> HIDE DEF k, short, onward
<1>4. ~within => SubSeq(rest, 1, k) = rest
  <2> SUFFICES ASSUME ~within PROVE SubSeq(rest, 1, k) = rest
    OBVIOUS
  <2>1. k = Len(rest)
    BY <1>1, <1>3
  <2> QED
    BY <1>1, <2>1, SubSeqFull
<1>5. (IF within THEN SubSeq(rest, 1, stop) ELSE rest) = SubSeq(rest, 1, k)
  BY <1>3, <1>4
<1>6. (IF within THEN PageCursor(walk.place, walk.skip + stop) ELSE PageCursor(onward, 0))
        = IF k < Len(rest) THEN PageCursor(walk.place, walk.skip + k) ELSE PageCursor(onward, 0)
  BY <1>3
<1> QED
  BY <1>2, <1>5, <1>6 DEF TakenPage, RestOfPage, Onward, rest, k, onward

PageCursors == [place : Nat, skip : Nat]

Walks == [place : Nat, skip : Nat, limit : Nat, out : Seq(Nat), resume : PageCursors]

\* A page is the beginning of what is left, no longer than asked for.
LEMMA PagesAre ==
  ASSUME NEW list \in Seq(Nat), NEW size \in Nat \ {0}, NEW page \in PagesOf(list, size)
  PROVE  \E n \in 0 .. Len(list) :
           /\ n <= size /\ page.items = SubSeq(list, 1, n) /\ Len(page.items) = n
           /\ (page.next = Nowhere /\ n = Len(list)) \/ (n >= 1 /\ page.next = list[n])
<1> DEFINE L == Len(list)
           k == Min({size, L})
<1>1. L \in Nat /\ size \in Nat
  OBVIOUS
<1>2. k = IF size <= L THEN size ELSE L
  BY <1>1, MinOfTwo
<1>3. ASSUME NEW n \in 0 .. L
      PROVE  Len(SubSeq(list, 1, n)) = n
  <2>1. \A i \in 1 .. n : list[i] \in Nat
    BY <1>1
  <2>2. Len(SubSeq(list, 1, n)) = IF 1 <= n THEN n - 1 + 1 ELSE 0
    <3>1. 1 \in Int /\ n \in Int
      BY <1>1
    <3> QED
      BY <2>1, <3>1, SubSeqProperties
  <2> QED
    BY <1>1, <2>2
<1>4. SubSeq(list, 1, L) = list
  BY SubSeqFull
<1> HIDE DEF k
<1>5. CASE list = <<>>
  <2>1. page = [items |-> list, next |-> Nowhere] /\ L = 0
    BY <1>5 DEF PagesOf
  <2> QED
    BY <1>1, <1>4, <2>1
<1>6. CASE list # <<>>
  <2>1. \/ \E n \in 1 .. k : page = [items |-> SubSeq(list, 1, n), next |-> list[n]]
        \/ k = L /\ page = [items |-> list, next |-> Nowhere]
    BY <1>6 DEF PagesOf, k
  <2>2. ASSUME NEW n \in 1 .. k, page = [items |-> SubSeq(list, 1, n), next |-> list[n]]
        PROVE  n \in 0 .. L /\ n <= size /\ n >= 1 /\ page.items = SubSeq(list, 1, n) /\ page.next = list[n]
    BY <1>1, <1>2, <2>2
  <2>3. ASSUME k = L, page = [items |-> list, next |-> Nowhere]
        PROVE  L \in 0 .. L /\ L <= size /\ page.items = SubSeq(list, 1, L) /\ page.next = Nowhere
    <3>1. page.items = list /\ page.next = Nowhere
      BY <2>3
    <3>2. SubSeq(list, 1, L) = page.items
      BY <1>4, <3>1
    <3>3. L \in 0 .. L /\ L <= size
      BY <1>1, <1>2, <2>3
    <3> QED
      BY <3>1, <3>2, <3>3
  <2> QED
    BY <1>3, <2>1, <2>2, <2>3
<1> QED
  BY <1>5, <1>6

\* The walk after a page, of which it took k items of the rest.
TookPage(walk, items, next, keep, after, k) ==
  LET rest == RestOfPage(walk, items)
  IN  /\ after.out = walk.out \o Wanted(SubSeq(rest, 1, k), keep)
      /\ after.skip = 0 /\ after.limit = walk.limit /\ after.place = Onward(walk, next)
      /\ after.resume = IF k < Len(rest) THEN PageCursor(walk.place, walk.skip + k) ELSE PageCursor(Onward(walk, next), 0)
      /\ rest \in Seq(Nat) /\ k \in 0 .. Len(rest) /\ (k = 0 => Len(rest) = 0)
      /\ walk.limit = 0 \/ Len(rest) <= walk.limit - Len(walk.out) => k = Len(rest)
      /\ after = [place |-> after.place, skip |-> after.skip, limit |-> after.limit, out |-> after.out, resume |-> after.resume]

\* The fields of a walk after a page.
LEMMA AfterPageFields ==
  ASSUME NEW walk \in Walks, HasRoom(walk), NEW items \in Seq(Nat), NEW next \in Nat, NEW keep
  PROVE  TookPage(walk, items, next, keep, AfterPage(walk, items, next, keep), TakesOfPage(walk, RestOfPage(walk, items), keep))
<1> DEFINE rest   == RestOfPage(walk, items)
           k      == TakesOfPage(walk, rest, keep)
           after  == AfterPage(walk, items, next, keep)
           onward == Onward(walk, next)
           added  == Wanted(SubSeq(rest, 1, k), keep)
           then   == IF k < Len(rest) THEN PageCursor(walk.place, walk.skip + k) ELSE PageCursor(onward, 0)
<1>1. walk.limit \in Nat /\ walk.skip \in Nat /\ walk.out \in Seq(Nat)
  BY DEF Walks
<1>2. rest \in Seq(Nat)
  <2>1. \A i \in walk.skip + 1 .. Len(items) : items[i] \in Nat
    BY <1>1
  <2>2. walk.skip + 1 \in Int /\ Len(items) \in Int
    BY <1>1
  <2>3. SubSeq(items, walk.skip + 1, Len(items)) \in Seq(Nat)
    BY <2>1, <2>2, SubSeqProperties
  <2> QED
    BY <2>3 DEF RestOfPage, rest
<1> HIDE DEF rest, after
<1>3. after = [walk EXCEPT !.out = walk.out \o added, !.skip = 0, !.place = onward, !.resume = then]
  <2>1. AfterPage(walk, items, next, keep) = TakenPage(walk, items, next, keep)
    BY <1>1, AfterPageIs
  <2> QED
    BY <2>1 DEF TakenPage, after, rest
<1>4. /\ k \in Nat /\ k <= Len(rest) /\ (k = 0 => Len(rest) = 0)
      /\ walk.limit = 0 \/ Len(rest) <= walk.limit - Len(walk.out) => k = Len(rest)
  BY <1>1, <1>2, TakesSome
<1>5. k \in 0 .. Len(rest)
  BY <1>2, <1>4
<1> HIDE DEF onward, then, added, k
<1>6. /\ after.out = walk.out \o added /\ after.skip = 0 /\ after.limit = walk.limit /\ after.place = onward /\ after.resume = then
      /\ after = [place |-> after.place, skip |-> after.skip, limit |-> after.limit, out |-> after.out, resume |-> after.resume]
  BY <1>3 DEF Walks
<1> QED
  BY <1>2, <1>4, <1>5, <1>6 DEF TookPage, onward, added, then, k, rest, after

\* Sequences are joined in any order.
LEMMA ConcatTwice ==
  ASSUME NEW a \in Seq(Nat), NEW b \in Seq(Nat), NEW c \in Seq(Nat)
  PROVE  a \o (b \o c) = (a \o b) \o c
<1>1. a \in Seq(Nat) /\ b \in Seq(Nat) /\ c \in Seq(Nat) /\ a \o b \in Seq(Nat) /\ b \o c \in Seq(Nat)
  BY ConcatIs
<1> DEFINE l == a \o (b \o c)
           r == (a \o b) \o c
<1>2. /\ l \in Seq(Nat) /\ Len(l) = Len(a) + Len(b \o c) /\ Len(b \o c) = Len(b) + Len(c)
      /\ r \in Seq(Nat) /\ Len(r) = Len(a \o b) + Len(c) /\ Len(a \o b) = Len(a) + Len(b)
      /\ Len(a) \in Nat /\ Len(b) \in Nat /\ Len(c) \in Nat
  BY <1>1, ConcatIs
<1>3. ASSUME NEW i \in 1 .. Len(l)
      PROVE  l[i] = r[i]
  <2>1. CASE i \in 1 .. Len(a)
    <3>1. i \in 1 .. Len(a \o b)
      BY <1>2, <2>1
    <3>2. l[i] = a[i] /\ (a \o b)[i] = a[i] /\ r[i] = (a \o b)[i]
      BY <1>1, <2>1, <3>1, ConcatIs
    <3> QED
      BY <3>2
  <2>2. CASE i \in Len(a) + 1 .. Len(a) + Len(b)
    <3> DEFINE j == i - Len(a)
    <3>1. i \in 1 .. Len(a \o b) /\ j \in 1 .. Len(b) /\ j \in 1 .. Len(b \o c) /\ i = Len(a) + j
      BY <1>2, <2>2
    <3> HIDE DEF j
    <3>2. l[Len(a) + j] = (b \o c)[j] /\ (b \o c)[j] = b[j] /\ (a \o b)[Len(a) + j] = b[j] /\ r[i] = (a \o b)[i]
      BY <1>1, <3>1, ConcatIs
    <3> QED
      BY <3>1, <3>2
  <2>3. CASE i \in Len(a) + Len(b) + 1 .. Len(a) + Len(b) + Len(c)
    <3> DEFINE k == i - Len(a) - Len(b)
    <3>1. k \in 1 .. Len(c) /\ Len(b) + k \in 1 .. Len(b \o c) /\ i = Len(a) + (Len(b) + k) /\ i = Len(a \o b) + k
      BY <1>2, <2>3
    <3> HIDE DEF k
    <3>2. l[Len(a) + (Len(b) + k)] = (b \o c)[Len(b) + k] /\ (b \o c)[Len(b) + k] = c[k] /\ r[Len(a \o b) + k] = c[k]
      BY <1>1, <3>1, ConcatIs
    <3> QED
      BY <3>1, <3>2
  <2>4. i \in 1 .. Len(a) \/ i \in Len(a) + 1 .. Len(a) + Len(b) \/ i \in Len(a) + Len(b) + 1 .. Len(a) + Len(b) + Len(c)
    <3> HIDE DEF l, r
    <3> QED
      BY ONLY <1>2, i \in 1 .. Len(l)
  <2> QED
    BY ONLY <2>1, <2>2, <2>3, <2>4
<1> HIDE DEF l, r
<1>4. Len(l) = Len(r)
  BY <1>2
<1>5. l = r
  BY <1>2, <1>3, <1>4, SeqEqual
<1> QED
  BY <1>5 DEF l, r

\* The items from a place on, which the newest are, and those that are older.
AtLeast(set, b) == {x \in set : x >= b}

Below(set, b) == {x \in set : x < b}

\* A page of what is left adds its items to what was collected.
PageAdded(walk, after, page, got, set, ahead, size) ==
  /\ after \in Walks /\ after.skip = 0 /\ after.limit = walk.limit /\ after.resume = PageCursor(after.place, 0)
  /\ page.next = Nowhere => after.place = Nowhere /\ Lists(got \o after.out, set)
  /\ page.next # Nowhere =>
       /\ page.next \in ahead /\ Lists(got \o after.out, AtLeast(set, page.next))
       /\ page.next # walk.place => after.place = page.next
  /\ page.items \in Seq(Nat) /\ Len(page.items) <= size /\ page.next \in Nat

\* A page adds the items wanted that are next, and the walk goes on behind them.
LEMMA PageAdds ==
  ASSUME NEW walk \in Walks, HasRoom(walk), walk.skip = 0, NEW got \in Seq(Nat), NEW set, NEW b \in Nat,
         Lists(got \o walk.out, AtLeast(set, b)),
         NEW list, NEW ahead, Lists(list, ahead), NEW keep, ahead \cap keep = Below(set, b), \A x \in ahead : x < b /\ x # Nowhere,
         NEW size \in Nat \ {0}, walk.limit = 0 \/ size <= walk.limit - Len(walk.out), NEW page \in PagesOf(list, size),
         set \subseteq Nat
  PROVE  PageAdded(walk, AfterPage(walk, page.items, page.next, keep), page, got, set, ahead, size)
<1> USE DEF AtLeast, Below
<1> DEFINE after == AfterPage(walk, page.items, page.next, keep)
           items == page.items
           next  == page.next
<1>1. list \in Seq(Nat) /\ Len(list) \in Nat /\ Falls(list) /\ ahead = ItemsOf(list) /\ \A n \in 1 .. Len(list) : list[n] \in ahead /\ list[n] \in Nat
  BY DEF Lists, ItemsOf
<1>2. walk.limit \in Nat /\ walk.out \in Seq(Nat) /\ walk.place \in Nat /\ Len(walk.out) \in Nat
  BY DEF Walks
<1>3. PICK n \in 0 .. Len(list) :
        /\ n <= size /\ items = SubSeq(list, 1, n) /\ Len(items) = n
        /\ (next = Nowhere /\ n = Len(list)) \/ (n >= 1 /\ next = list[n])
  BY <1>1, PagesAre
<1>4. Lists(items, {list[i] : i \in 1 .. n}) /\ items \in Seq(Nat) /\ n \in Nat
  <2>1. n \in Nat /\ n <= Len(list) /\ 1 \in Nat \ {0}
    BY <1>1
  <2>2. Lists(items, {list[i] : i \in 1 .. n})
    BY <1>1, <1>3, <2>1, PartLists
  <2> QED
    BY <2>1, <2>2 DEF Lists
<1>5. next \in Nat /\ (next # Nowhere => next \in ahead)
  BY <1>1, <1>3 DEF Nowhere
<1> HIDE DEF items, next
<1> DEFINE rest == RestOfPage(walk, items)
           k    == TakesOfPage(walk, rest, keep)
           onward == Onward(walk, next)
<1>6. rest = items
  <2>1. walk.skip + 1 = 1
    OBVIOUS
  <2> QED
    BY <1>4, <2>1, SubSeqFull DEF RestOfPage
<1>7. after = AfterPage(walk, items, next, keep)
  BY DEF items, next
<1> HIDE DEF rest, after
<1>8. /\ after.out = walk.out \o Wanted(SubSeq(rest, 1, k), keep)
      /\ after.skip = 0 /\ after.limit = walk.limit /\ after.place = onward
      /\ after.resume = IF k < Len(rest) THEN PageCursor(walk.place, walk.skip + k) ELSE PageCursor(onward, 0)
      /\ walk.limit = 0 \/ Len(rest) <= walk.limit - Len(walk.out) => k = Len(rest)
      /\ after = [place |-> after.place, skip |-> after.skip, limit |-> after.limit, out |-> after.out, resume |-> after.resume]
  <2>1. TookPage(walk, items, next, keep, AfterPage(walk, items, next, keep), TakesOfPage(walk, RestOfPage(walk, items), keep))
    BY <1>4, <1>5, AfterPageFields
  <2> QED
    BY <1>7, <2>1 DEF rest, TookPage
<1> HIDE DEF k
<1>9. k = n /\ Len(rest) = n
  BY <1>2, <1>3, <1>4, <1>6, <1>8
<1>10. SubSeq(rest, 1, k) = items
  BY <1>3, <1>4, <1>6, <1>9, SubSeqFull
<1>11. after.out = walk.out \o Wanted(items, keep) /\ after.resume = PageCursor(onward, 0)
  <2>1. ~(k < Len(rest))
    BY <1>4, <1>9
  <2> QED
    BY ONLY <1>8, <1>10, <2>1
<1>12. Lists(Wanted(items, keep), {list[i] : i \in 1 .. n} \cap keep)
  BY <1>4, WantedLists
<1>13. after \in Walks
  <2>1. after.out \in Seq(Nat)
    BY <1>2, <1>11, <1>12, ConcatIs DEF Lists
  <2>2. after.place \in Nat /\ after.resume \in PageCursors
    BY <1>5, <1>8, <1>11 DEF Onward, Nowhere, PageCursors, PageCursor
  <2> QED
    BY <1>2, <1>8, <2>1, <2>2 DEF Walks
<1>14. got \o after.out = (got \o walk.out) \o Wanted(items, keep)
  <2>1. Wanted(items, keep) \in Seq(Nat)
    BY <1>12 DEF Lists
  <2> DEFINE new == Wanted(items, keep)
  <2> HIDE DEF new
  <2>2. got \o (walk.out \o new) = (got \o walk.out) \o new
    BY <1>2, <2>1, ConcatTwice DEF new
  <2> QED
    BY <1>11, <2>2 DEF new
<1>15. \A x \in {x \in set : x >= b} : \A y \in ahead : x > y
  <2> SUFFICES ASSUME NEW x \in set, x >= b, NEW y \in ahead PROVE x > y
    OBVIOUS
  <2>1. x \in Nat /\ y \in Nat /\ y < b
    BY <1>1 DEF ItemsOf
  <2> QED
    BY <2>1
<1>16. {list[i] : i \in 1 .. n} \subseteq ahead
  BY <1>1, <1>3
<1>17. Lists(got \o after.out, {x \in set : x >= b} \cup ({list[i] : i \in 1 .. n} \cap keep))
  <2> DEFINE some == {list[i] : i \in 1 .. n} \cap keep
             done == {x \in set : x >= b}
  <2>1. \A x \in done : \A y \in some : x > y
    BY <1>15, <1>16
  <2>2. Lists(got \o walk.out, done) /\ Lists(Wanted(items, keep), some)
    BY <1>12
  <2> HIDE DEF some, done
  <2>3. Lists((got \o walk.out) \o Wanted(items, keep), done \cup some)
    BY <2>1, <2>2, JoinLists
  <2> QED
    BY <1>14, <2>3 DEF some, done
<1>18. ASSUME next = Nowhere
       PROVE  Lists(got \o after.out, set) /\ after.place = Nowhere
  <2>1. n = Len(list)
    <3>1. n >= 1 => n \in 1 .. Len(list)
      BY <1>1, <1>4
    <3> QED
      BY <1>1, <1>3, <1>18, <3>1
  <2>2. {list[i] : i \in 1 .. n} = ahead
    BY <1>1, <2>1 DEF ItemsOf
  <2>3. {x \in set : x >= b} \cup {x \in set : x < b} = set
    <3>1. \A x \in set : x >= b \/ x < b
      OBVIOUS
    <3> QED
      BY <3>1
  <2>4. onward = Nowhere
    BY <1>18 DEF Onward
  <2> QED
    BY <1>8, <1>17, <2>2, <2>3, <2>4
<1>19. ASSUME next # Nowhere
       PROVE  /\ next \in ahead /\ Lists(got \o after.out, {x \in set : x >= next})
              /\ next # walk.place => after.place = next
  <2>1. n \in 1 .. Len(list) /\ next = list[n]
    BY <1>1, <1>3, <1>4, <1>19
  <2>2. {list[i] : i \in 1 .. n} = {x \in ahead : x >= next} /\ next \in ahead /\ next \in Nat
    BY <2>1, FirstAreLargest
  <2>3. {x \in ahead : x >= next} \cap keep = {x \in set : x < b /\ x >= next}
    OBVIOUS
  <2>4. next < b
    BY <2>2
  <2>5. {x \in set : x >= b} \cup {x \in set : x < b /\ x >= next} = {x \in set : x >= next}
    <3>1. \A x \in set : (x >= b \/ x < b) /\ (x >= b => x >= next)
      BY <2>2, <2>4
    <3> QED
      BY <3>1
  <2>6. next # walk.place => onward = next
    BY DEF Onward
  <2> QED
    BY <1>8, <1>17, <2>2, <2>3, <2>5, <2>6
<1> QED
  <2>1. Len(items) <= size
    BY <1>3
  <2> QED
    BY <1>4, <1>5, <1>8, <1>11, <1>13, <1>18, <1>19, <2>1 DEF items, next, after, PageAdded

\* The items between two places.
Between(seq, m, n) == {seq[i] : i \in m .. n}

\* The places of a part, shifted.
Shifts(part, seq, o, k) == \A i \in 1 .. k : part[i] = seq[o + i]

\* A part lists what is at its shifted places.
LEMMA ShiftedItems ==
  ASSUME NEW part, NEW seq, NEW o \in Nat, NEW k \in Nat, Shifts(part, seq, o, k)
  PROVE  Between(part, 1, k) = Between(seq, o + 1, o + k)
<1> DEFINE m    == o + 1
           upto == o + k
<1>1. \A i \in 1 .. k : o + i \in o + 1 .. o + k
  OBVIOUS
<1>2. ASSUME NEW i \in o + 1 .. o + k PROVE i - o \in 1 .. k /\ part[i - o] = seq[i]
  <2>1. i - o \in 1 .. k /\ o + (i - o) = i
    OBVIOUS
  <2> QED
    BY <2>1 DEF Shifts
<1> HIDE DEF m, upto
<1>3. ASSUME NEW i \in 1 .. k PROVE part[i] \in {seq[j] : j \in m .. upto}
  <2>1. o + i \in m .. upto /\ part[i] = seq[o + i]
    BY <1>1 DEF Shifts, m, upto
  <2> QED
    BY ONLY <2>1
<1>4. ASSUME NEW i \in m .. upto PROVE seq[i] \in {part[j] : j \in 1 .. k}
  <2>1. i - o \in 1 .. k /\ seq[i] = part[i - o]
    BY <1>2 DEF m, upto
  <2> QED
    BY <2>1
<1>5. Between(part, 1, k) = Between(seq, m, upto)
  BY ONLY <1>3, <1>4 DEF Between
<1> QED
  BY <1>5 DEF m, upto

\* Places up to one are those up to another and those between.
LEMMA UptoPlace ==
  ASSUME NEW L \in Nat, NEW o \in Nat, NEW m \in Nat, m <= IF o <= L THEN L - o ELSE 0
  PROVE  o + m \in Nat /\ (m = 0 \/ o + m <= L)
OBVIOUS

\* The items after a place, and the first items.
IsTail(tail, seq, o) ==
  /\ tail \in Seq(Nat) /\ Falls(tail) /\ Len(tail) = (IF o <= Len(seq) THEN Len(seq) - o ELSE 0)
  /\ Lists(tail, Between(seq, o + 1, Len(seq))) /\ Shifts(tail, seq, o, Len(tail))

\* The end of a list lists what is there.
LEMMA TailLists ==
  ASSUME NEW seq \in Seq(Nat), Falls(seq), NEW o \in Nat
  PROVE  IsTail(SubSeq(seq, o + 1, Len(seq)), seq, o)
<1> DEFINE L == Len(seq)
           m == o + 1
           tail == SubSeq(seq, m, L)
<1>1. L \in Nat /\ L <= Len(seq) /\ m \in Nat \ {0}
  OBVIOUS
<1> HIDE DEF m
<1>2. LET part == SubSeq(seq, m, L)
      IN  /\ Lists(part, Between(seq, m, L))
          /\ Len(part) = IF m <= L THEN L - m + 1 ELSE 0
          /\ \A i \in 1 .. Len(part) : part[i] = seq[m + i - 1]
  BY <1>1, PartLists DEF Between
<1>3. tail = SubSeq(seq, m, L)
  OBVIOUS
<1> HIDE DEF tail
<1>4. /\ Lists(tail, Between(seq, m, L))
      /\ Len(tail) = IF m <= L THEN L - m + 1 ELSE 0
      /\ \A i \in 1 .. Len(tail) : tail[i] = seq[m + i - 1]
  BY ONLY <1>2, <1>3
<1>5. Len(tail) = (IF o <= L THEN L - o ELSE 0) /\ Len(tail) \in Nat
  BY ONLY <1>1, <1>4, o \in Nat DEF m
<1>6. \A i \in 1 .. Len(tail) : m + i - 1 = o + i
  BY ONLY <1>5, o \in Nat DEF m
<1> QED
  BY <1>4, <1>5, <1>6 DEF Lists, m, tail, IsTail, Shifts

\* So does the beginning.
LEMMA FrontLists ==
  ASSUME NEW seq \in Seq(Nat), Falls(seq), NEW n \in Nat, n <= Len(seq),
         NEW front, front = SubSeq(seq, 1, n)
  PROVE  Lists(front, Between(seq, 1, n)) /\ Len(front) = n /\ front \in Seq(Nat)
<1> DEFINE m == 1
<1>1. m \in Nat \ {0}
  OBVIOUS
<1> HIDE DEF m
<1>2. LET part == SubSeq(seq, m, n)
      IN  /\ Lists(part, Between(seq, m, n))
          /\ Len(part) = IF m <= n THEN n - m + 1 ELSE 0
          /\ \A i \in 1 .. Len(part) : part[i] = seq[m + i - 1]
  BY <1>1, PartLists DEF Between
<1>3. front = SubSeq(seq, m, n)
  BY DEF m
<1>4. Lists(front, Between(seq, m, n)) /\ Len(front) = IF m <= n THEN n - m + 1 ELSE 0
  BY ONLY <1>2, <1>3
<1>5. Len(front) = n
  BY ONLY <1>4, n \in Nat DEF m
<1> QED
  BY <1>4, <1>5 DEF Lists, m

\* The whole list at once, on a server that ignores the size of pages: the walk
\* skips what was printed of it.
LEMMA WholePage ==
  ASSUME NEW walk \in Walks, HasRoom(walk), walk.out = <<>>, walk.place = Nowhere, NEW got \in Seq(Nat), NEW keep,
         NEW items, NEW served, Lists(items, served), walk.skip <= Len(items),
         Lists(got, Between(items, 1, walk.skip) \cap keep)
  PROVE  LET after == AfterPage(walk, items, Nowhere, keep)
         IN  /\ after \in Walks /\ after.skip = 0 /\ after.limit = walk.limit /\ after.place = Nowhere
             /\ \/ after.resume = FirstCursor /\ Lists(got \o after.out, served \cap keep)
                \/ /\ after.limit # 0 /\ after.resume.place = Nowhere /\ after.resume.skip \in 1 .. Len(items)
                   /\ Lists(got \o after.out, Between(items, 1, after.resume.skip) \cap keep)
<1> DEFINE after == AfterPage(walk, items, Nowhere, keep)
           rest  == RestOfPage(walk, items)
           k     == TakesOfPage(walk, rest, keep)
           s     == walk.skip
           L     == Len(items)
           e     == s + k
<1>1. /\ items \in Seq(Nat) /\ L \in Nat /\ Falls(items) /\ served = Between(items, 1, L)
      /\ s \in Nat /\ s <= L /\ walk.limit \in Nat
  <2>1. items \in Seq(Nat) /\ Falls(items) /\ served = Between(items, 1, L)
    BY DEF Lists, ItemsOf, Between
  <2>2. s \in Nat /\ walk.limit \in Nat
    BY DEF Walks
  <2>3. L \in Nat
    BY <2>1
  <2> QED
    BY <2>1, <2>2, <2>3
<1>2. /\ after.out = walk.out \o Wanted(SubSeq(rest, 1, k), keep)
      /\ after.skip = 0 /\ after.limit = walk.limit /\ after.place = Onward(walk, Nowhere)
      /\ after.resume = IF k < Len(rest) THEN PageCursor(walk.place, s + k) ELSE PageCursor(Onward(walk, Nowhere), 0)
      /\ rest \in Seq(Nat) /\ k \in 0 .. Len(rest) /\ (k = 0 => Len(rest) = 0)
      /\ walk.limit = 0 => k = Len(rest)
      /\ after = [place |-> after.place, skip |-> after.skip, limit |-> after.limit, out |-> after.out, resume |-> after.resume]
  <2>1. Nowhere \in Nat
    BY DEF Nowhere
  <2>2. TookPage(walk, items, Nowhere, keep, AfterPage(walk, items, Nowhere, keep), TakesOfPage(walk, RestOfPage(walk, items), keep))
    BY <1>1, <2>1, AfterPageFields
  <2> QED
    BY <2>2 DEF TookPage
<1>3. Lists(rest, Between(items, s + 1, L)) /\ Len(rest) = L - s /\ Shifts(rest, items, s, Len(rest))
  <2>1. rest = SubSeq(items, s + 1, L)
    BY DEF RestOfPage
  <2>2. IsTail(SubSeq(items, s + 1, L), items, s)
    BY <1>1, TailLists
  <2> HIDE DEF rest
  <2> QED
    BY <1>1, <2>1, <2>2 DEF IsTail
<1> HIDE DEF rest, k, after
<1> DEFINE new == SubSeq(rest, 1, k)
<1>4. Lists(new, Between(rest, 1, k))
  <2>1. k \in Nat /\ k <= Len(rest) /\ Falls(rest)
    BY <1>1, <1>2, <1>3 DEF Lists
  <2> QED
    BY <1>2, <2>1, FrontLists
<1>5. Between(rest, 1, k) = Between(items, s + 1, e) /\ e \in s .. L
  <2>1. e \in s .. L /\ k \in Nat
    BY <1>1, <1>2, <1>3
  <2>2. \A i \in 1 .. k : i \in 1 .. Len(rest)
    BY <1>1, <1>2, <1>3
  <2>3. Shifts(rest, items, s, k)
    BY <1>3, <2>2 DEF Shifts
  <2> QED
    BY <1>1, <2>1, <2>3, ShiftedItems
<1> HIDE DEF new
<1>6. Lists(Wanted(new, keep), Between(items, s + 1, e) \cap keep)
  BY <1>4, <1>5, WantedLists
<1>7. got \o after.out = got \o Wanted(new, keep)
  BY <1>2, <1>6 DEF new, Lists
<1>8. Lists(got \o after.out, Between(items, 1, e) \cap keep)
  <2> DEFINE A == Between(items, 1, s) \cap keep
             B == Between(items, s + 1, e) \cap keep
  <2>1. \A i \in 1 .. s, j \in s + 1 .. e : items[i] > items[j]
    <3> TAKE i \in 1 .. s, j \in s + 1 .. e
    <3>1. i \in 1 .. L /\ j \in 1 .. L /\ i < j
      BY <1>1, <1>5
    <3> QED
      BY <1>1, <3>1 DEF Falls
  <2>2. \A x \in A : \A y \in B : x > y
    BY <2>1 DEF Between
  <2>3. A \cup B = Between(items, 1, e) \cap keep
    <3>1. \A i \in 1 .. e : i \in 1 .. s \/ i \in s + 1 .. e
      BY <1>1, <1>5
    <3>2. (\A i \in 1 .. s : i \in 1 .. e) /\ \A i \in s + 1 .. e : i \in 1 .. e
      BY <1>1, <1>5
    <3> HIDE DEF e
    <3> QED
      BY <3>1, <3>2 DEF Between
  <2>4. Lists(got, A) /\ Lists(Wanted(new, keep), B)
    BY <1>6
  <2> HIDE DEF A, B
  <2>5. Lists(got \o Wanted(new, keep), A \cup B)
    BY <2>2, <2>4, JoinLists
  <2> QED
    BY <1>7, <2>3, <2>5
<1>9. Onward(walk, Nowhere) = Nowhere
  BY DEF Onward
<1>10. after \in Walks
  <2>1. after.out \in Seq(Nat)
    <3>1. after.out = Wanted(new, keep)
      BY <1>2, <1>6 DEF new, Lists
    <3> QED
      BY <1>6, <3>1 DEF Lists
  <2>2. after.place \in Nat /\ after.resume \in PageCursors
    BY <1>1, <1>2, <1>9 DEF Nowhere, PageCursors, PageCursor
  <2> QED
    BY <1>1, <1>2, <2>1, <2>2 DEF Walks
<1>11. CASE k < Len(rest)
  <2>1. after.resume = PageCursor(Nowhere, e) /\ walk.limit # 0
    BY <1>1, <1>2, <1>11
  <2>2. after.resume.place = Nowhere /\ after.resume.skip = e
    BY <2>1 DEF PageCursor
  <2>3. e \in 1 .. L
    BY <1>1, <1>2, <1>3, <1>5, <1>11
  <2> QED
    BY <1>2, <1>8, <1>9, <1>10, <2>1, <2>2, <2>3 DEF after
<1>12. CASE ~(k < Len(rest))
  <2>1. e = L
    BY <1>1, <1>2, <1>3, <1>12
  <2>2. after.resume = FirstCursor
    BY <1>2, <1>9, <1>12 DEF FirstCursor
  <2> QED
    BY <1>1, <1>2, <1>8, <1>9, <1>10, <2>1, <2>2 DEF after
<1> QED
  BY <1>11, <1>12

\* A walk by offset took the items of a list between two places.
OffsetTook(all, s, after, limit, upto) ==
  /\ after \in Walks /\ after.skip = 0 /\ after.limit = limit
  /\ upto \in Nat /\ s <= upto /\ (upto = s \/ upto <= Len(all))
  /\ Lists(after.out, Between(all, s + 1, upto))

\* A page by offset, of a list that does not change.
LEMMA OffsetPage ==
  ASSUME NEW walk \in Walks, HasRoom(walk), walk.skip = 0, NEW keep, NEW all, NEW set, Lists(all, set), set \subseteq keep,
         NEW size \in Nat \ {0}, walk.limit = 0 \/ size <= walk.limit - Len(walk.out),
         NEW skipped \in Nat, NEW offset \in Nat, skipped <= offset, offset = skipped \/ offset <= Len(all),
         Lists(walk.out, Between(all, skipped + 1, offset)),
         NEW items, items = FirstOf(SubSeq(all, offset + 1, Len(all)), size), NEW next \in Nat
  PROVE  OffsetTook(all, skipped, AfterPage(walk, items, next, keep), walk.limit, offset + Len(items))
<1> DEFINE after == AfterPage(walk, items, next, keep)
           rest  == RestOfPage(walk, items)
           k     == TakesOfPage(walk, rest, keep)
           L     == Len(all)
           tail  == SubSeq(all, offset + 1, L)
           n     == Len(items)
           upto  == offset + n
<1>1. all \in Seq(Nat) /\ L \in Nat /\ Falls(all) /\ set = Between(all, 1, L) /\ walk.limit \in Nat /\ walk.out \in Seq(Nat)
  BY DEF Lists, ItemsOf, Walks, Between
<1>2. /\ Lists(tail, Between(all, offset + 1, L)) /\ Len(tail) = (IF offset <= L THEN L - offset ELSE 0)
      /\ Shifts(tail, all, offset, Len(tail))
  <2>1. IsTail(SubSeq(all, offset + 1, Len(all)), all, offset)
    BY <1>1, TailLists
  <2> QED
    BY <2>1 DEF IsTail
<1> HIDE DEF tail
<1>3. tail \in Seq(Nat) /\ Len(tail) \in Nat /\ Falls(tail)
  BY <1>2 DEF Lists
<1> DEFINE m == IF size <= Len(tail) THEN size ELSE Len(tail)
<1>4. items = SubSeq(tail, 1, m) /\ m \in Nat /\ m <= Len(tail) /\ m <= size
  <2>1. Min({size, Len(tail)}) = m
    BY <1>3, MinOfTwo
  <2>2. m \in Nat /\ m <= Len(tail) /\ m <= size
    BY <1>3
  <2> HIDE DEF m
  <2> QED
    BY <2>1, <2>2 DEF FirstOf, tail
<1> HIDE DEF m
<1>5. Lists(items, Between(tail, 1, m)) /\ n = m
  BY <1>3, <1>4, FrontLists
<1>6. items \in Seq(Nat) /\ n \in Nat
  BY <1>4, <1>5 DEF Lists
<1>7. Between(tail, 1, m) = Between(all, offset + 1, upto) /\ upto \in Nat /\ (n = 0 \/ upto <= L)
  <2>1. \A i \in 1 .. m : i \in 1 .. Len(tail)
    BY <1>3, <1>4
  <2>2. Shifts(tail, all, offset, m)
    BY <1>2, <2>1 DEF Shifts
  <2>3. upto = offset + m /\ upto \in Nat /\ (n = 0 \/ upto <= L)
    <3>1. m <= IF offset <= L THEN L - offset ELSE 0
      BY <1>2, <1>4
    <3>2. offset + m \in Nat /\ (m = 0 \/ offset + m <= L)
      BY ONLY <1>1, <1>4, <3>1, UptoPlace, offset \in Nat
    <3> QED
      BY <1>5, <3>2
  <2>4. Between(tail, 1, m) = Between(all, offset + 1, offset + m)
    BY <1>4, <2>2, ShiftedItems
  <2> HIDE DEF upto
  <2> QED
    BY <2>3, <2>4
<1>8. /\ after.out = walk.out \o Wanted(SubSeq(rest, 1, k), keep)
      /\ after.skip = 0 /\ after.limit = walk.limit /\ after.place = Onward(walk, next)
      /\ after.resume = IF k < Len(rest) THEN PageCursor(walk.place, walk.skip + k) ELSE PageCursor(Onward(walk, next), 0)
      /\ walk.limit = 0 \/ Len(rest) <= walk.limit - Len(walk.out) => k = Len(rest)
      /\ k \in 0 .. Len(rest)
      /\ after = [place |-> after.place, skip |-> after.skip, limit |-> after.limit, out |-> after.out, resume |-> after.resume]
  <2>1. TookPage(walk, items, next, keep, AfterPage(walk, items, next, keep), TakesOfPage(walk, RestOfPage(walk, items), keep))
    BY <1>6, AfterPageFields
  <2> QED
    BY <2>1 DEF TookPage
<1>9. rest = items
  <2>1. walk.skip + 1 = 1
    OBVIOUS
  <2> QED
    BY <1>6, <2>1, SubSeqFull DEF RestOfPage
<1> HIDE DEF rest, k, after
<1>10. k = n /\ SubSeq(rest, 1, k) = items
  <2>1. Len(walk.out) \in Nat
    BY <1>1
  <2>2. k = Len(rest)
    <3>1. Len(rest) <= size /\ Len(rest) \in Nat
      BY ONLY <1>4, <1>5, <1>6, <1>9
    <3>2. walk.limit = 0 \/ Len(rest) <= walk.limit - Len(walk.out)
      BY ONLY <1>1, <2>1, <3>1, walk.limit = 0 \/ size <= walk.limit - Len(walk.out), size \in Nat \ {0}
    <3> QED
      BY ONLY <1>8, <3>2
  <2> QED
    BY <1>6, <1>9, <2>2, SubSeqFull
<1>11. Between(all, offset + 1, upto) \subseteq keep
  <2>1. \A i \in offset + 1 .. upto : i \in 1 .. L
    BY <1>1, <1>6, <1>7
  <2> HIDE DEF upto
  <2> QED
    BY <1>1, <2>1 DEF Between
<1> DEFINE new == Between(all, offset + 1, upto)
           old == Between(all, skipped + 1, offset)
<1>12. Lists(items, new) /\ new \cap keep = new
  BY <1>5, <1>7, <1>11
<1>13. \A x \in old : \A y \in new : x > y
  <2>1. \A i \in skipped + 1 .. offset, j \in offset + 1 .. upto : all[i] > all[j]
    <3> TAKE i \in skipped + 1 .. offset, j \in offset + 1 .. upto
    <3>1. i \in 1 .. L /\ j \in 1 .. L /\ i < j
      <4>1. upto = offset + n /\ upto \in Nat /\ n \in Nat /\ L \in Nat /\ (n = 0 \/ upto <= L)
        BY <1>1, <1>6, <1>7
      <4> HIDE DEF upto, n, L
      <4>2. i \in Nat /\ j \in Nat /\ skipped < i /\ i <= offset /\ offset < j /\ j <= upto
        BY ONLY <4>1, i \in skipped + 1 .. offset, j \in offset + 1 .. upto, skipped \in Nat, offset \in Nat
      <4>3. i <= L /\ j <= L
        BY ONLY <4>1, <4>2, skipped \in Nat, offset \in Nat, offset = skipped \/ offset <= L
      <4> QED
        BY ONLY <4>2, <4>3, <4>1, skipped \in Nat
    <3> QED
      BY <1>1, <3>1 DEF Falls
  <2> HIDE DEF upto
  <2> QED
    BY <2>1 DEF Between
<1>14. old \cup new = Between(all, skipped + 1, upto)
  <2>1. \A i \in skipped + 1 .. upto : i \in skipped + 1 .. offset \/ i \in offset + 1 .. upto
    BY <1>6
  <2>2. (\A i \in skipped + 1 .. offset : i \in skipped + 1 .. upto) /\ \A i \in offset + 1 .. upto : i \in skipped + 1 .. upto
    BY <1>6
  <2> HIDE DEF upto
  <2> QED
    BY <2>1, <2>2 DEF Between
<1>15. Lists(walk.out, old)
  OBVIOUS
<1> HIDE DEF old, new
<1>16. Wanted(items, keep) = items
  <2>1. Lists(Wanted(items, keep), new)
    <3>1. Lists(Wanted(items, keep), new \cap keep)
      BY <1>12, WantedLists
    <3> QED
      BY <1>12, <3>1
  <2> QED
    BY <1>12, <2>1, ListedOnce
<1>17. after.out = walk.out \o items
  BY <1>8, <1>10, <1>16
<1>18. Lists(after.out, old \cup new)
  BY <1>12, <1>13, <1>15, <1>17, JoinLists
<1>19. after \in Walks
  <2>1. after.out \in Seq(Nat)
    BY <1>18 DEF Lists
  <2>2. after.place \in Nat /\ after.resume \in PageCursors
    <3>1. Onward(walk, next) \in Nat /\ walk.place \in Nat /\ walk.skip + k \in Nat
      BY <1>6, <1>10 DEF Onward, Nowhere, Walks
    <3> QED
      BY <1>8, <3>1 DEF PageCursors, PageCursor
  <2> QED
    BY <1>1, <1>8, <2>1, <2>2 DEF Walks
<1>20. skipped <= upto /\ (upto = skipped \/ upto <= L)
  <2>1. n \in Nat /\ upto = offset + n /\ L \in Nat /\ (n = 0 \/ upto <= L)
    BY <1>1, <1>6, <1>7
  <2> HIDE DEF n, upto, L
  <2>2. offset = skipped \/ offset <= L
    BY DEF L
  <2> QED
    BY ONLY <2>1, <2>2, skipped \in Nat, offset \in Nat, skipped <= offset
<1> QED
  BY <1>6, <1>7, <1>8, <1>14, <1>18, <1>19, <1>20 DEF after, OffsetTook

-----------------------------------------------------------------------------
(* What is asked, and what of it a cursor says has been printed, told of a *)
(* deployment, the kinds of the traces and how many of them there are.     *)

EndpointOf(d, in) ==
  IF in.cmd \in HubCommands THEN "hub"
  ELSE IF d = "v1" THEN "v1"
  ELSE IF in.cmd \in {"run list", "run export", "thread list", "thread get"} \/ (in.cmd = "trace list" /\ in.window /\ d # "v2")
  THEN "runs" ELSE "traces"

OfRuns(in) == in.cmd \in {"run list", "run export"}

WholeOf(d, in) == in.lookup /\ EndpointOf(d, in) = "v1"

TokensOf(d, k, in, root) == IF EndpointOf(d, in) = "runs" \/ OfRuns(in) THEN k[root].own ELSE k[root].total

ServedTo(d, k, in, r) ==
  {root \in 1 .. r : /\ in.min /\ EndpointOf(d, in) # "v1" => TokensOf(d, k, in, root)
                     /\ in.window => k[root].fed
                     /\ in.cmd = "thread get" => k[root].thread = AThread}

KeptOf(d, k, in) ==
  IF in.min /\ EndpointOf(d, in) = "v1" THEN {root \in Roots : TokensOf(d, k, in, root)} ELSE Roots

AskedOf(k, in, n) ==
  {root \in 1 .. n : /\ in.min => IF OfRuns(in) THEN k[root].own ELSE k[root].total
                     /\ in.window => k[root].fed
                     /\ in.cmd = "thread get" => k[root].thread = AThread}

\* The list a query answers as it was asked, which only the runs query with a
\* bound on tokens would not: it is never used so.
Answerable(d, in) ==
  /\ in.min /\ EndpointOf(d, in) = "runs" => OfRuns(in)
  /\ in.cmd \in HubCommands <=> d \in OfHub

\* Filters of the server and of the command together are those asked for.
LEMMA FiltersAgree ==
  ASSUME NEW d, NEW k, NEW in, NEW n \in Nat, NEW r \in Nat, n <= r, r <= MaxRoots, Answerable(d, in)
  PROVE  /\ AskedOf(k, in, n) \subseteq 1 .. n /\ ServedTo(d, k, in, r) \subseteq 1 .. r
         /\ AskedOf(k, in, n) \subseteq Roots /\ ServedTo(d, k, in, r) \subseteq Roots
         /\ \A x \in 1 .. n : x \in AskedOf(k, in, n) <=> x \in ServedTo(d, k, in, r) \cap KeptOf(d, k, in)
<1>1. MaxRoots \in Nat /\ Roots = 1 .. MaxRoots
  BY QueryAssumption DEF Roots
<1>2. AskedOf(k, in, n) \subseteq 1 .. n /\ ServedTo(d, k, in, r) \subseteq 1 .. r
  BY DEF AskedOf, ServedTo
<1>3. 1 .. n \subseteq Roots /\ 1 .. r \subseteq Roots /\ 1 .. n \subseteq 1 .. r
  BY <1>1
<1>4. ASSUME NEW x \in 1 .. n PROVE x \in AskedOf(k, in, n) <=> x \in ServedTo(d, k, in, r) \cap KeptOf(d, k, in)
  <2>1. x \in 1 .. r /\ x \in Roots
    BY <1>3
  <2> DEFINE Rest == (in.window => k[x].fed) /\ (in.cmd = "thread get" => k[x].thread = AThread)
             own  == k[x].own
             total == k[x].total
  <2>2. x \in AskedOf(k, in, n) <=> (in.min => IF OfRuns(in) THEN own ELSE total) /\ Rest
    BY DEF AskedOf
  <2>3. x \in ServedTo(d, k, in, r) <=> (in.min /\ EndpointOf(d, in) # "v1" => TokensOf(d, k, in, x)) /\ Rest
    BY <2>1 DEF ServedTo
  <2>4. x \in KeptOf(d, k, in) <=> (in.min /\ EndpointOf(d, in) = "v1" => TokensOf(d, k, in, x))
    BY <2>1 DEF KeptOf
  <2>5. in.min => TokensOf(d, k, in, x) = IF OfRuns(in) THEN own ELSE total
    BY DEF TokensOf, Answerable
  <2> HIDE DEF Rest, own, total
  <2> QED
    BY <2>2, <2>3, <2>4, <2>5
<1> QED
  BY <1>2, <1>3, <1>4

\* All that is asked for, without what an offset skips.
AllOf(k, in, n, s) ==
  LET list == Newest(AskedOf(k, in, n))
  IN  SubSeq(list, s + 1, Len(list))

MatchedOf(k, in, n, s) == ItemsOf(AllOf(k, in, n, s))

\* All that is asked for is listed, newest first; an offset skips the newest.
LEMMA AllAreListed ==
  ASSUME NEW k, NEW in, NEW n \in Nat, n <= MaxRoots, NEW s \in Nat
  PROVE  /\ Lists(Newest(AskedOf(k, in, n)), AskedOf(k, in, n)) /\ AskedOf(k, in, n) \subseteq 1 .. n
         /\ Lists(AllOf(k, in, n, s), MatchedOf(k, in, n, s))
         /\ IsTail(AllOf(k, in, n, s), Newest(AskedOf(k, in, n)), s)
         /\ MatchedOf(k, in, n, s) \subseteq AskedOf(k, in, n)
         /\ s = 0 => MatchedOf(k, in, n, s) = AskedOf(k, in, n)
         /\ \A x \in MatchedOf(k, in, n, s) : Below(MatchedOf(k, in, n, s), x) = Below(AskedOf(k, in, n), x)
<1> DEFINE asked == AskedOf(k, in, n)
           list  == Newest(asked)
           all   == AllOf(k, in, n, s)
           set   == MatchedOf(k, in, n, s)
           L     == Len(list)
<1>1. asked \subseteq 1 .. n /\ Roots \cap asked = asked
  <2>1. 1 .. n \subseteq Roots
    BY QueryAssumption DEF Roots
  <2> QED
    BY <2>1 DEF AskedOf
<1>2. all = SubSeq(list, s + 1, L) /\ set = ItemsOf(all)
  BY DEF AllOf, MatchedOf
<1> HIDE DEF asked
<1>3. Lists(list, asked)
  <2>1. Lists(list, Roots \cap asked)
    BY NewestLists
  <2> QED
    BY <1>1, <2>1
<1> HIDE DEF list, all, set
<1>4. list \in Seq(Nat) /\ Falls(list) /\ L \in Nat /\ asked = Between(list, 1, L) /\ \A i \in 1 .. L : list[i] \in Nat
  BY <1>3 DEF Lists, ItemsOf, Between
<1>5. IsTail(all, list, s)
  <2>1. IsTail(SubSeq(list, s + 1, Len(list)), list, s)
    BY <1>4, TailLists
  <2> QED
    BY <1>2, <2>1
<1>6. Lists(all, Between(list, s + 1, L))
  BY <1>5 DEF IsTail
<1>7. set = Between(list, s + 1, L)
  BY <1>2, <1>6 DEF Lists
<1>8. set \subseteq asked
  <2>1. \A i \in s + 1 .. L : i \in 1 .. L
    BY <1>4
  <2> QED
    BY <1>4, <1>7, <2>1 DEF Between
<1>9. s = 0 => set = asked
  <2>1. s = 0 => s + 1 = 1
    OBVIOUS
  <2> QED
    BY <1>4, <1>7, <2>1
<1>10. ASSUME NEW x \in set PROVE Below(set, x) = Below(asked, x)
  <2>1. PICK j \in s + 1 .. L : x = list[j]
    BY <1>7 DEF Between
  <2>2. j \in 1 .. L
    BY <1>4
  <2>3. {list[i] : i \in j + 1 .. L} = {y \in asked : y < list[j]}
    BY <1>3, <2>2, FirstAreLargest
  <2>4. \A i \in j + 1 .. L : i \in s + 1 .. L
    BY <1>4
  <2>5. {list[i] : i \in j + 1 .. L} \subseteq set
    BY <1>7, <2>4 DEF Between
  <2> QED
    BY <1>8, <2>1, <2>3, <2>5 DEF Below
<1> QED
  BY <1>1, <1>3, <1>5, <1>6, <1>7, <1>8, <1>9, <1>10 DEF asked, list, all, set

\* What was printed when a call prints a cursor: all if it prints none, what is
\* not older than the place of the cursor, or what the command wanted of the
\* first items of a whole list.
Printed(d, k, in, n, s, cursor, got) ==
  LET set    == MatchedOf(k, in, n, s)
      served == Newest(ServedTo(d, k, in, n))
  IN  \/ cursor = FirstCursor /\ Lists(got, set)
      \/ /\ cursor.place # Nowhere /\ cursor.skip = 0 /\ ~WholeOf(d, in)
         /\ Lists(got, AtLeast(set, cursor.place)) /\ cursor.place <= n
         /\ Below(set, cursor.place) = Below(AskedOf(k, in, n), cursor.place)
      \/ /\ WholeOf(d, in) /\ s = 0 /\ cursor.place = Nowhere /\ cursor.skip \in 1 .. Len(served)
         /\ Lists(got, Between(served, 1, cursor.skip) \cap KeptOf(d, k, in))

HasReached(d, k, in, n, s, cursor, got) ==
  got \in Seq(Nat) /\ cursor \in PageCursors /\ Printed(d, k, in, n, s, cursor, got)

\* What was printed begins what is asked for, and is all of it if no cursor was.
LEMMA ReachedIsExact ==
  ASSUME NEW d, NEW k, NEW in, NEW n \in Nat, n <= MaxRoots, NEW s \in Nat, NEW cursor, NEW got, Answerable(d, in),
         HasReached(d, k, in, n, s, cursor, got)
  PROVE  IsPrefix(got, AllOf(k, in, n, s)) /\ (cursor = FirstCursor => got = AllOf(k, in, n, s))
<1> DEFINE all == AllOf(k, in, n, s)
           set == MatchedOf(k, in, n, s)
           asked == AskedOf(k, in, n)
           serves == ServedTo(d, k, in, n)
           served == Newest(serves)
           keep == KeptOf(d, k, in)
<1>1. /\ Lists(all, set) /\ set \subseteq asked /\ asked \subseteq 1 .. n
      /\ s = 0 => set = asked
  BY AllAreListed
<1>2. all \in Seq(Nat) /\ \A x \in set : x \in Nat
  BY <1>1 DEF Lists, ItemsOf
<1>3. IsPrefix(all, all)
  <2>1. SubSeq(all, 1, Len(all)) = all
    BY <1>2, SubSeqFull
  <2> QED
    BY <1>2, <2>1 DEF IsPrefix
<1> HIDE DEF all, set, asked, serves, served, keep
<1>4. CASE cursor = FirstCursor /\ Lists(got, set)
  <2>1. got = all
    BY <1>1, <1>4, ListedOnce
  <2> QED
    BY <1>3, <2>1 DEF all
<1>5. CASE cursor.place # Nowhere /\ Lists(got, AtLeast(set, cursor.place))
  <2>1. cursor.place \in Nat /\ cursor # FirstCursor
    BY <1>5 DEF HasReached, PageCursors, FirstCursor, PageCursor
  <2>2. AtLeast(set, cursor.place) = {x \in set : x >= cursor.place}
    BY DEF AtLeast
  <2>3. IsPrefix(got, all)
    BY <1>1, <1>5, <2>1, <2>2, LargestBegin
  <2> QED
    BY <2>1, <2>3 DEF all
<1>6. CASE s = 0 /\ cursor.skip \in 1 .. Len(served) /\ Lists(got, Between(served, 1, cursor.skip) \cap keep)
  <2> DEFINE b == served[cursor.skip]
  <2>1. cursor # FirstCursor
    BY <1>6 DEF FirstCursor, PageCursor
  <2>2. /\ serves \subseteq 1 .. n /\ serves \subseteq Roots
        /\ \A x \in 1 .. n : x \in asked <=> x \in serves \cap keep
    <3>1. n <= n
      OBVIOUS
    <3> QED
      BY <3>1, FiltersAgree DEF asked, serves, keep
  <2>3. Lists(served, serves)
    <3>1. Lists(served, Roots \cap serves) /\ Roots \cap serves = serves
      BY <2>2, NewestLists DEF served
    <3> QED
      BY <3>1
  <2>4. b \in Nat /\ {served[i] : i \in 1 .. cursor.skip} = {x \in serves : x >= b}
    BY <1>6, <2>3, FirstAreLargest
  <2>5. Between(served, 1, cursor.skip) \cap keep = {x \in set : x >= b}
    <3>1. set = serves \cap keep
      BY <1>1, <1>6, <2>2
    <3>2. Between(served, 1, cursor.skip) = {x \in serves : x >= b}
      BY <2>4 DEF Between
    <3> HIDE DEF b
    <3> QED
      BY <3>1, <3>2
  <2> HIDE DEF b
  <2>6. IsPrefix(got, all)
    BY <1>1, <1>6, <2>4, <2>5, LargestBegin
  <2> QED
    BY <2>1, <2>6 DEF all
<1> QED
  BY <1>4, <1>5, <1>6 DEF HasReached, Printed, set, served, serves, keep

\* A page leaves a walk from which the rest of what is asked for is reached.
PageReached(d, k, in, n, s, after, limit, got, page) ==
  /\ after \in Walks /\ after.skip = 0 /\ after.limit = limit /\ after.resume = PageCursor(after.place, 0)
  /\ HasReached(d, k, in, n, s, after.resume, got \o after.out) /\ Len(page.items) \in Nat

\* The cursor of such a walk tells what was printed.
LEMMA AddedIsReached ==
  ASSUME NEW d, NEW k, NEW in, NEW n \in Nat, n <= MaxRoots, NEW s \in Nat, ~WholeOf(d, in),
         NEW walk \in Walks, NEW after, NEW page, NEW got \in Seq(Nat), NEW ahead, NEW size,
         PageAdded(walk, after, page, got, MatchedOf(k, in, n, s), ahead, size),
         page.next # Nowhere => /\ page.next # walk.place /\ page.next <= n
                                /\ Below(MatchedOf(k, in, n, s), page.next) = Below(AskedOf(k, in, n), page.next)
  PROVE  PageReached(d, k, in, n, s, after, walk.limit, got, page)
<1> DEFINE set == MatchedOf(k, in, n, s)
<1>1. /\ after \in Walks /\ after.skip = 0 /\ after.limit = walk.limit /\ after.resume = PageCursor(after.place, 0)
      /\ page.next = Nowhere => after.place = Nowhere /\ Lists(got \o after.out, set)
      /\ page.next # Nowhere => Lists(got \o after.out, AtLeast(set, page.next)) /\ after.place = page.next
      /\ page.items \in Seq(Nat)
  BY DEF PageAdded
<1>2. after.place \in Nat /\ after.out \in Seq(Nat) /\ Len(page.items) \in Nat
  BY <1>1 DEF Walks
<1>3. got \o after.out \in Seq(Nat) /\ after.resume \in PageCursors /\ after.resume.place = after.place /\ after.resume.skip = 0
  BY <1>1, <1>2, ConcatIs DEF PageCursors, PageCursor
<1>4. CASE page.next = Nowhere
  <2>1. after.resume = FirstCursor
    BY <1>1, <1>4 DEF FirstCursor
  <2> QED
    BY <1>1, <1>2, <1>3, <1>4, <2>1 DEF PageReached, HasReached, Printed
<1>5. CASE page.next # Nowhere
  BY <1>1, <1>2, <1>3, <1>5 DEF PageReached, HasReached, Printed
<1> QED
  BY <1>4, <1>5

\* A page by cursor.
LEMMA CursorPageReaches ==
  ASSUME NEW d, NEW k, NEW in, NEW n \in Nat, NEW r \in Nat, n <= r, r <= MaxRoots, NEW s \in Nat, Answerable(d, in), ~WholeOf(d, in),
         NEW walk \in Walks, HasRoom(walk), walk.skip = 0, walk.place # Nowhere, NEW got \in Seq(Nat),
         HasReached(d, k, in, n, s, PageCursor(walk.place, 0), got \o walk.out),
         NEW size \in Nat \ {0}, walk.limit = 0 \/ size <= walk.limit - Len(walk.out),
         NEW page \in PagesOf(Newest({item \in ServedTo(d, k, in, r) : item < walk.place}), size)
  PROVE  PageReached(d, k, in, n, s, AfterPage(walk, page.items, page.next, KeptOf(d, k, in)), walk.limit, got, page)
<1> DEFINE set    == MatchedOf(k, in, n, s)
           asked  == AskedOf(k, in, n)
           serves == ServedTo(d, k, in, r)
           keep   == KeptOf(d, k, in)
           b      == walk.place
           ahead   == {item \in serves : item < b}
           list   == Newest(ahead)
           after  == AfterPage(walk, page.items, page.next, keep)
<1>1. n <= MaxRoots /\ MaxRoots \in Nat
  BY QueryAssumption
<1>2. /\ set \subseteq asked /\ asked \subseteq 1 .. n /\ \A x \in set : Below(set, x) = Below(asked, x)
  BY <1>1, AllAreListed
<1>3. /\ serves \subseteq 1 .. r /\ serves \subseteq Roots
      /\ \A x \in 1 .. n : x \in asked <=> x \in serves \cap keep
  BY FiltersAgree
<1>4. b \in Nat
  BY DEF Walks
<1> HIDE DEF set, asked, serves, keep
<1>5. Lists(got \o walk.out, AtLeast(set, b)) /\ b <= n /\ Below(set, b) = Below(asked, b)
  <2> DEFINE cursor == PageCursor(b, 0)
  <2>1. cursor.place = b /\ cursor.skip = 0 /\ cursor # FirstCursor
    BY <1>4 DEF PageCursor, FirstCursor
  <2> HIDE DEF cursor
  <2>2. HasReached(d, k, in, n, s, cursor, got \o walk.out)
    BY DEF cursor
  <2> QED
    BY <2>1, <2>2 DEF HasReached, Printed, set, asked
<1>6. Lists(list, ahead)
  <2>1. Lists(list, Roots \cap ahead)
    BY NewestLists
  <2>2. Roots \cap ahead = ahead
    BY <1>3
  <2> QED
    BY <2>1, <2>2
<1>7. ahead \cap keep = Below(set, b)
  <2>1. \A x \in serves : x < b => x \in 1 .. n
    BY <1>3, <1>4, <1>5
  <2>2. \A x \in asked : x \in 1 .. n
    BY <1>2
  <2>3. ahead \cap keep = Below(asked, b)
    BY <1>3, <2>1, <2>2 DEF Below
  <2> QED
    BY <1>5, <2>3
<1>8. \A x \in ahead : x < b /\ x # Nowhere
  BY <1>3 DEF Nowhere
<1>9. set \subseteq Nat
  BY <1>2
<1> HIDE DEF ahead, list
<1>10. page \in PagesOf(list, size)
  BY DEF list, ahead, serves
<1>11. PageAdded(walk, after, page, got, set, ahead, size)
  BY <1>4, <1>5, <1>6, <1>7, <1>8, <1>9, <1>10, PageAdds
<1>12. ASSUME page.next # Nowhere
       PROVE  page.next # walk.place /\ page.next <= n /\ Below(set, page.next) = Below(asked, page.next)
  <2> DEFINE x == page.next
  <2>1. x \in ahead /\ x \in Nat
    BY <1>11, <1>12 DEF PageAdded
  <2> HIDE DEF x
  <2>2. x < b
    BY <1>8, <2>1
  <2>3. x # b /\ x <= n
    BY <1>1, <1>4, <1>5, <2>1, <2>2
  <2>4. \A y \in Nat : y < x => y < b
    BY <1>4, <2>1, <2>2
  <2>5. \A y \in asked : y \in Nat
    BY <1>2
  <2>6. Below(set, x) = Below(asked, x)
    <3>1. ASSUME NEW y \in asked, y < x PROVE y \in set
      <4>1. y \in Below(asked, b)
        BY <2>4, <2>5, <3>1 DEF Below
      <4> QED
        BY <1>5, <4>1 DEF Below
    <3> QED
      BY <1>2, <3>1 DEF Below
  <2> QED
    BY <2>3, <2>6 DEF x
<1> HIDE DEF after
<1>13. PageReached(d, k, in, n, s, after, walk.limit, got, page)
  BY <1>1, <1>11, <1>12, AddedIsReached DEF set, asked
<1> QED
  BY <1>13 DEF after, keep

\* The first page, behind an offset.
LEMMA FirstPageReaches ==
  ASSUME NEW d, NEW k, NEW in, NEW r \in Nat, r <= MaxRoots, NEW s \in Nat, Answerable(d, in), ~WholeOf(d, in),
         s = 0 \/ EndpointOf(d, in) = "hub",
         NEW walk \in Walks, HasRoom(walk), walk.skip = 0, walk.place = Nowhere, walk.out = <<>>,
         NEW size \in Nat \ {0}, walk.limit = 0 \/ size <= walk.limit - Len(walk.out),
         NEW list, list = Newest(ServedTo(d, k, in, r)),
         NEW page \in PagesOf(SubSeq(list, s + 1, Len(list)), size)
  PROVE  PageReached(d, k, in, r, s, AfterPage(walk, page.items, page.next, KeptOf(d, k, in)), walk.limit, <<>>, page)
<1> DEFINE set    == MatchedOf(k, in, r, s)
           asked  == AskedOf(k, in, r)
           serves == ServedTo(d, k, in, r)
           keep   == KeptOf(d, k, in)
           b      == r + 1
           tail   == SubSeq(list, s + 1, Len(list))
           ahead   == ItemsOf(tail)
           after  == AfterPage(walk, page.items, page.next, keep)
<1>1. MaxRoots \in Nat /\ r <= r
  BY QueryAssumption
<1>2. /\ set \subseteq asked /\ asked \subseteq 1 .. r /\ (s = 0 => set = asked) /\ \A x \in set : Below(set, x) = Below(asked, x)
  BY <1>1, AllAreListed
<1>3. /\ serves \subseteq 1 .. r /\ serves \subseteq Roots
      /\ \A x \in 1 .. r : x \in asked <=> x \in serves \cap keep
  BY <1>1, FiltersAgree
<1>4. Lists(list, serves)
  <2>1. Lists(list, Roots \cap serves)
    BY NewestLists
  <2>2. Roots \cap serves = serves
    BY <1>3
  <2> QED
    BY <2>1, <2>2
<1>5. Lists(tail, ahead) /\ ahead \subseteq serves /\ (s = 0 => ahead = serves)
  <2>1. list \in Seq(Nat) /\ Falls(list) /\ Len(list) \in Nat /\ serves = Between(list, 1, Len(list))
    BY <1>4 DEF Lists, ItemsOf, Between
  <2>2. IsTail(tail, list, s)
    BY <2>1, TailLists
  <2>3. Lists(tail, Between(list, s + 1, Len(list)))
    BY <2>2 DEF IsTail
  <2> HIDE DEF tail
  <2>4. ahead = Between(list, s + 1, Len(list))
    BY <2>3 DEF Lists
  <2>5. \A i \in s + 1 .. Len(list) : i \in 1 .. Len(list)
    BY <2>1
  <2>6. ahead \subseteq serves
    BY <2>1, <2>4, <2>5 DEF Between
  <2>7. s = 0 => ahead = serves
    <3>1. s = 0 => s + 1 = 1
      OBVIOUS
    <3> QED
      BY <2>1, <2>4, <3>1
  <2> QED
    BY <2>3, <2>4, <2>6, <2>7
<1>6. ahead \cap keep = set
  <2>1. CASE s = 0
    BY <1>2, <1>3, <1>5, <2>1
  <2>2. CASE EndpointOf(d, in) = "hub"
    <3>1. keep = Roots
      BY <2>2 DEF KeptOf
    <3>2. serves = asked
      BY <1>2, <1>3, <3>1
    <3>3. tail = AllOf(k, in, r, s)
      BY <3>2 DEF AllOf
    <3>4. ahead = set
      BY <3>3 DEF MatchedOf
    <3> QED
      BY <1>3, <1>5, <3>1, <3>4
  <2> QED
    BY <2>1, <2>2
<1> HIDE DEF set, asked, serves, keep, ahead, tail
<1>7. \A x \in set : x \in 1 .. r
  BY <1>2
<1>8. AtLeast(set, b) = {} /\ Below(set, b) = set /\ b \in Nat
  BY <1>7 DEF AtLeast, Below
<1>9. \A x \in ahead : x < b /\ x # Nowhere
  BY <1>3, <1>5 DEF Nowhere
<1>10. set \subseteq Nat
  BY <1>7
<1>11. Lists(<<>> \o walk.out, AtLeast(set, b)) /\ <<>> \in Seq(Nat)
  <2>1. <<>> \o walk.out = <<>>
    OBVIOUS
  <2> QED
    BY <1>8, <2>1 DEF Lists, Falls, ItemsOf
<1>12. page \in PagesOf(tail, size) /\ ahead \cap keep = Below(set, b)
  BY <1>6, <1>8 DEF tail
<1> HIDE DEF b
<1>13. PageAdded(walk, after, page, <<>>, set, ahead, size)
  BY <1>5, <1>8, <1>9, <1>10, <1>11, <1>12, PageAdds
<1>14. ASSUME page.next # Nowhere
       PROVE  page.next # walk.place /\ page.next <= r /\ Below(set, page.next) = Below(asked, page.next)
  <2> DEFINE x == page.next
  <2>1. x \in ahead /\ x \in Nat
    BY <1>13, <1>14 DEF PageAdded
  <2>2. x # walk.place
    BY <1>14
  <2> HIDE DEF x
  <2>3. x <= r
    BY <1>3, <1>5, <2>1
  <2>4. Below(set, x) = Below(asked, x)
    <3>1. CASE s = 0
      BY <1>2, <3>1
    <3>2. CASE EndpointOf(d, in) = "hub"
      <4>1. x \in keep
        BY <1>3, <1>5, <2>1, <3>2 DEF KeptOf, keep
      <4> QED
        BY <1>2, <1>6, <2>1, <4>1
    <3> QED
      BY <3>1, <3>2
  <2> QED
    BY <2>2, <2>3, <2>4 DEF x
<1> HIDE DEF after
<1>15. PageReached(d, k, in, r, s, after, walk.limit, <<>>, page)
  BY <1>1, <1>11, <1>13, <1>14, AddedIsReached DEF set, asked
<1> QED
  BY <1>15 DEF after, keep

\* What holds of a walk after any page but one by offset.
WalkReached(d, k, in, n, s, after, limit, got, page) ==
  /\ after \in Walks /\ after.limit = limit /\ after.skip = 0
  /\ HasReached(d, k, in, n, s, after.resume, got \o after.out) /\ Len(page.items) \in Nat
  /\ after.place # Nowhere => after.resume = PageCursor(after.place, 0)
  /\ after.place = Nowhere /\ limit = 0 => after.resume = FirstCursor

\* A page of the server is such a page.
LEMMA PageIsWalk ==
  ASSUME NEW d, NEW k, NEW in, NEW n, NEW s, NEW after, NEW limit, NEW got, NEW page,
         PageReached(d, k, in, n, s, after, limit, got, page)
  PROVE  WalkReached(d, k, in, n, s, after, limit, got, page)
BY DEF PageReached, WalkReached, FirstCursor

\* So is a whole list, though the walk is full within it.
LEMMA WholePageReaches ==
  ASSUME NEW d, NEW k, NEW in, NEW n \in Nat, n <= MaxRoots, Answerable(d, in), WholeOf(d, in),
         NEW walk \in Walks, HasRoom(walk), walk.out = <<>>, walk.place = Nowhere, NEW got \in Seq(Nat),
         (walk.skip = 0 /\ got = <<>>) \/ (walk.skip # 0 /\ HasReached(d, k, in, n, 0, PageCursor(Nowhere, walk.skip), got)),
         NEW page, page = [items |-> Newest(ServedTo(d, k, in, n)), next |-> Nowhere]
  PROVE  WalkReached(d, k, in, n, 0, AfterPage(walk, page.items, page.next, KeptOf(d, k, in)), walk.limit, got, page)
<1> DEFINE set    == MatchedOf(k, in, n, 0)
           asked  == AskedOf(k, in, n)
           serves == ServedTo(d, k, in, n)
           served == Newest(serves)
           keep   == KeptOf(d, k, in)
           after  == AfterPage(walk, served, Nowhere, keep)
<1>1. n <= n /\ 0 \in Nat
  OBVIOUS
<1>2. set = asked /\ asked \subseteq 1 .. n
  BY <1>1, AllAreListed
<1>3. /\ serves \subseteq 1 .. n /\ serves \subseteq Roots
      /\ \A x \in 1 .. n : x \in asked <=> x \in serves \cap keep
  BY <1>1, FiltersAgree
<1>4. serves \cap keep = set
  BY <1>2, <1>3
<1>5. Lists(served, serves)
  <2>1. Lists(served, Roots \cap serves)
    BY NewestLists
  <2>2. Roots \cap serves = serves
    BY <1>3
  <2> QED
    BY <2>1, <2>2
<1>6. walk.skip <= Len(served) /\ Lists(got, Between(served, 1, walk.skip) \cap keep) /\ Len(served) \in Nat
  <2>1. Len(served) \in Nat
    BY <1>5 DEF Lists
  <2>2. CASE walk.skip = 0 /\ got = <<>>
    <3>1. Between(served, 1, walk.skip) = {}
      BY <2>2 DEF Between
    <3>2. Lists(<<>>, {})
      BY DEF Lists, Falls, ItemsOf
    <3>3. Between(served, 1, walk.skip) \cap keep = {}
      BY <3>1
    <3>4. Lists(got, Between(served, 1, walk.skip) \cap keep)
      BY ONLY <2>2, <3>2, <3>3
    <3>5. walk.skip <= Len(served)
      BY ONLY <2>1, <2>2
    <3> QED
      BY <2>1, <3>4, <3>5
  <2>3. CASE walk.skip # 0 /\ HasReached(d, k, in, n, 0, PageCursor(Nowhere, walk.skip), got)
    <3> DEFINE cursor == PageCursor(Nowhere, walk.skip)
    <3>1. cursor.place = Nowhere /\ cursor.skip = walk.skip /\ cursor # FirstCursor
      BY <2>3 DEF PageCursor, FirstCursor
    <3> HIDE DEF cursor
    <3>2. HasReached(d, k, in, n, 0, cursor, got)
      BY <2>3 DEF cursor
    <3>3. walk.skip \in 1 .. Len(served) /\ Lists(got, Between(served, 1, walk.skip) \cap keep)
      BY <3>1, <3>2 DEF HasReached, Printed
    <3> QED
      BY <2>1, <3>3
  <2> QED
    BY <2>2, <2>3
<1> HIDE DEF set, asked, serves, keep, served
<1>7. /\ after \in Walks /\ after.skip = 0 /\ after.limit = walk.limit /\ after.place = Nowhere
      /\ \/ after.resume = FirstCursor /\ Lists(got \o after.out, serves \cap keep)
         \/ /\ after.limit # 0 /\ after.resume.place = Nowhere /\ after.resume.skip \in 1 .. Len(served)
            /\ Lists(got \o after.out, Between(served, 1, after.resume.skip) \cap keep)
  BY <1>5, <1>6, WholePage
<1> HIDE DEF after
<1>8. got \o after.out \in Seq(Nat) /\ after.resume \in PageCursors
  <2>1. after.out \in Seq(Nat)
    BY <1>7 DEF Walks
  <2> QED
    BY <1>7, <2>1, ConcatIs DEF Walks
<1>9. Printed(d, k, in, n, 0, after.resume, got \o after.out)
  BY <1>4, <1>7 DEF Printed, set, served, serves, keep
<1>10. page.items = served /\ page.next = Nowhere
  BY DEF served, serves
<1>11. WalkReached(d, k, in, n, 0, after, walk.limit, got, page)
  BY <1>6, <1>7, <1>8, <1>9, <1>10 DEF WalkReached, HasReached
<1> QED
  BY <1>10, <1>11 DEF after, keep

-----------------------------------------------------------------------------
(* The invariant of the commands that list.                                *)

PathOf(k, in, root) == IF in.pattern = "id" THEN <<"id", root>> ELSE <<"name", k[root].name>>

PathsOf(k) == {PathOf(k, in, root) : in \in QueryInput, root \in Nat}

Chains == [in : QueryInput, got : Seq(Nat), newest : Nat, from : Nat, skipped : Nat, resume : PageCursors, calls : Nat]

Queries(k) ==
  [at : {"idle", "page", "hydrate", "export", "print"}, walk : Walks, offset : Nat, legacy : BOOLEAN, hydrated : Nat,
   filled : SUBSET Nat, left : SUBSET Nat, files : Seq(PathsOf(k))]

WalkTypes ==
  /\ roots \in Roots /\ chain \in Chains /\ query \in Queries(kind)
  /\ chain.newest <= roots
  /\ query.legacy => deployment = "legacy hub"
  /\ WholeOf(deployment, chain.in) /\ chain.newest # 0 => chain.newest = roots

\* What the calls so far printed, when one of them did.
ChainOK ==
  /\ chain.calls = 0 => chain.got = <<>>
  /\ chain.calls # 0 =>
       /\ chain.from = Nowhere /\ chain.newest # 0 /\ Answerable(deployment, chain.in)
       /\ chain.skipped = 0 \/ EndpointOf(deployment, chain.in) = "hub"
       /\ deployment = "legacy hub" =>
            query.at = "idle" /\ chain.resume = FirstCursor /\ IsPrefix(chain.got, AllOf(kind, chain.in, chain.newest, chain.skipped))
       /\ deployment # "legacy hub" =>
            HasReached(deployment, kind, chain.in, chain.newest, chain.skipped, chain.resume, chain.got)

\* Where a walk is, by how it started.
Strayed ==
  deployment = "legacy hub" /\ chain.from # Nowhere /\ chain.calls = 0 /\ ~query.legacy /\ query.walk.place # Nowhere

Started ==
  /\ chain.from = Nowhere /\ chain.calls = 0 /\ query.walk.place = Nowhere /\ query.walk.skip = 0 /\ query.walk.out = <<>>
  /\ query.offset = chain.skipped

WithinWhole ==
  /\ chain.from = Nowhere /\ chain.calls # 0 /\ deployment # "legacy hub" /\ chain.newest # 0 /\ WholeOf(deployment, chain.in)
  /\ query.walk.place = Nowhere /\ query.walk.skip # 0 /\ query.walk.out = <<>>
  /\ HasReached(deployment, kind, chain.in, chain.newest, chain.skipped, PageCursor(Nowhere, query.walk.skip), chain.got)

Onwards ==
  /\ chain.from = Nowhere /\ deployment # "legacy hub" /\ chain.newest # 0
  /\ query.walk.place # Nowhere /\ query.walk.skip = 0
  /\ HasReached(deployment, kind, chain.in, chain.newest, chain.skipped, PageCursor(query.walk.place, 0), chain.got \o query.walk.out)

ByOffset ==
  LET list == Newest(AskedOf(kind, chain.in, chain.newest))
  IN  /\ chain.from = Nowhere /\ chain.calls = 0 /\ deployment = "legacy hub" /\ query.legacy /\ chain.newest = roots
      /\ query.walk.place # Nowhere /\ query.walk.skip = 0
      /\ chain.skipped <= query.offset /\ (query.offset = chain.skipped \/ query.offset <= Len(list))
      /\ Lists(query.walk.out, Between(list, chain.skipped + 1, query.offset))

\* What a walk that has ended collected.
Collected ==
  /\ chain.from = Nowhere /\ chain.newest # 0
  /\ deployment = "legacy hub" =>
       chain.calls = 0 /\ query.legacy /\ IsPrefix(query.walk.out, AllOf(kind, chain.in, chain.newest, chain.skipped))
  /\ deployment # "legacy hub" =>
       HasReached(deployment, kind, chain.in, chain.newest, chain.skipped, query.walk.resume, chain.got \o query.walk.out)
  /\ query.walk.limit = 0 /\ deployment # "legacy hub" => query.walk.resume = FirstCursor

WalkOK ==
  /\ query.at # "idle" =>
       /\ Answerable(deployment, chain.in) /\ (chain.skipped = 0 \/ EndpointOf(deployment, chain.in) = "hub")
       /\ chain.in.cmd = "thread list" =>
            query.walk.limit = 0 /\ chain.calls = 0 /\ ~chain.in.min /\ ~chain.in.window
  /\ query.at = "page" => HasRoom(query.walk) /\ (Strayed \/ Started \/ WithinWhole \/ Onwards \/ ByOffset)
  /\ query.at \in {"hydrate", "export", "print"} => Collected

\* What the steps after a walk have done.
Collides(k, in, out) == \E m, n \in 1 .. Len(out) : m # n /\ PathOf(k, in, out[m]) = PathOf(k, in, out[n])

\* The first roots got their totals, or are those that the server left out.
Hydrated ==
  /\ query.hydrated <= Len(query.walk.out)
  /\ \A m \in 1 .. query.hydrated : query.walk.out[m] \in query.filled \cup query.left

OutputOK ==
  /\ query.at = "page" => query.files = <<>> /\ query.hydrated = 0
  /\ query.at = "hydrate" => chain.in.cmd = "trace list" /\ Hydrated
  /\ query.at = "print" /\ chain.in.cmd = "trace list" /\ EndpointOf(deployment, chain.in) = "runs" =>
       Hydrated /\ query.hydrated = Len(query.walk.out)
  /\ query.at = "export" => chain.in.cmd = "trace export"
  /\ query.at \in {"export", "print"} /\ chain.in.cmd = "trace export" =>
       /\ Len(query.files) <= Len(query.walk.out)
       /\ \A n \in 1 .. Len(query.files) : query.files[n] = PathOf(kind, chain.in, query.walk.out[n])
       /\ query.at = "print" =>
            Len(query.files) = Len(query.walk.out) /\ ~Collides(kind, chain.in, query.walk.out)

WalkInv == WalkTypes /\ ChainOK /\ WalkOK /\ OutputOK

\* The invariant holds before any command.
LEMMA WalkInit == QueryInit => WalkInv
<1> SUFFICES ASSUME QueryInit PROVE WalkInv
  OBVIOUS
<1>1. query = NoQuery /\ chain = NoChain /\ roots \in Roots
  BY DEF QueryInit
<1>2. (CHOOSE in \in QueryInputs : TRUE) \in QueryInput
  BY InputAssumption
<1> DEFINE first == CHOOSE in \in QueryInputs : TRUE
<1> HIDE DEF first
<1>3. FirstCursor \in PageCursors /\ FirstCursor.place = Nowhere /\ FirstCursor.skip = 0 /\ Nowhere \in Nat
  BY DEF FirstCursor, PageCursors, PageCursor, Nowhere
<1>4. chain \in Chains /\ chain.calls = 0 /\ chain.got = <<>> /\ chain.newest = 0
  BY <1>1, <1>2, <1>3 DEF NoChain, Chains
<1>5. StartWalk(FirstCursor, 0) \in Walks
  BY <1>3 DEF StartWalk, Walks
<1>6. query \in Queries(kind) /\ query.at = "idle" /\ query.legacy = FALSE
  BY <1>1, <1>5 DEF NoQuery, Queries
<1>7. WalkTypes
  <2>1. 0 <= roots
    BY <1>1, QueryAssumption DEF Roots
  <2> QED
    BY <1>1, <1>4, <1>6, <2>1 DEF WalkTypes
<1>8. ChainOK /\ WalkOK /\ OutputOK
  BY <1>4, <1>6 DEF ChainOK, WalkOK, OutputOK
<1> QED
  BY <1>7, <1>8 DEF WalkInv

\* No command runs: what was printed stays.
LEMMA NoQueryIs ==
  ASSUME NEW k
  PROVE  NoQuery \in Queries(k) /\ NoQuery.at = "idle" /\ NoQuery.legacy = FALSE
<1>1. StartWalk(FirstCursor, 0) \in Walks
  BY DEF FirstCursor, PageCursors, PageCursor, Nowhere, StartWalk, Walks
<1> QED
  BY <1>1 DEF NoQuery, Queries

\* A command that fails prints nothing.
LEMMA FailKeeps ==
  ASSUME WalkInv, query' = NoQuery, UNCHANGED <<deployment, kind, roots, chain>>
  PROVE  WalkInv'
<1>1. query' \in Queries(kind) /\ query'.at = "idle" /\ query'.legacy = FALSE
  BY NoQueryIs
<1>2. WalkTypes'
  BY <1>1 DEF WalkInv, WalkTypes
<1>3. ChainOK'
  BY <1>1 DEF WalkInv, ChainOK
<1>4. WalkOK' /\ OutputOK'
  BY <1>1 DEF WalkOK, OutputOK
<1> QED
  BY <1>2, <1>3, <1>4 DEF WalkInv

\* The types of the fields.
LEMMA FieldsAre ==
  ASSUME WalkInv
  PROVE  /\ query \in Queries(kind) /\ query.walk \in Walks /\ query.legacy \in BOOLEAN /\ query.offset \in Nat /\ query.hydrated \in Nat
         /\ query.filled \in SUBSET Nat /\ query.left \in SUBSET Nat
         /\ query.files \in Seq(PathsOf(kind)) /\ Len(query.files) \in Nat
         /\ query.walk.out \in Seq(Nat) /\ Len(query.walk.out) \in Nat /\ DOMAIN query.walk.out = 1 .. Len(query.walk.out)
         /\ query.walk.place \in Nat /\ query.walk.skip \in Nat /\ query.walk.limit \in Nat /\ query.walk.resume \in PageCursors
         /\ chain \in Chains /\ chain.in \in QueryInput /\ chain.got \in Seq(Nat) /\ chain.newest \in Nat /\ chain.skipped \in Nat
         /\ chain.resume \in PageCursors /\ chain.calls \in Nat /\ chain.from \in Nat
         /\ roots \in Nat /\ roots >= 1 /\ roots <= MaxRoots /\ chain.newest <= roots /\ MaxRoots \in Nat /\ chain.newest <= MaxRoots
<1>1. query \in Queries(kind) /\ chain \in Chains /\ roots \in Roots /\ chain.newest <= roots
  BY DEF WalkInv, WalkTypes
<1>2. /\ query.walk \in Walks /\ query.legacy \in BOOLEAN /\ query.offset \in Nat /\ query.hydrated \in Nat
      /\ query.filled \in SUBSET Nat /\ query.left \in SUBSET Nat /\ query.files \in Seq(PathsOf(kind))
  BY <1>1 DEF Queries
<1>3. /\ query.walk.out \in Seq(Nat) /\ query.walk.place \in Nat /\ query.walk.skip \in Nat /\ query.walk.limit \in Nat
      /\ query.walk.resume \in PageCursors
  BY <1>2 DEF Walks
<1>4. Len(query.files) \in Nat /\ Len(query.walk.out) \in Nat /\ DOMAIN query.walk.out = 1 .. Len(query.walk.out)
  BY <1>2, <1>3
<1>5. /\ chain.in \in QueryInput /\ chain.got \in Seq(Nat) /\ chain.newest \in Nat /\ chain.skipped \in Nat
      /\ chain.resume \in PageCursors /\ chain.calls \in Nat /\ chain.from \in Nat
  BY <1>1 DEF Chains
<1>6. roots \in Nat /\ roots >= 1 /\ roots <= MaxRoots /\ MaxRoots \in Nat
  BY <1>1, QueryAssumption DEF Roots
<1>7. chain.newest <= MaxRoots
  BY ONLY <1>1, <1>5, <1>6
<1> QED
  BY <1>1, <1>2, <1>3, <1>4, <1>5, <1>6, <1>7

\* Whole, of the state.
LEMMA WholeIs == ASSUME NEW in PROVE Whole(in) <=> WholeOf(deployment, in)
BY DEF Whole, WholeOf, Endpoint, EndpointOf, Fallback

\* An item arrives.
LEMMA ArriveKeeps == WalkInv /\ Arrive => WalkInv'
<1> SUFFICES ASSUME WalkInv, Arrive PROVE WalkInv'
  OBVIOUS
<1>1. /\ roots' = roots + 1 /\ roots' \in Roots
      /\ ~WholeOf(deployment, chain.in) /\ (deployment = "legacy hub" => query.at = "idle")
      /\ deployment' = deployment /\ kind' = kind /\ query' = query /\ chain' = chain
  <2>1. ~WholeOf(deployment, chain.in)
    BY WholeIs DEF Arrive
  <2>2. roots' = roots + 1 /\ roots < MaxRoots
    BY DEF Arrive
  <2>3. roots \in Nat /\ MaxRoots \in Nat
    BY FieldsAre
  <2>4. roots' \in Roots
    BY ONLY <2>2, <2>3 DEF Roots
  <2> QED
    BY <2>1, <2>2, <2>4 DEF Arrive
<1>2. WalkTypes'
  <2>1. chain.newest <= roots /\ chain.newest \in Nat /\ roots \in Nat /\ roots' = roots + 1
    BY <1>1, FieldsAre
  <2>2. chain.newest <= roots'
    BY ONLY <2>1
  <2> QED
    BY <1>1, <2>2 DEF WalkInv, WalkTypes
<1>3. ChainOK'
  BY <1>1 DEF WalkInv, ChainOK
<1>4. WalkOK'
  <2>1. ASSUME query.at # "idle" PROVE deployment # "legacy hub"
    BY <1>1, <2>1
  <2>2. query.at = "page" => HasRoom(query.walk) /\ (Started \/ WithinWhole \/ Onwards)
    BY <2>1 DEF WalkInv, WalkOK, Strayed, ByOffset
  <2>3. (Started => Started') /\ (WithinWhole => WithinWhole') /\ (Onwards => Onwards') /\ (Collected => Collected')
    BY <1>1 DEF Started, WithinWhole, Onwards, Collected
  <2> QED
    BY <1>1, <2>2, <2>3 DEF WalkInv, WalkOK
<1>5. OutputOK'
  BY <1>1 DEF WalkInv, OutputOK, Hydrated
<1> QED
  BY <1>2, <1>3, <1>4, <1>5 DEF WalkInv

\* A command prints what its walk collected, and the cursor it ended at.
LEMMA PrintListKeeps == WalkInv /\ PrintQuery => WalkInv'
<1> SUFFICES ASSUME WalkInv, PrintQuery PROVE WalkInv'
  OBVIOUS
<1>1. /\ chain \in Chains /\ query \in Queries(kind) /\ query.at = "print" /\ Collected /\ Answerable(deployment, chain.in)
      /\ chain.skipped = 0 \/ EndpointOf(deployment, chain.in) = "hub"
  BY DEF WalkInv, WalkTypes, WalkOK, PrintQuery
<1>2. /\ chain'.in = chain.in /\ chain'.newest = chain.newest /\ chain'.from = chain.from /\ chain'.skipped = chain.skipped
      /\ chain'.got = chain.got \o query.walk.out /\ chain'.calls = chain.calls + 1
      /\ chain'.resume = (IF query.legacy THEN FirstCursor ELSE query.walk.resume)
      /\ deployment' = deployment /\ kind' = kind /\ roots' = roots
  BY <1>1 DEF PrintQuery, Chains
<1>3. query' \in Queries(kind) /\ query'.at = "idle" /\ query'.legacy = FALSE
  BY NoQueryIs DEF PrintQuery
<1>4. query.walk \in Walks /\ query.legacy \in BOOLEAN
  BY <1>1 DEF Queries
<1>5. chain' \in Chains
  <2>1. chain.got \in Seq(Nat) /\ query.walk.out \in Seq(Nat) /\ query.walk.resume \in PageCursors /\ chain.calls \in Nat
    BY <1>1, <1>4 DEF Chains, Walks
  <2>2. chain'.got \in Seq(Nat) /\ chain'.calls \in Nat
    BY <1>2, <2>1, ConcatIs
  <2>3. chain'.resume \in PageCursors
    BY <1>2, <2>1 DEF FirstCursor, PageCursors, PageCursor, Nowhere
  <2>4. chain' = [chain EXCEPT !.got = chain'.got, !.resume = chain'.resume, !.calls = chain'.calls]
    BY <1>1, <1>2 DEF PrintQuery, Chains
  <2> QED
    BY <1>1, <2>2, <2>3, <2>4 DEF Chains
<1>6. WalkTypes'
  BY <1>2, <1>3, <1>5 DEF WalkInv, WalkTypes
<1>7. ChainOK'
  <2>1. chain'.calls # 0
    BY <1>1, <1>2 DEF Chains
  <2>2. deployment # "legacy hub" => query.legacy = FALSE
    BY <1>4 DEF WalkInv, WalkTypes
  <2>3. CASE deployment = "legacy hub"
    <3>1. chain.got = <<>> /\ query.legacy /\ IsPrefix(query.walk.out, AllOf(kind, chain.in, chain.newest, chain.skipped))
      BY <1>1, <2>3 DEF WalkInv, ChainOK, Collected
    <3>2. <<>> \o query.walk.out = query.walk.out
      BY <1>4 DEF Walks
    <3> QED
      BY <1>1, <1>2, <1>3, <2>1, <2>3, <3>1, <3>2 DEF ChainOK, Collected
  <2>4. CASE deployment # "legacy hub"
    BY <1>1, <1>2, <2>1, <2>2, <2>4 DEF ChainOK, Collected
  <2> QED
    BY <2>3, <2>4
<1>8. WalkOK' /\ OutputOK'
  BY <1>3 DEF WalkOK, OutputOK
<1> QED
  BY <1>6, <1>7, <1>8 DEF WalkInv

\* Totals are read of one batch after the other, until there are no more roots.
LEMMA HydrateKeeps == WalkInv /\ HydrateBatch => WalkInv'
<1> SUFFICES ASSUME WalkInv, HydrateBatch PROVE WalkInv'
  OBVIOUS
<1>1. chain \in Chains /\ query \in Queries(kind) /\ query.at = "hydrate" /\ chain.in.cmd = "trace list"
      /\ UNCHANGED <<deployment, kind, roots>> /\ chain' = chain
  BY DEF WalkInv, WalkTypes, OutputOK, HydrateBatch, QueryFails
<1>2. CASE QueryFails
  BY <1>1, <1>2, FailKeeps DEF QueryFails
<1> DEFINE out   == query.walk.out
           h     == query.hydrated
           L     == Len(out)
           batch == PageAt(out, h, HydrateSize)
           ids   == Range(batch)
           done  == h + Len(batch)
<1>3. /\ h \in Nat /\ L \in Nat /\ HydrateSize \in Nat \ {0} /\ query.walk \in Walks /\ out \in Seq(Nat) /\ DOMAIN out = 1 .. L
      /\ query.filled \in SUBSET Nat /\ query.left \in SUBSET Nat
  BY FieldsAre, QueryAssumption
<1>4. h <= L /\ \A m \in 1 .. h : out[m] \in query.filled \cup query.left
  BY <1>1 DEF WalkInv, OutputOK, Hydrated
<1>5. /\ batch \in Seq(Nat) /\ Len(batch) \in Nat /\ DOMAIN batch = 1 .. Len(batch) /\ done <= L
      /\ \A n \in 1 .. Len(batch) : batch[n] = out[h + n]
  <2>1. batch \in Seq(Nat)
    BY <1>3, PageIsNext
  <2>2. done <= L /\ \A n \in 1 .. Len(batch) : batch[n] = out[h + n]
    <3> HIDE DEF out, h
    <3> QED
      BY <1>3, <1>4, PageIsNext
  <2> HIDE DEF batch
  <2> QED
    BY <2>1, <2>2
<1>6. ids \in SUBSET Nat /\ \A n \in 1 .. Len(batch) : batch[n] \in ids
  BY <1>5 DEF Range
<1>7. \A root \in ids : root >= Min(ids)
  <2> SUFFICES ASSUME NEW root \in ids
               PROVE  root >= Min(ids)
    OBVIOUS
  <2>1. \E least \in ids : \A other \in ids : least <= other
    BY <1>6, LeastIsThere
  <2>2. Min(ids) \in ids /\ \A other \in ids : Min(ids) <= other
    BY <2>1 DEF Min
  <2> QED
    BY <1>6, <2>2
<1> HIDE DEF batch, ids
<1>8. ASSUME ~QueryFails
      PROVE  WalkInv'
  <2> DEFINE InTime(known) == {root \in known : root >= Min(ids)}
  <2>1. PICK known \in SUBSET ids : \E page \in PagesOf(Newest(InTime(known)), Len(batch)) :
          query' = [query EXCEPT !.hydrated = done, !.filled = query.filled \cup (ids \cap Range(page.items)),
                                 !.left = query.left \cup (ids \ known) \cup (InTime(known) \ Range(page.items)),
                                 !.at = IF done >= L THEN "print" ELSE query.at]
    BY <1>8, Zenon DEF HydrateBatch, batch, ids, PageAt
  <2>2. PICK page \in PagesOf(Newest(InTime(known)), Len(batch)) :
          query' = [query EXCEPT !.hydrated = done, !.filled = query.filled \cup (ids \cap Range(page.items)),
                                 !.left = query.left \cup (ids \ known) \cup (InTime(known) \ Range(page.items)),
                                 !.at = IF done >= L THEN "print" ELSE query.at]
    BY <2>1
  <2> DEFINE filled == query.filled \cup (ids \cap Range(page.items))
             left   == query.left \cup (ids \ known) \cup (InTime(known) \ Range(page.items))
  <2>3. ids \subseteq filled \cup left
    BY <1>7
  <2>4. left \in SUBSET Nat
    BY <1>3, <1>6
  <2>6. filled \in SUBSET Nat
    BY <1>3, <1>6
  <2> DEFINE next == IF done >= L THEN "print" ELSE "hydrate"
  <2>7. query' = [query EXCEPT !.hydrated = done, !.filled = filled, !.left = left, !.at = next]
    BY <1>1, <2>2
  <2>8. query.filled \subseteq filled /\ query.left \subseteq left
    OBVIOUS
  <2>9. done \in Nat /\ next \in {"hydrate", "print"} /\ (next = "print" => done = L)
    <3>1. done \in Nat /\ L \in Nat /\ done <= L
      BY <1>3, <1>5
    <3> HIDE DEF done, L
    <3>2. done >= L => done = L
      BY ONLY <3>1
    <3> QED
      BY <3>1, <3>2
  <2> HIDE DEF filled, left, InTime, next, done
  <2>10. /\ query'.walk = query.walk /\ query'.offset = query.offset /\ query'.legacy = query.legacy
         /\ query'.at = next /\ query'.hydrated = done /\ query'.filled = filled /\ query'.left = left
         /\ query' \in Queries(kind)
    BY <1>1, <2>4, <2>6, <2>7, <2>9 DEF Queries
  <2>11. Hydrated'
    <3> SUFFICES ASSUME NEW m \in 1 .. done
                 PROVE  out[m] \in filled \cup left
      BY <1>5, <2>10 DEF Hydrated, done
    <3>1. CASE m \in 1 .. h
      BY <1>4, <2>8, <3>1
    <3>2. CASE m \notin 1 .. h
      <4>1. m - h \in 1 .. Len(batch) /\ h + (m - h) = m
        BY <1>3, <1>5, <3>2 DEF done
      <4>2. batch[m - h] = out[m] /\ batch[m - h] \in ids
        BY <1>5, <1>6, <4>1
      <4> QED
        BY <2>3, <4>2
    <3> QED
      BY <3>1, <3>2
  <2>12. WalkTypes'
    BY <1>1, <2>9, <2>10 DEF WalkInv, WalkTypes
  <2>13. ChainOK'
    BY <1>1, <2>9, <2>10 DEF WalkInv, ChainOK
  <2>14. WalkOK'
    <3>1. Collected'
      BY <1>1, <2>9, <2>10 DEF WalkInv, WalkOK, Collected
    <3> QED
      BY <1>1, <2>9, <2>10, <3>1 DEF WalkInv, WalkOK
  <2>15. OutputOK'
    BY <1>1, <2>9, <2>10, <2>11 DEF OutputOK
  <2> QED
    BY <2>12, <2>13, <2>14, <2>15 DEF WalkInv
<1> QED
  BY <1>2, <1>8

\* One file for each trace, unless two would be one.
LEMMA ExportKeeps == WalkInv /\ ExportTrace => WalkInv'
<1> SUFFICES ASSUME WalkInv, ExportTrace PROVE WalkInv'
  OBVIOUS
<1> DEFINE n == Len(query.files) + 1
           L == Len(query.walk.out)
<1>1. chain \in Chains /\ query \in Queries(kind) /\ query.at = "export" /\ chain.in.cmd = "trace export"
      /\ UNCHANGED <<deployment, kind, roots>> /\ chain' = chain
  BY DEF WalkInv, WalkTypes, OutputOK, ExportTrace, QueryFails
<1>2. CASE QueryFails
  BY <1>1, <1>2, FailKeeps DEF QueryFails
<1>3. query.walk.out \in Seq(Nat) /\ L \in Nat /\ query.files \in Seq(PathsOf(kind)) /\ n \in Nat /\ Len(query.files) \in Nat
      /\ DOMAIN query.walk.out = 1 .. L
  BY FieldsAre
<1>4. /\ Len(query.files) <= L
      /\ \A i \in 1 .. Len(query.files) : query.files[i] = PathOf(kind, chain.in, query.walk.out[i])
  BY <1>1 DEF WalkInv, OutputOK
<1>5. ASSUME NEW root PROVE ExportPath(root) = PathOf(kind, chain.in, root)
  BY DEF ExportPath, PathOf
<1>6. CASE n > L /\ ~PathsCollide /\ query' = [query EXCEPT !.at = "print"]
  <2>1. ~Collides(kind, chain.in, query.walk.out)
    BY <1>3, <1>5, <1>6 DEF PathsCollide, Collides
  <2>2. /\ query'.walk = query.walk /\ query'.offset = query.offset /\ query'.legacy = query.legacy
        /\ query'.at = "print" /\ query'.files = query.files
        /\ query' \in Queries(kind)
    BY <1>1, <1>6 DEF Queries
  <2>3. Len(query.files) = L
    BY <1>3, <1>4, <1>6
  <2>4. WalkTypes'
    BY <1>1, <2>2 DEF WalkInv, WalkTypes
  <2>5. ChainOK'
    BY <1>1, <2>2 DEF WalkInv, ChainOK
  <2>6. WalkOK'
    <3>1. Collected'
      BY <1>1, <2>2 DEF WalkInv, WalkOK, Collected
    <3> QED
      BY <1>1, <2>2, <3>1 DEF WalkInv, WalkOK
  <2>7. OutputOK'
    BY <1>1, <1>4, <2>1, <2>2, <2>3 DEF OutputOK
  <2> QED
    BY <2>4, <2>5, <2>6, <2>7 DEF WalkInv
<1>7. CASE ~(n > L) /\ query' = [query EXCEPT !.files = Append(@, ExportPath(query.walk.out[n]))]
  <2> DEFINE path  == PathOf(kind, chain.in, query.walk.out[n])
             files == query.files
  <2>1. n \in 1 .. L /\ query.walk.out[n] \in Nat /\ chain.in \in QueryInput
    <3>1. n \in 1 .. L
      BY <1>3, <1>7
    <3>2. query.walk.out[n] \in Nat
      BY <1>3, <3>1
    <3> QED
      BY <3>1, <3>2, FieldsAre
  <2>2. path \in PathsOf(kind)
    BY <2>1 DEF PathsOf
  <2>3. query' = [query EXCEPT !.files = Append(files, path)]
    BY <1>5, <1>7
  <2> HIDE DEF path, files
  <2>4. /\ Append(files, path) \in Seq(PathsOf(kind)) /\ Len(Append(files, path)) = Len(files) + 1
        /\ (\A i \in 1 .. Len(files) : Append(files, path)[i] = files[i]) /\ Append(files, path)[Len(files) + 1] = path
    BY <1>3, <2>2, AppendIs DEF files
  <2> DEFINE more == Append(files, path)
  <2> HIDE DEF more
  <2>5. /\ query'.walk = query.walk /\ query'.offset = query.offset /\ query'.legacy = query.legacy
        /\ query'.at = "export" /\ query'.files = more
        /\ query' \in Queries(kind)
    BY <1>1, <2>3, <2>4 DEF Queries, more
  <2>6. Len(more) = n /\ \A i \in 1 .. Len(more) : more[i] = PathOf(kind, chain.in, query.walk.out[i])
    <3>1. Len(more) = n
      BY <2>4 DEF files, more
    <3>2. ASSUME NEW i \in 1 .. n PROVE more[i] = PathOf(kind, chain.in, query.walk.out[i])
      <4>1. CASE i \in 1 .. Len(query.files)
        BY <1>4, <2>4, <4>1 DEF files, more
      <4>2. CASE i = n
        BY <2>4, <4>2 DEF files, more, path
      <4> QED
        BY <1>3, <4>1, <4>2
    <3> QED
      BY <3>1, <3>2
  <2>7. WalkTypes'
    BY <1>1, <2>5 DEF WalkInv, WalkTypes
  <2>8. ChainOK'
    BY <1>1, <2>5 DEF WalkInv, ChainOK
  <2>9. WalkOK'
    <3>1. Collected'
      BY <1>1, <2>5 DEF WalkInv, WalkOK, Collected
    <3> QED
      BY <1>1, <2>5, <3>1 DEF WalkInv, WalkOK
  <2>10. OutputOK'
    <3>1. Len(more) <= L
      BY <1>3, <1>7, <2>6
    <3> QED
      BY <1>1, <2>5, <2>6, <3>1 DEF OutputOK
  <2> QED
    BY <2>7, <2>8, <2>9, <2>10 DEF WalkInv
<1> QED
  BY <1>2, <1>6, <1>7 DEF ExportTrace

-----------------------------------------------------------------------------
(* A command begins.                                                       *)

\* The limit is not part of what is asked.
LEMMA LimitIsFree ==
  ASSUME NEW a, NEW b, a.cmd = b.cmd, a.min = b.min, a.window = b.window, a.lookup = b.lookup, NEW d, NEW k
  PROVE  /\ EndpointOf(d, a) = EndpointOf(d, b) /\ (WholeOf(d, a) <=> WholeOf(d, b)) /\ (Answerable(d, a) <=> Answerable(d, b))
         /\ \A n, s, cursor, got : HasReached(d, k, a, n, s, cursor, got) <=> HasReached(d, k, b, n, s, cursor, got)
<1>1. EndpointOf(d, a) = EndpointOf(d, b) /\ (OfRuns(a) <=> OfRuns(b))
  BY DEF EndpointOf, OfRuns
<1>2. (WholeOf(d, a) <=> WholeOf(d, b)) /\ (Answerable(d, a) <=> Answerable(d, b))
  BY <1>1 DEF WholeOf, Answerable
<1>3. ASSUME NEW root PROVE TokensOf(d, k, a, root) = TokensOf(d, k, b, root)
  BY <1>1 DEF TokensOf
<1>4. ASSUME NEW n PROVE ServedTo(d, k, a, n) = ServedTo(d, k, b, n) /\ AskedOf(k, a, n) = AskedOf(k, b, n)
  BY <1>1, <1>3 DEF ServedTo, AskedOf
<1>5. KeptOf(d, k, a) = KeptOf(d, k, b)
  BY <1>1, <1>3 DEF KeptOf
<1>6. ASSUME NEW n, NEW s PROVE MatchedOf(k, a, n, s) = MatchedOf(k, b, n, s)
  <2>1. AllOf(k, a, n, s) = AllOf(k, b, n, s)
    BY <1>4 DEF AllOf
  <2> QED
    BY <2>1 DEF MatchedOf
<1>7. ASSUME NEW n, NEW s, NEW cursor, NEW got
      PROVE  HasReached(d, k, a, n, s, cursor, got) <=> HasReached(d, k, b, n, s, cursor, got)
  BY <1>2, <1>4, <1>5, <1>6 DEF HasReached, Printed
<1> QED
  BY <1>1, <1>2, <1>7

\* The query never bounds the tokens of roots alone, when those of traces are
\* asked for.
Asks(d, in) == in.min /\ EndpointOf(d, in) = "runs" => OfRuns(in)

\* What commands are given.
LEMMA InputsAre ==
  ASSUME NEW in \in QueryInput
  PROVE  in.limit \in Nat /\ in.offset \in Nat /\ (in.cmd # "hub list" => in.offset = 0)
BY DEF QueryInput

\* What a chain of commands is before its first call.
LEMMA NoChainIs ==
  /\ NoChain \in Chains /\ NoChain.got = <<>> /\ NoChain.newest = 0 /\ NoChain.from = Nowhere /\ NoChain.skipped = 0
  /\ NoChain.resume = FirstCursor /\ NoChain.calls = 0
<1> DEFINE first == CHOOSE i \in QueryInputs : TRUE
<1>1. first \in QueryInput
  BY InputAssumption
<1> HIDE DEF first
<1>2. NoChain = [in |-> first, got |-> <<>>, newest |-> 0, from |-> Nowhere, skipped |-> 0, resume |-> FirstCursor, calls |-> 0]
  BY DEF NoChain, first
<1>3. FirstCursor \in PageCursors /\ Nowhere \in Nat
  BY DEF FirstCursor, PageCursors, PageCursor, Nowhere
<1> QED
  BY <1>1, <1>2, <1>3 DEF Chains

\* Nothing is added at the end.
LEMMA ConcatNone == ASSUME NEW seq \in Seq(Nat) PROVE seq \o <<>> = seq
<1>1. <<>> \in Seq(Nat) /\ Len(<<>>) = 0
  OBVIOUS
<1>2. seq \o <<>> \in Seq(Nat) /\ Len(seq \o <<>>) = Len(seq) /\ \A i \in 1 .. Len(seq) : (seq \o <<>>)[i] = seq[i]
  BY <1>1, ConcatIs
<1> QED
  BY <1>2, SeqEqual

\* What a command begins with.
Begun(in, cmd, limit) ==
  /\ query.at = "idle" /\ in.cmd = cmd /\ (cmd \in HubCommands <=> deployment \in OfHub)
  /\ query'.at = "page" /\ query'.offset = in.offset /\ query'.legacy = FALSE /\ query'.files = <<>> /\ query'.hydrated = 0
  /\ query'.walk \in Walks /\ query'.walk.limit = limit /\ query'.walk.out = <<>>
  /\ query'.walk.place = chain'.resume.place /\ query'.walk.skip = chain'.resume.skip
  /\ query' \in Queries(kind) /\ HasRoom(query'.walk)
  /\ deployment' = deployment /\ kind' = kind /\ roots' = roots

\* A command that begins has printed nothing.
LEMMA BeginFields ==
  ASSUME NEW in, NEW cmd, NEW limit \in Nat, BeginQuery(in, cmd, limit), in.offset \in Nat, chain'.resume \in PageCursors
  PROVE  Begun(in, cmd, limit)
<1>0. chain'.resume.place \in Nat /\ chain'.resume.skip \in Nat
  BY DEF PageCursors
<1> DEFINE walk == StartWalk(chain'.resume, limit)
<1>1. /\ walk \in Walks /\ walk.limit = limit /\ walk.out = <<>> /\ walk.place = chain'.resume.place /\ walk.skip = chain'.resume.skip
  BY <1>0 DEF StartWalk, Walks, FirstCursor, PageCursors, PageCursor, Nowhere
<1>2. HasRoom(walk)
  BY <1>1 DEF HasRoom
<1>3. query' = [NoQuery EXCEPT !.at = "page", !.offset = in.offset, !.walk = walk]
  BY DEF BeginQuery
<1> HIDE DEF walk
<1>4. /\ query'.at = "page" /\ query'.offset = in.offset /\ query'.legacy = FALSE /\ query'.files = <<>> /\ query'.walk = walk
      /\ query'.hydrated = 0
  BY <1>3 DEF NoQuery
<1>5. query' \in Queries(kind)
  <2>1. NoQuery \in Queries(kind)
    BY NoQueryIs
  <2> QED
    BY <1>1, <1>3, <2>1 DEF Queries
<1>6. cmd \in HubCommands <=> deployment \in OfHub
  BY DEF BeginQuery
<1> QED
  BY <1>1, <1>2, <1>4, <1>5, <1>6 DEF BeginQuery, Begun

\* A first call begins a chain.
LEMMA OpensKeeps ==
  ASSUME WalkInv, NEW in \in QueryInput, NEW cmd, NEW limit \in Nat, Opens(in), BeginQuery(in, cmd, limit),
         Asks(deployment, in), cmd = "thread list" => limit = 0 /\ ~in.min /\ ~in.window
  PROVE  WalkInv'
<1>1. /\ in.offset \in Nat /\ (in.cmd # "hub list" => in.offset = 0)
  BY InputsAre
<1>2. NoChain \in Chains
  BY NoChainIs
<1>3. /\ chain' \in Chains /\ chain'.in = in /\ chain'.skipped = in.offset /\ chain'.got = <<>> /\ chain'.newest = 0
      /\ chain'.from = Nowhere /\ chain'.resume = FirstCursor /\ chain'.calls = 0
  <2>1. chain' = [NoChain EXCEPT !.in = in, !.skipped = in.offset]
    BY DEF Opens
  <2>2. NoChain.got = <<>> /\ NoChain.newest = 0 /\ NoChain.from = Nowhere /\ NoChain.resume = FirstCursor /\ NoChain.calls = 0
    BY NoChainIs
  <2> QED
    BY <1>1, <1>2, <2>1, <2>2 DEF Chains
<1>4. FirstCursor \in PageCursors /\ FirstCursor.place = Nowhere /\ FirstCursor.skip = 0 /\ Nowhere \in Nat
  BY DEF FirstCursor, PageCursors, PageCursor, Nowhere
<1>5. /\ in.cmd = cmd /\ (cmd \in HubCommands <=> deployment \in OfHub)
      /\ query'.at = "page" /\ query'.offset = in.offset /\ query'.legacy = FALSE /\ query'.files = <<>> /\ query'.hydrated = 0
      /\ query'.walk.limit = limit /\ query'.walk.out = <<>> /\ query'.walk.place = Nowhere /\ query'.walk.skip = 0
      /\ query' \in Queries(kind) /\ HasRoom(query'.walk)
      /\ deployment' = deployment /\ kind' = kind /\ roots' = roots
  <2>1. chain'.resume \in PageCursors
    BY <1>3, <1>4
  <2>2. Begun(in, cmd, limit)
    BY <1>1, <2>1, BeginFields
  <2> QED
    BY <1>3, <1>4, <2>2 DEF Begun
<1>6. WalkTypes'
  <2>1. roots \in Roots
    BY DEF WalkInv, WalkTypes
  <2>2. 0 <= roots
    BY ONLY <2>1, QueryAssumption DEF Roots
  <2> QED
    BY <1>3, <1>5, <2>1, <2>2 DEF WalkTypes
<1>7. ChainOK'
  BY <1>3 DEF ChainOK
<1>8. WalkOK'
  <2>1. Answerable(deployment, in)
    BY <1>5 DEF Answerable, Asks
  <2>2. in.offset = 0 \/ EndpointOf(deployment, in) = "hub"
    BY <1>1 DEF EndpointOf, HubCommands
  <2>3. Started'
    BY <1>3, <1>5 DEF Started
  <2> QED
    BY <1>3, <1>5, <2>1, <2>2, <2>3 DEF WalkOK
<1>9. OutputOK'
  BY <1>5 DEF OutputOK
<1> QED
  BY <1>6, <1>7, <1>8, <1>9 DEF WalkInv

\* A call with the cursor of another server is about to fail.
LEMMA StraysKeeps ==
  ASSUME WalkInv, NEW in \in QueryInput, NEW cmd \in HubCommands, NEW limit \in Nat, Strays(in), BeginQuery(in, cmd, limit)
  PROVE  WalkInv'
<1>1. /\ in.offset \in Nat /\ in.offset = 0 /\ deployment = "legacy hub"
  BY InputsAre DEF Strays
<1>2. NoChain \in Chains
  BY NoChainIs
<1> DEFINE other == PageCursor(3, 0)
<1>3. other \in PageCursors /\ other.place = 3 /\ other.skip = 0 /\ 3 # Nowhere
  BY DEF PageCursors, PageCursor, Nowhere
<1> HIDE DEF other
<1>4. /\ chain' \in Chains /\ chain'.in = in /\ chain'.skipped = 0 /\ chain'.got = <<>> /\ chain'.newest = 0
      /\ chain'.from = 3 /\ chain'.resume = other /\ chain'.calls = 0
  <2>1. chain' = [NoChain EXCEPT !.in = in, !.from = 3, !.resume = other]
    BY DEF Strays, other
  <2>2. NoChain.got = <<>> /\ NoChain.newest = 0 /\ NoChain.skipped = 0 /\ NoChain.calls = 0
    BY NoChainIs
  <2> QED
    BY <1>1, <1>2, <1>3, <2>1, <2>2 DEF Chains
<1>5. /\ in.cmd = cmd /\ (cmd \in HubCommands <=> deployment \in OfHub)
      /\ query'.at = "page" /\ query'.offset = in.offset /\ query'.legacy = FALSE /\ query'.files = <<>> /\ query'.hydrated = 0
      /\ query'.walk.place = 3
      /\ query' \in Queries(kind) /\ HasRoom(query'.walk)
      /\ deployment' = deployment /\ kind' = kind /\ roots' = roots
  <2>1. chain'.resume \in PageCursors
    BY <1>3, <1>4
  <2>2. Begun(in, cmd, limit)
    BY <1>1, <2>1, BeginFields
  <2> QED
    BY <1>3, <1>4, <2>2 DEF Begun
<1>6. WalkTypes'
  <2>1. roots \in Roots
    BY DEF WalkInv, WalkTypes
  <2>2. 0 <= roots
    BY ONLY <2>1, QueryAssumption DEF Roots
  <2> QED
    BY <1>4, <1>5, <2>1, <2>2 DEF WalkTypes
<1>7. ChainOK'
  BY <1>4 DEF ChainOK
<1>8. WalkOK'
  <2>1. EndpointOf(deployment, in) = "hub" /\ in.cmd # "thread list"
    BY <1>5 DEF EndpointOf, HubCommands
  <2>2. Answerable(deployment, in)
    BY <1>5, <2>1 DEF Answerable
  <2>3. Strayed'
    BY <1>1, <1>3, <1>4, <1>5 DEF Strayed
  <2> QED
    BY <1>4, <1>5, <2>1, <2>2, <2>3 DEF WalkOK
<1>9. OutputOK'
  BY <1>5 DEF OutputOK
<1> QED
  BY <1>6, <1>7, <1>8, <1>9 DEF WalkInv

\* A call resumes where the last one stopped.
LEMMA ResumesKeeps ==
  ASSUME WalkInv, NEW in \in QueryInput, NEW cmd, cmd # "thread list", Resumes(in), BeginQuery(in, cmd, in.limit)
  PROVE  WalkInv'
<1> DEFINE old == chain.in
           new == [chain.in EXCEPT !.limit = in.limit]
<1>1. in.limit \in Nat /\ in.offset \in Nat
  BY InputsAre
<1>2. /\ chain \in Chains /\ old \in QueryInput /\ chain.resume \in PageCursors /\ chain.got \in Seq(Nat) /\ chain.calls \in Nat
  BY FieldsAre
<1>3. chain.calls # 0 /\ chain.resume # FirstCursor
  <2>1. chain.calls \in 1 .. MaxCalls - 1 /\ chain.resume # FirstCursor
    BY DEF Resumes
  <2> QED
    BY ONLY <1>2, <2>1, QueryAssumption
<1>4. [in EXCEPT !.limit = 1, !.offset = 0] = [old EXCEPT !.limit = 1, !.offset = 0]
  BY DEF Resumes
<1>5. new \in QueryInput /\ new.cmd = old.cmd /\ new.min = old.min /\ new.window = old.window /\ new.lookup = old.lookup
  BY <1>1, <1>2 DEF QueryInput
<1>6. old.cmd = in.cmd
  <2>1. [in EXCEPT !.limit = 1, !.offset = 0].cmd = in.cmd
    BY DEF QueryInput
  <2>2. [old EXCEPT !.limit = 1, !.offset = 0].cmd = old.cmd
    BY <1>2 DEF QueryInput
  <2> QED
    BY <1>4, <2>1, <2>2
<1>7. chain' = [chain EXCEPT !.in = new]
  BY DEF Resumes
<1> HIDE DEF old, new
<1>8. /\ chain' \in Chains /\ chain'.in = new /\ chain'.skipped = chain.skipped /\ chain'.got = chain.got /\ chain'.newest = chain.newest
      /\ chain'.from = chain.from /\ chain'.resume = chain.resume /\ chain'.calls = chain.calls
  BY <1>2, <1>5, <1>7 DEF Chains
<1>9. /\ in.cmd = cmd
      /\ query'.at = "page" /\ query'.legacy = FALSE /\ query'.files = <<>> /\ query'.hydrated = 0 /\ query'.walk.out = <<>>
      /\ query'.walk.place = chain.resume.place /\ query'.walk.skip = chain.resume.skip
      /\ query' \in Queries(kind) /\ HasRoom(query'.walk)
      /\ deployment' = deployment /\ kind' = kind /\ roots' = roots
  <2>1. chain'.resume \in PageCursors
    BY <1>2, <1>8
  <2>2. Begun(in, cmd, in.limit)
    BY <1>1, <2>1, BeginFields
  <2> QED
    BY <1>8, <2>2 DEF Begun
<1>10. /\ chain.from = Nowhere /\ chain.newest # 0 /\ Answerable(deployment, old)
       /\ chain.skipped = 0 \/ EndpointOf(deployment, old) = "hub"
       /\ deployment # "legacy hub"
       /\ HasReached(deployment, kind, old, chain.newest, chain.skipped, chain.resume, chain.got)
  BY <1>3 DEF WalkInv, ChainOK, old
<1>11. /\ EndpointOf(deployment, new) = EndpointOf(deployment, old) /\ (WholeOf(deployment, new) <=> WholeOf(deployment, old))
       /\ Answerable(deployment, new)
       /\ HasReached(deployment, kind, new, chain.newest, chain.skipped, chain.resume, chain.got)
  BY <1>5, <1>10, LimitIsFree
<1>12. WalkTypes'
  BY <1>8, <1>9, <1>11 DEF WalkInv, WalkTypes, old
<1>13. ChainOK'
  BY <1>3, <1>8, <1>9, <1>10, <1>11 DEF ChainOK
<1>14. WithinWhole' \/ Onwards'
  <2>1. chain.resume = PageCursor(chain.resume.place, chain.resume.skip)
    BY <1>2 DEF PageCursors, PageCursor
  <2>2. CASE chain.resume.place # Nowhere /\ chain.resume.skip = 0
    <3>1. chain.got \o <<>> = chain.got
      BY <1>2, ConcatNone
    <3>2. HasReached(deployment, kind, new, chain.newest, chain.skipped, PageCursor(chain.resume.place, 0), chain.got \o <<>>)
      BY <1>11, <2>1, <2>2, <3>1
    <3> QED
      BY <1>8, <1>9, <1>10, <2>2, <3>2 DEF Onwards
  <2>3. CASE WholeOf(deployment, new) /\ chain.resume.place = Nowhere /\ chain.resume.skip # 0
    <3>1. HasReached(deployment, kind, new, chain.newest, chain.skipped, PageCursor(Nowhere, chain.resume.skip), chain.got)
      BY <1>11, <2>1, <2>3
    <3> QED
      BY <1>3, <1>8, <1>9, <1>10, <2>3, <3>1 DEF WithinWhole
  <2>4. chain.resume.place = Nowhere => chain.resume.skip # 0
    BY <1>3, <2>1 DEF FirstCursor
  <2>5. \/ chain.resume.place # Nowhere /\ chain.resume.skip = 0
        \/ WholeOf(deployment, new) /\ chain.resume.place = Nowhere
    BY <1>3, <1>11 DEF HasReached, Printed
  <2> QED
    BY <2>2, <2>3, <2>4, <2>5
<1>15. WalkOK'
  <2>1. new.cmd # "thread list"
    BY <1>5, <1>6, <1>9
  <2> QED
    BY <1>8, <1>9, <1>10, <1>11, <1>14, <2>1 DEF WalkOK
<1>16. OutputOK'
  BY <1>9 DEF OutputOK
<1> QED
  BY <1>12, <1>13, <1>15, <1>16 DEF WalkInv

\* Each of the commands begins so.
LEMMA CommandsKeep ==
  ASSUME WalkInv, NEW in \in QueryInputs,
         \/ TraceList(in) \/ RunList(in) \/ RunExport(in) \/ TraceExport(in) \/ ThreadList(in) \/ ThreadGet(in)
         \/ HubList(in) \/ PromptList(in) \/ PromptCommits(in)
  PROVE  WalkInv'
<1>1. in \in QueryInput
  BY InputAssumption
<1>2. in.limit \in Nat /\ 0 \in Nat
  BY <1>1, InputsAre
<1>3. CASE TraceList(in)
  <2>1. Asks(deployment, in)
    BY <1>3 DEF TraceList, BeginQuery, RefusedQuery, Fallback, Asks, EndpointOf, HubCommands
  <2> QED
    BY <1>1, <1>2, <1>3, <2>1, OpensKeeps, ResumesKeeps DEF TraceList
<1>4. CASE RunList(in)
  <2>1. Asks(deployment, in)
    BY <1>4 DEF RunList, BeginQuery, Asks, OfRuns
  <2> QED
    BY <1>1, <1>2, <1>4, <2>1, OpensKeeps, ResumesKeeps DEF RunList
<1>5. CASE RunExport(in)
  <2>1. Asks(deployment, in)
    BY <1>5 DEF RunExport, BeginQuery, Asks, OfRuns
  <2> QED
    BY <1>1, <1>2, <1>5, <2>1, OpensKeeps DEF RunExport
<1>6. CASE TraceExport(in)
  <2>1. Asks(deployment, in)
    BY <1>6 DEF TraceExport, BeginQuery, Asks, EndpointOf, HubCommands
  <2> QED
    BY <1>1, <1>2, <1>6, <2>1, OpensKeeps DEF TraceExport
<1>7. CASE ThreadList(in)
  <2>1. Asks(deployment, in) /\ ~in.min /\ ~in.window
    BY <1>7 DEF ThreadList, Asks
  <2> QED
    BY <1>1, <1>2, <1>7, <2>1, OpensKeeps DEF ThreadList
<1>8. CASE ThreadGet(in)
  <2>1. Asks(deployment, in)
    BY <1>8 DEF ThreadGet, Asks
  <2> QED
    BY <1>1, <1>2, <1>8, <2>1, OpensKeeps DEF ThreadGet
<1>9. ASSUME NEW cmd \in HubCommands, BeginQuery(in, cmd, in.limit), Opens(in) \/ Resumes(in) \/ Strays(in)
      PROVE  WalkInv'
  <2>1. Asks(deployment, in) /\ cmd # "thread list"
    BY <1>9 DEF BeginQuery, Asks, EndpointOf, HubCommands
  <2> QED
    BY <1>1, <1>2, <1>9, <2>1, OpensKeeps, ResumesKeeps, StraysKeeps
<1>10. CASE HubList(in) \/ PromptList(in) \/ PromptCommits(in)
  BY <1>9, <1>10 DEF HubList, PromptList, PromptCommits, HubCommands
<1> QED
  BY <1>3, <1>4, <1>5, <1>6, <1>7, <1>8, <1>10

-----------------------------------------------------------------------------
(* A page is fetched.                                                      *)

\* The filters of a query, of the state.
LEMMA FiltersAre ==
  ASSUME NEW in
  PROVE  /\ Endpoint(in) = EndpointOf(deployment, in)
         /\ ServerMatches(in) = ServedTo(deployment, kind, in, roots) /\ ClientKeeps(in) = KeptOf(deployment, kind, in)
<1>1. Endpoint(in) = EndpointOf(deployment, in)
  BY DEF Endpoint, EndpointOf, Fallback
<1>2. ASSUME NEW root PROVE HasTokens(in, root) = TokensOf(deployment, kind, in, root)
  BY <1>1 DEF HasTokens, TokensOf, OfRuns
<1>3. ServerMatches(in) = ServedTo(deployment, kind, in, roots)
  BY <1>1, <1>2 DEF ServerMatches, ServedTo
<1>4. ClientKeeps(in) = KeptOf(deployment, kind, in)
  BY <1>1, <1>2 DEF ClientKeeps, KeptOf
<1> QED
  BY <1>1, <1>3, <1>4

\* What follows a place, of the state.
LEMMA AfterIs ==
  ASSUME NEW in, NEW spot
  PROVE  /\ After(in, Nowhere) = Newest(ServedTo(deployment, kind, in, roots))
         /\ spot # Nowhere => After(in, spot) = Newest({item \in ServedTo(deployment, kind, in, roots) : item < spot})
<1> DEFINE serves == ServedTo(deployment, kind, in, roots)
<1>1. ServerMatches(in) = serves
  BY FiltersAre
<1> HIDE DEF serves
<1>2. After(in, Nowhere) = Newest(serves)
  <2>1. {item \in serves : Nowhere = Nowhere \/ item < Nowhere} = serves
    OBVIOUS
  <2> QED
    BY <1>1, <2>1 DEF After
<1>3. ASSUME spot # Nowhere PROVE After(in, spot) = Newest({item \in serves : item < spot})
  <2>1. {item \in serves : spot = Nowhere \/ item < spot} = {item \in serves : item < spot}
    BY <1>3
  <2> QED
    BY <1>1, <2>1 DEF After
<1> QED
  BY <1>2, <1>3 DEF serves

\* A page is asked for that fits the walk.
SizeOf(walk, in) == PageSize(walk, MaxPageSize[Endpoint(in)])

\* That size is positive, and no more than the walk has room for.
LEMMA SizeFits ==
  ASSUME NEW in, NEW walk \in Walks, HasRoom(walk)
  PROVE  /\ SizeOf(walk, in) \in Nat \ {0}
         /\ walk.skip = 0 => walk.limit = 0 \/ SizeOf(walk, in) <= walk.limit - Len(walk.out)
<1> DEFINE m == MaxPageSize[Endpoint(in)]
           L == Len(walk.out)
<1>1. m \in Nat \ {0}
  <2>1. Endpoint(in) \in {"v1", "traces", "runs", "hub"}
    BY DEF Endpoint
  <2> QED
    BY <2>1 DEF MaxPageSize
<1>2. walk.limit \in Nat /\ walk.skip \in Nat /\ L \in Nat
  <2>1. walk.out \in Seq(Nat) /\ walk.limit \in Nat /\ walk.skip \in Nat
    BY DEF Walks
  <2> QED
    BY <2>1
<1> HIDE DEF m, L
<1>3. CASE walk.limit = 0
  <2>1. SizeOf(walk, in) = m
    BY <1>3 DEF SizeOf, PageSize, m
  <2> QED
    BY <1>1, <1>3, <2>1
<1>4. CASE walk.limit # 0
  <2> DEFINE room == walk.limit - L + walk.skip
  <2>1. L < walk.limit
    BY <1>4 DEF HasRoom, L
  <2>2. room \in Nat \ {0} /\ (walk.skip = 0 => room = walk.limit - L)
    BY ONLY <1>2, <2>1
  <2>3. SizeOf(walk, in) = Min({m, room})
    BY <1>4 DEF SizeOf, PageSize, m, L
  <2> HIDE DEF room
  <2>4. SizeOf(walk, in) = IF m <= room THEN m ELSE room
    BY <1>1, <2>2, <2>3, MinOfTwo
  <2>5. SizeOf(walk, in) \in Nat \ {0} /\ (walk.skip = 0 => SizeOf(walk, in) <= walk.limit - L)
    <3>1. SizeOf(walk, in) <= room
      BY ONLY <1>1, <2>2, <2>4
    <3>2. SizeOf(walk, in) \in Nat \ {0}
      BY ONLY <1>1, <2>2, <2>4
    <3> QED
      BY ONLY <2>2, <3>1, <3>2
  <2> QED
    BY <2>5 DEF L
<1> QED
  BY <1>3, <1>4

\* A hub whose lists have no cursors.
Legacy == deployment = "legacy hub"

\* A page that the server may answer with.
PageAnswers(page) == page \in Pages(chain.in, SizeOf(query.walk, chain.in))

\* How many items there were when the chain started, told when it has.
NewestThen == IF chain.calls = 0 /\ query.walk.place = Nowhere THEN roots ELSE chain.newest

\* What a page by cursor, or of a whole list, leaves.
LEMMA CursorsReach ==
  ASSUME WalkInv, query.at = "page", ~Legacy,
         NEW page, PageAnswers(page)
  PROVE  WalkReached(deployment, kind, chain.in, NewestThen, chain.skipped,
                     AfterPage(query.walk, page.items, page.next, KeptOf(deployment, kind, chain.in)),
                     query.walk.limit, chain.got, page)
<1> DEFINE in     == chain.in
           walk   == query.walk
           size   == SizeOf(walk, in)
           s      == chain.skipped
           got    == chain.got
           serves == ServedTo(deployment, kind, in, roots)
           list   == Newest(serves)
           after  == AfterPage(walk, page.items, page.next, KeptOf(deployment, kind, in))
           Goal(n) == WalkReached(deployment, kind, in, n, s, after, walk.limit, got, page)
<1>1. /\ walk \in Walks /\ got \in Seq(Nat) /\ s \in Nat /\ roots \in Nat /\ roots <= MaxRoots
      /\ chain.newest \in Nat /\ chain.newest <= roots
  BY FieldsAre
<1>2. /\ HasRoom(walk) /\ Answerable(deployment, in) /\ (s = 0 \/ EndpointOf(deployment, in) = "hub")
      /\ Started \/ WithinWhole \/ Onwards
  BY DEF WalkInv, WalkOK, Strayed, ByOffset, Legacy
<1>3. /\ size \in Nat \ {0} /\ (walk.skip = 0 => walk.limit = 0 \/ size <= walk.limit - Len(walk.out))
  BY <1>1, <1>2, SizeFits
<1>4. chain.calls = 0 => got = <<>>
  BY DEF WalkInv, ChainOK
<1>5. /\ WholeOf(deployment, in) => chain.in.cmd \notin HubCommands /\ s = 0
      /\ in.cmd \in HubCommands => EndpointOf(deployment, in) = "hub" /\ deployment = "hub" /\ ~WholeOf(deployment, in)
  BY <1>2 DEF WholeOf, EndpointOf, Answerable, OfHub, Legacy
<1>6. CASE WholeOf(deployment, in)
  <2>1. Started \/ WithinWhole
    <3>1. ~Onwards
      <4> DEFINE cursor == PageCursor(walk.place, 0)
      <4>1. cursor.place = walk.place
        BY DEF PageCursor
      <4>2. walk.place # Nowhere => cursor # FirstCursor
        BY DEF PageCursor, FirstCursor
      <4> HIDE DEF cursor
      <4>3. Onwards => walk.place # Nowhere /\ HasReached(deployment, kind, in, chain.newest, s, cursor, got \o walk.out)
        BY DEF Onwards, cursor
      <4> QED
        BY <1>6, <4>1, <4>2, <4>3 DEF HasReached, Printed
    <3> QED
      BY <1>2, <3>1
  <2>2. Whole(in) /\ in.cmd \notin HubCommands
    BY <1>5, <1>6, WholeIs
  <2>3. page = [items |-> list, next |-> Nowhere]
    BY <2>2, AfterIs DEF PageAnswers, Pages
  <2>4. walk.out = <<>> /\ walk.place = Nowhere /\ s = 0
    BY <1>5, <1>6, <2>1 DEF Started, WithinWhole
  <2>5. NewestThen = roots
    BY <1>6, <2>1 DEF NewestThen, Started, WithinWhole, WalkInv, WalkTypes
  <2>6. \/ walk.skip = 0 /\ got = <<>>
        \/ walk.skip # 0 /\ HasReached(deployment, kind, in, roots, 0, PageCursor(Nowhere, walk.skip), got)
    BY <1>4, <1>6, <2>1, <2>4 DEF Started, WithinWhole, WalkInv, WalkTypes
  <2> HIDE DEF in, walk, got, s
  <2>7. WalkReached(deployment, kind, in, roots, 0, after, walk.limit, got, page)
    BY <1>1, <1>2, <1>6, <2>3, <2>4, <2>6, WholePageReaches
  <2> QED
    BY <2>4, <2>5, <2>7 DEF in, walk, got, s
<1>7. CASE ~WholeOf(deployment, in) /\ Started
  <2>1. walk.skip = 0 /\ walk.place = Nowhere /\ walk.out = <<>> /\ got = <<>> /\ query.offset = s /\ NewestThen = roots
    BY <1>4, <1>7 DEF Started, NewestThen
  <2>2. ~Whole(in)
    BY <1>7, WholeIs
  <2>3. page \in PagesOf(SubSeq(list, s + 1, Len(list)), size)
    <3>1. CASE in.cmd \in HubCommands
      <4>1. deployment = "hub"
        BY <1>5, <3>1
      <4>2. page \in PagesOf(Skipping(in, s), size)
        BY <2>1, <3>1, <4>1 DEF PageAnswers, Pages, HubPages
      <4>3. Skipping(in, s) = SubSeq(list, s + 1, Len(list))
        BY AfterIs DEF Skipping
      <4> QED
        BY <4>2, <4>3
    <3>2. CASE in.cmd \notin HubCommands
      <4>1. s = 0
        BY <1>2, <3>2 DEF EndpointOf
      <4>2. page \in PagesOf(list, size)
        BY <2>1, <2>2, <3>2, AfterIs DEF PageAnswers, Pages
      <4>3. list \in Seq(Nat)
        <5>1. Lists(list, Roots \cap serves)
          BY NewestLists
        <5> QED
          BY <5>1 DEF Lists
      <4> HIDE DEF list
      <4>4. SubSeq(list, s + 1, Len(list)) = list
        <5>1. s + 1 = 1
          BY ONLY <4>1
        <5> QED
          BY <4>3, <5>1, SubSeqFull
      <4> QED
        BY <4>2, <4>4
    <3> QED
      BY <3>1, <3>2
  <2> HIDE DEF in, walk, got, s, size, list
  <2>4. list = Newest(ServedTo(deployment, kind, in, roots))
    BY DEF list
  <2>5. PageReached(deployment, kind, in, roots, s, after, walk.limit, <<>>, page)
    BY <1>1, <1>2, <1>3, <1>7, <2>1, <2>3, <2>4, FirstPageReaches
  <2>6. WalkReached(deployment, kind, in, roots, s, after, walk.limit, <<>>, page)
    BY <2>5, PageIsWalk
  <2> QED
    BY <2>1, <2>6 DEF in, walk, got, s
<1>8. CASE ~WholeOf(deployment, in) /\ Onwards
  <2>1. /\ walk.skip = 0 /\ walk.place # Nowhere /\ NewestThen = chain.newest
        /\ HasReached(deployment, kind, in, chain.newest, s, PageCursor(walk.place, 0), got \o walk.out)
    BY <1>8 DEF Onwards, NewestThen
  <2>2. ~Whole(in)
    BY <1>8, WholeIs
  <2>3. page \in PagesOf(After(in, walk.place), size)
    BY <1>5, <2>1, <2>2 DEF PageAnswers, Pages, HubPages
  <2>4. After(in, walk.place) = Newest({item \in serves : item < walk.place})
    BY <2>1, AfterIs
  <2>5. page \in PagesOf(Newest({item \in serves : item < walk.place}), size)
    BY <2>3, <2>4
  <2> HIDE DEF in, walk, got, s, size, list
  <2>6. PageReached(deployment, kind, in, chain.newest, s, after, walk.limit, got, page)
    BY <1>1, <1>2, <1>3, <1>8, <2>1, <2>5, CursorPageReaches
  <2>7. WalkReached(deployment, kind, in, chain.newest, s, after, walk.limit, got, page)
    BY <2>6, PageIsWalk
  <2> QED
    BY <2>1, <2>7 DEF in, walk, got, s
<1>9. WithinWhole => WholeOf(deployment, in)
  BY DEF WithinWhole
<1> QED
  BY <1>2, <1>6, <1>7, <1>8, <1>9

\* The items a walk by offset took are the first of those asked for.
LEMMA OffsetBegins ==
  ASSUME NEW n \in Nat, NEW set \in SUBSET (1 .. n), NEW list, Lists(list, set), NEW s \in Nat, NEW upto \in Nat,
         upto = s \/ upto <= Len(list), NEW out, Lists(out, Between(list, s + 1, upto))
  PROVE  IsPrefix(out, SubSeq(list, s + 1, Len(list)))
<1> DEFINE L    == Len(list)
           tail == SubSeq(list, s + 1, L)
           T    == Between(list, s + 1, L)
<1>1. list \in Seq(Nat) /\ Falls(list) /\ L \in Nat /\ ItemsOf(list) = set /\ \A i \in 1 .. L : list[i] \in 1 .. n
  BY DEF Lists, ItemsOf
<1>2. Lists(tail, T)
  <2>1. IsTail(SubSeq(list, s + 1, Len(list)), list, s)
    BY <1>1, TailLists
  <2> QED
    BY <2>1 DEF IsTail
<1>3. \A x \in T : x \in 1 .. n
  <2>1. \A i \in s + 1 .. L : i \in 1 .. L
    BY ONLY <1>1, s \in Nat
  <2> QED
    BY <1>1, <2>1 DEF Between
<1>4. \E b \in Nat : Between(list, s + 1, upto) = {x \in T : x >= b}
  <2>1. CASE upto <= s
    <3>1. s + 1 .. upto = {}
      BY <2>1
    <3>2. Between(list, s + 1, upto) = {}
      BY <3>1 DEF Between
    <3> HIDE DEF T
    <3>3. {x \in T : x >= n + 1} = {}
      BY <1>3
    <3>4. n + 1 \in Nat
      OBVIOUS
    <3> QED
      BY <3>2, <3>3, <3>4
  <2>2. CASE ~(upto <= s)
    <3>1. upto <= L /\ s + 1 <= upto /\ upto \in 1 .. L /\ upto \in s + 1 .. L
      BY ONLY <1>1, <2>2, upto = s \/ upto <= Len(list), s \in Nat, upto \in Nat
    <3> DEFINE b == list[upto]
    <3>2. b \in Nat
      BY <1>1, <3>1
    <3>3. ASSUME NEW i \in s + 1 .. L PROVE list[i] >= b <=> i <= upto
      <4>1. i \in 1 .. L /\ list[i] \in Nat /\ i \in Nat
        BY <1>1
      <4>2. i < upto => list[i] > b
        BY <1>1, <3>1, <4>1 DEF Falls
      <4>3. upto < i => b > list[i]
        BY <1>1, <3>1, <4>1 DEF Falls
      <4>4. i < upto \/ i = upto \/ upto < i
        BY ONLY <4>1, upto \in Nat
      <4>5. i = upto => list[i] = b
        OBVIOUS
      <4> HIDE DEF b
      <4> QED
        BY ONLY <3>2, <4>1, <4>2, <4>3, <4>4, <4>5, upto \in Nat
    <3> HIDE DEF b
    <3>4. \A i \in s + 1 .. upto : i \in s + 1 .. L /\ i <= upto
      BY ONLY <1>1, <3>1, s \in Nat, upto \in Nat
    <3>5. \A i \in s + 1 .. L : i <= upto => i \in s + 1 .. upto
      BY ONLY <1>1, <3>1, s \in Nat, upto \in Nat
    <3>6. Between(list, s + 1, upto) = {x \in T : x >= b}
      BY <3>3, <3>4, <3>5 DEF Between
    <3> QED
      BY <3>2, <3>6
  <2> QED
    BY <2>1, <2>2
<1> HIDE DEF tail, T
<1>5. IsPrefix(out, tail)
  BY <1>2, <1>4, LargestBegin
<1> QED
  BY <1>5 DEF tail

\* What a page by offset leaves.
OffsetReached(k, in, n, s, after, limit, upto) == OffsetTook(Newest(AskedOf(k, in, n)), s, after, limit, upto)

\* A page of a server without cursors goes on from the last, and a cursor of another server gets none.
LEMMA OffsetsReach ==
  ASSUME WalkInv, query.at = "page", Legacy,
         NEW page, PageAnswers(page)
  PROVE  /\ chain.from = Nowhere /\ chain.calls = 0 /\ NewestThen = roots /\ Len(page.items) \in Nat
         /\ OffsetReached(kind, chain.in, roots, chain.skipped,
                          AfterPage(query.walk, page.items, page.next, KeptOf(deployment, kind, chain.in)),
                          query.walk.limit, query.offset + Len(page.items))
<1> DEFINE in     == chain.in
           walk   == query.walk
           size   == SizeOf(walk, in)
           s      == chain.skipped
           offset == query.offset
           asked  == AskedOf(kind, in, roots)
           list   == Newest(asked)
           keep   == KeptOf(deployment, kind, in)
           items  == FirstOf(SubSeq(list, offset + 1, Len(list)), size)
           after  == AfterPage(walk, page.items, page.next, keep)
<1>1. walk \in Walks /\ s \in Nat /\ roots \in Nat /\ roots <= MaxRoots /\ offset \in Nat
  BY FieldsAre
<1>2. HasRoom(walk) /\ Answerable(deployment, in) /\ (Strayed \/ Started \/ ByOffset)
  BY DEF WalkInv, WalkOK, WithinWhole, Onwards, Legacy
<1>3. /\ size \in Nat \ {0} /\ (walk.skip = 0 => walk.limit = 0 \/ size <= walk.limit - Len(walk.out))
  BY <1>1, <1>2, SizeFits
<1>4. in.cmd \in HubCommands /\ EndpointOf(deployment, in) = "hub" /\ keep = Roots
  <2>1. in.cmd \in HubCommands /\ EndpointOf(deployment, in) = "hub"
    BY <1>2 DEF Answerable, OfHub, EndpointOf, Legacy
  <2> QED
    BY <2>1 DEF KeptOf
<1>5. ServedTo(deployment, kind, in, roots) = asked /\ asked \subseteq 1 .. roots /\ asked \subseteq keep
  <2> DEFINE serves == ServedTo(deployment, kind, in, roots)
  <2>1. roots <= roots
    BY <1>1
  <2>2. /\ asked \subseteq 1 .. roots /\ serves \subseteq 1 .. roots /\ asked \subseteq Roots /\ serves \subseteq Roots
        /\ \A x \in 1 .. roots : x \in asked <=> x \in serves \cap keep
    BY <1>1, <1>2, <2>1, FiltersAgree
  <2> HIDE DEF serves, asked, keep
  <2>3. serves = asked
    BY <1>4, <2>2
  <2> QED
    BY <1>4, <2>2, <2>3 DEF serves
<1>6. Lists(list, asked)
  <2>1. Lists(list, Roots \cap asked)
    BY NewestLists
  <2>2. Roots \cap asked = asked
    BY <1>4, <1>5
  <2> QED
    BY <2>1, <2>2
<1>7. query.legacy \/ walk.place = Nowhere
  BY <1>4 DEF PageAnswers, Pages, HubPages, Legacy
<1>8. page.items = items /\ page.next = IF Len(items) < size THEN Nowhere ELSE offset + Len(items)
  <2>1. Skipping(in, offset) = SubSeq(list, offset + 1, Len(list))
    BY <1>5, AfterIs DEF Skipping
  <2>2. page \in {[items |-> items, next |-> IF Len(items) < size THEN Nowhere ELSE offset + Len(items)]}
    BY <1>4, <1>7, <2>1 DEF PageAnswers, Pages, HubPages, Legacy
  <2> HIDE DEF items
  <2> QED
    BY <2>2
<1>9. Started \/ ByOffset
  BY <1>2, <1>7 DEF Strayed, Legacy
<1>10. chain.from = Nowhere /\ chain.calls = 0 /\ walk.skip = 0 /\ NewestThen = roots
  BY <1>9 DEF Started, ByOffset, NewestThen
<1>11. /\ s <= offset /\ (offset = s \/ offset <= Len(list)) /\ Lists(walk.out, Between(list, s + 1, offset))
  <2>1. CASE Started
    <3>1. offset = s /\ walk.out = <<>>
      BY <2>1 DEF Started
    <3>2. s + 1 .. s = {}
      BY <1>1
    <3>3. Between(list, s + 1, offset) = {}
      BY <3>1, <3>2 DEF Between
    <3>4. Lists(<<>>, {})
      BY DEF Lists, Falls, ItemsOf
    <3>5. s <= offset
      BY ONLY <1>1, <3>1
    <3> QED
      BY <3>1, <3>3, <3>4, <3>5
  <2>2. CASE ByOffset
    BY <1>10, <2>2 DEF ByOffset
  <2> QED
    BY <1>9, <2>1, <2>2
<1> HIDE DEF in, walk, size, s, offset, list, asked, keep
<1>12. Len(page.items) \in Nat /\ page.next \in Nat
  <2>1. list \in Seq(Nat) /\ Falls(list)
    BY <1>6 DEF Lists
  <2>2. IsTail(SubSeq(list, offset + 1, Len(list)), list, offset)
    BY <1>1, <2>1, TailLists
  <2> DEFINE tail == SubSeq(list, offset + 1, Len(list))
             m    == Min({size, Len(tail)})
  <2>3. tail \in Seq(Nat) /\ Len(tail) \in Nat
    BY <2>2 DEF IsTail
  <2>4. items = SubSeq(tail, 1, m)
    BY DEF FirstOf
  <2> HIDE DEF tail
  <2>5. m = IF size <= Len(tail) THEN size ELSE Len(tail)
    BY <1>3, <2>3, MinOfTwo
  <2> HIDE DEF m, items
  <2>6. m \in Nat /\ m <= Len(tail)
    BY ONLY <1>3, <2>3, <2>5
  <2>7. SubSeq(tail, 1, m) \in Seq(Nat)
    <3>1. \A i \in 1 .. m : tail[i] \in Nat
      BY <2>3, <2>6
    <3>2. 1 \in Int /\ m \in Int
      BY <2>6
    <3> QED
      BY <3>1, <3>2, SubSeqProperties
  <2>8. Len(items) \in Nat
    BY <2>4, <2>7
  <2>9. page.next \in Nat
    <3>1. offset + Len(items) \in Nat
      BY ONLY <1>1, <2>8
    <3> QED
      BY <1>8, <3>1 DEF Nowhere
  <2> QED
    BY <1>8, <2>8, <2>9
<1>13. OffsetReached(kind, in, roots, s, after, walk.limit, offset + Len(page.items))
  <2> DEFINE p    == page.items
             next == page.next
             upto == offset + Len(p)
  <2>1. p = FirstOf(SubSeq(list, offset + 1, Len(list)), size)
    BY <1>8
  <2>2. next \in Nat
    BY <1>12
  <2> HIDE DEF p, next, items
  <2>3. OffsetTook(list, s, after, walk.limit, upto)
    <3>1. walk.limit = 0 \/ size <= walk.limit - Len(walk.out)
      BY <1>3, <1>10
    <3>2. OffsetTook(list, s, AfterPage(walk, p, next, keep), walk.limit, upto)
      BY <1>1, <1>2, <1>3, <1>5, <1>6, <1>10, <1>11, <2>1, <2>2, <3>1, OffsetPage
    <3> QED
      BY <3>2 DEF p, next
  <2> QED
    BY <2>3 DEF OffsetReached, list, asked, p
<1> QED
  BY <1>10, <1>12, <1>13 DEF in, walk, s, offset, keep

\* Two things are equal or not.
LEMMA EqualOrNot == ASSUME NEW a, NEW b PROVE (a = b) \in BOOLEAN
OBVIOUS

\* What a step that fetches a page changes.
NextAt(in, walk) ==
  IF ~WalkEnds(walk) THEN "page"
  ELSE IF Fallback(in) THEN "hydrate"
  ELSE IF in.cmd = "trace export" THEN "export" ELSE "print"

Fetched(page, after) ==
  /\ after = AfterPage(query.walk, page.items, page.next, KeptOf(deployment, kind, chain.in)) /\ PageAnswers(page)
  /\ query'.walk = after /\ query'.offset = query.offset + Len(page.items) /\ query'.legacy = Legacy
  /\ query'.at = NextAt(chain.in, after) /\ query'.files = query.files /\ query'.hydrated = query.hydrated
  /\ query'.filled = query.filled /\ query'.left = query.left
  /\ query' = [at |-> query'.at, walk |-> query'.walk, offset |-> query'.offset, legacy |-> query'.legacy,
               hydrated |-> query'.hydrated, filled |-> query'.filled, left |-> query'.left, files |-> query'.files]
  /\ chain'.in = chain.in /\ chain'.got = chain.got /\ chain'.from = chain.from /\ chain'.skipped = chain.skipped
  /\ chain'.resume = chain.resume /\ chain'.calls = chain.calls /\ chain'.newest = NewestThen
  /\ chain' \in Chains /\ (chain.calls # 0 => chain' = chain)
  /\ deployment' = deployment /\ kind' = kind /\ roots' = roots

\* FetchPage fails or fetches one.
LEMMA FetchIs ==
  ASSUME WalkInv, FetchPage, ~QueryFails
  PROVE  \E page, after : Fetched(page, after)
<1>1. /\ query \in Queries(kind) /\ chain \in Chains /\ roots \in Nat /\ chain.newest \in Nat
  BY FieldsAre
<1>2. PICK page \in Pages(chain.in, PageSize(query.walk, MaxPageSize[Endpoint(chain.in)])) :
        LET walk == AfterPage(query.walk, page.items, page.next, ClientKeeps(chain.in))
        IN  /\ query' = [query EXCEPT !.walk = walk, !.offset = query.offset + Len(page.items),
                                      !.legacy = deployment = "legacy hub",
                                      !.at = IF ~WalkEnds(walk) THEN "page"
                                             ELSE IF Fallback(chain.in) THEN "hydrate"
                                             ELSE IF chain.in.cmd = "trace export" THEN "export" ELSE "print"]
            /\ chain' = IF chain.calls = 0 /\ query.walk.place = Nowhere THEN [chain EXCEPT !.newest = roots] ELSE chain
  BY Zenon DEF FetchPage
<1> DEFINE after == AfterPage(query.walk, page.items, page.next, KeptOf(deployment, kind, chain.in))
           more  == query.offset + Len(page.items)
           next  == NextAt(chain.in, after)
<1>3. PageAnswers(page)
  BY <1>2 DEF PageAnswers, SizeOf
<1>4. /\ query' = [query EXCEPT !.walk = after, !.offset = more, !.legacy = Legacy, !.at = next]
      /\ chain' = IF chain.calls = 0 /\ query.walk.place = Nowhere THEN [chain EXCEPT !.newest = roots] ELSE chain
  <2>1. ClientKeeps(chain.in) = KeptOf(deployment, kind, chain.in)
    BY FiltersAre
  <2> QED
    BY <1>2, <2>1 DEF NextAt, Legacy
<1>5. deployment' = deployment /\ kind' = kind /\ roots' = roots
  BY DEF FetchPage
<1> HIDE DEF after, more, next
<1>6. /\ query'.walk = after /\ query'.offset = more /\ query'.legacy = Legacy
      /\ query'.at = next /\ query'.files = query.files /\ query'.hydrated = query.hydrated
      /\ query'.filled = query.filled /\ query'.left = query.left
      /\ query' = [at |-> query'.at, walk |-> query'.walk, offset |-> query'.offset, legacy |-> query'.legacy,
                   hydrated |-> query'.hydrated, filled |-> query'.filled, left |-> query'.left, files |-> query'.files]
  BY <1>1, <1>4 DEF Queries
<1>7. /\ chain'.in = chain.in /\ chain'.got = chain.got /\ chain'.from = chain.from /\ chain'.skipped = chain.skipped
      /\ chain'.resume = chain.resume /\ chain'.calls = chain.calls /\ chain'.newest = NewestThen
      /\ chain' \in Chains /\ (chain.calls # 0 => chain' = chain)
  BY <1>1, <1>4 DEF Chains, NewestThen
<1>8. Fetched(page, after)
  BY <1>3, <1>5, <1>6, <1>7 DEF Fetched, after, more, next
<1> QED
  BY <1>8

\* The walk after a page, whichever way it goes on.
LEMMA FetchedWalk ==
  ASSUME WalkInv, query.at = "page", NEW page, NEW after, Fetched(page, after)
  PROVE  /\ after \in Walks /\ after.skip = 0 /\ after.limit = query.walk.limit /\ Len(page.items) \in Nat
         /\ chain.from = Nowhere /\ NewestThen # 0 /\ NewestThen \in Nat /\ NewestThen <= roots
         /\ ~Legacy => WalkReached(deployment, kind, chain.in, NewestThen, chain.skipped, after, query.walk.limit, chain.got, page)
         /\ Legacy => /\ chain.calls = 0 /\ NewestThen = roots
                      /\ OffsetReached(kind, chain.in, roots, chain.skipped, after, query.walk.limit, query.offset + Len(page.items))
<1>1. roots \in Nat /\ roots >= 1 /\ chain.newest \in Nat /\ chain.newest <= roots
  BY FieldsAre
<1>2. PageAnswers(page) /\ after = AfterPage(query.walk, page.items, page.next, KeptOf(deployment, kind, chain.in))
  BY DEF Fetched
<1>3. NewestThen \in Nat /\ NewestThen <= roots
  BY <1>1 DEF NewestThen
<1>4. CASE ~Legacy
  <2>1. WalkReached(deployment, kind, chain.in, NewestThen, chain.skipped, after, query.walk.limit, chain.got, page)
    BY <1>2, <1>4, CursorsReach
  <2>2. Started \/ WithinWhole \/ Onwards
    BY <1>4 DEF WalkInv, WalkOK, Strayed, ByOffset, Legacy
  <2>3. chain.from = Nowhere /\ (NewestThen = roots \/ (NewestThen = chain.newest /\ chain.newest # 0))
    BY <2>2 DEF Started, WithinWhole, Onwards, NewestThen
  <2>4. NewestThen # 0
    BY <1>1, <2>3
  <2> QED
    BY <1>3, <1>4, <2>1, <2>3, <2>4 DEF WalkReached
<1>5. CASE Legacy
  <2>1. /\ chain.from = Nowhere /\ chain.calls = 0 /\ NewestThen = roots /\ Len(page.items) \in Nat
        /\ OffsetReached(kind, chain.in, roots, chain.skipped, after, query.walk.limit, query.offset + Len(page.items))
    BY <1>2, <1>5, OffsetsReach
  <2>2. NewestThen # 0
    BY <1>1, <2>1
  <2> QED
    BY <1>3, <1>5, <2>1, <2>2 DEF OffsetReached, OffsetTook
<1> QED
  BY <1>4, <1>5

\* One request of a walk keeps the invariant, whichever server answers.
LEMMA FetchKeeps == WalkInv /\ FetchPage => WalkInv'
<1> SUFFICES ASSUME WalkInv, FetchPage PROVE WalkInv'
  OBVIOUS
<1>1. query.at = "page" /\ UNCHANGED <<deployment, kind, roots>>
  BY DEF FetchPage
<1>2. CASE QueryFails
  BY <1>1, <1>2, FailKeeps DEF QueryFails
<1>3. CASE ~QueryFails
  <2>1. PICK page, after : Fetched(page, after)
    BY <1>3, FetchIs
  <2> DEFINE upto == query.offset + Len(page.items)
             in   == chain.in
             s    == chain.skipped
             got  == chain.got
             n    == NewestThen
  <2>2. /\ after \in Walks /\ after.skip = 0 /\ after.limit = query.walk.limit /\ Len(page.items) \in Nat
        /\ chain.from = Nowhere /\ n # 0 /\ n \in Nat /\ n <= roots
        /\ ~Legacy => WalkReached(deployment, kind, in, n, s, after, query.walk.limit, got, page)
        /\ Legacy => chain.calls = 0 /\ n = roots /\ OffsetReached(kind, in, roots, s, after, query.walk.limit, upto)
    BY <1>1, <2>1, FetchedWalk
  <2>3. /\ query'.walk = after /\ query'.offset = upto /\ query'.legacy = Legacy
        /\ query'.at = NextAt(in, after) /\ query'.files = query.files /\ query'.hydrated = query.hydrated
        /\ query'.filled = query.filled /\ query'.left = query.left
        /\ query' = [at |-> query'.at, walk |-> query'.walk, offset |-> query'.offset, legacy |-> query'.legacy,
                     hydrated |-> query'.hydrated, filled |-> query'.filled, left |-> query'.left, files |-> query'.files]
        /\ chain'.in = in /\ chain'.got = got /\ chain'.from = chain.from /\ chain'.skipped = s
        /\ chain'.resume = chain.resume /\ chain'.calls = chain.calls /\ chain'.newest = n
        /\ chain' \in Chains /\ (chain.calls # 0 => chain' = chain)
        /\ deployment' = deployment /\ kind' = kind /\ roots' = roots
    BY <2>1 DEF Fetched
  <2>4. /\ query.offset \in Nat /\ query.hydrated \in Nat /\ query.filled \in SUBSET Nat /\ query.left \in SUBSET Nat
        /\ query.files \in Seq(PathsOf(kind)) /\ roots \in Roots /\ s \in Nat
        /\ roots \in Nat /\ roots <= MaxRoots
    <3>1. roots \in Roots
      BY DEF WalkInv, WalkTypes
    <3> QED
      BY <3>1, FieldsAre
  <2>5. NextAt(in, after) \in {"page", "hydrate", "export", "print"} /\ (NextAt(in, after) = "page" <=> ~WalkEnds(after))
    BY DEF NextAt
  <2>6. upto \in Nat /\ after.limit \in Nat /\ Len(after.out) \in Nat
    <3>1. upto \in Nat
      BY ONLY <2>2, <2>4
    <3>2. after.limit \in Nat /\ after.out \in Seq(Nat)
      BY <2>2 DEF Walks
    <3> QED
      BY <3>1, <3>2
  <2> HIDE DEF upto, in, s, got, n
  <2>7. Answerable(deployment, in) /\ (s = 0 \/ EndpointOf(deployment, in) = "hub")
    BY <1>1 DEF WalkInv, WalkOK, in, s
  <2>8. WalkTypes'
    <3>1. query' \in Queries(kind)
      <4>1. query'.at \in {"idle", "page", "hydrate", "export", "print"}
        BY <2>3, <2>5
      <4>2. query'.legacy \in BOOLEAN
        BY <2>3, EqualOrNot DEF Legacy
      <4> QED
        BY <2>2, <2>3, <2>4, <2>6, <4>1, <4>2 DEF Queries
    <3>2. WholeOf(deployment, in) /\ n # 0 => n = roots
      BY DEF NewestThen, WalkInv, WalkTypes, in, n
    <3>3. query'.legacy => deployment = "legacy hub"
      BY <2>3 DEF Legacy
    <3> QED
      BY <2>2, <2>3, <2>4, <3>1, <3>2, <3>3 DEF WalkTypes
  <2>9. ChainOK'
    <3>1. CASE chain.calls = 0
      <4>1. got = <<>>
        BY <3>1 DEF WalkInv, ChainOK, got
      <4> QED
        BY <2>3, <3>1, <4>1 DEF ChainOK
    <3>2. CASE chain.calls # 0
      <4>1. chain' = chain /\ ~Legacy
        BY <2>2, <2>3, <3>2
      <4> QED
        BY <2>3, <3>2, <4>1 DEF WalkInv, ChainOK, Legacy
    <3> QED
      BY <3>1, <3>2
  <2>10. WalkOK'
    <3>1. CASE ~WalkEnds(after)
      <4>1. after.place # Nowhere /\ HasRoom(after) /\ query'.at = "page"
        <5>1. after.place # Nowhere /\ ~(after.limit > 0 /\ Len(after.out) >= after.limit)
          BY <3>1 DEF WalkEnds
        <5>2. HasRoom(after)
          BY <2>6, <5>1 DEF HasRoom
        <5> QED
          BY <2>3, <2>5, <3>1, <5>1, <5>2
      <4>2. CASE Legacy
        <5>1. ByOffset'
          BY <2>2, <2>3, <4>1, <4>2 DEF ByOffset, OffsetReached, OffsetTook, Legacy
        <5> QED
          BY <1>1, <2>2, <2>3, <2>7, <4>1, <5>1 DEF WalkInv, WalkOK, in, s
      <4>3. CASE ~Legacy
        <5>1. /\ after.resume = PageCursor(after.place, 0)
              /\ HasReached(deployment, kind, in, n, s, after.resume, got \o after.out)
          BY <2>2, <4>1, <4>3 DEF WalkReached
        <5>2. Onwards'
          BY <2>2, <2>3, <4>1, <4>3, <5>1 DEF Onwards, Legacy
        <5> QED
          BY <1>1, <2>2, <2>3, <2>7, <4>1, <5>2 DEF WalkInv, WalkOK, in, s
      <4> QED
        BY <4>2, <4>3
    <3>2. CASE WalkEnds(after)
      <4>1. query'.at \in {"hydrate", "export", "print"}
        BY <2>3, <2>5, <3>2
      <4>2. after.limit = 0 => after.place = Nowhere
        BY <3>2 DEF WalkEnds
      <4>3. Collected'
        <5>1. CASE Legacy
          <6> DEFINE list == Newest(AskedOf(kind, in, roots))
                     asked == AskedOf(kind, in, roots)
          <6>1. Lists(list, asked) /\ asked \subseteq 1 .. roots
            BY <2>4, AllAreListed
          <6>2. (upto = s \/ upto <= Len(list)) /\ Lists(after.out, Between(list, s + 1, upto))
            BY <2>2, <5>1 DEF OffsetReached, OffsetTook
          <6> HIDE DEF list, asked
          <6>3. IsPrefix(after.out, SubSeq(list, s + 1, Len(list)))
            BY <2>4, <2>6, <6>1, <6>2, OffsetBegins
          <6>4. IsPrefix(after.out, AllOf(kind, in, roots, s))
            BY <6>3 DEF AllOf, list
          <6> QED
            BY <2>2, <2>3, <5>1, <6>4 DEF Collected, Legacy
        <5>2. CASE ~Legacy
          <6>1. HasReached(deployment, kind, in, n, s, after.resume, got \o after.out)
            BY <2>2, <5>2 DEF WalkReached
          <6>2. after.limit = 0 => after.resume = FirstCursor
            BY <2>2, <4>2, <5>2 DEF WalkReached
          <6> QED
            BY <2>2, <2>3, <5>2, <6>1, <6>2 DEF Collected, Legacy
        <5> QED
          BY <5>1, <5>2
      <4> QED
        BY <1>1, <2>2, <2>3, <2>7, <4>1, <4>3 DEF WalkInv, WalkOK, in, s
    <3> QED
      BY <3>1, <3>2
  <2>11. OutputOK'
    <3>1. query.files = <<>> /\ query.hydrated = 0
      BY <1>1 DEF WalkInv, OutputOK
    <3>2. NextAt(in, after) = "hydrate" => in.cmd = "trace list"
      BY DEF NextAt, Fallback
    <3>3. NextAt(in, after) = "export" => in.cmd = "trace export"
      BY DEF NextAt
    <3>4. NextAt(in, after) = "print" => in.cmd # "trace export" /\ ~(in.cmd = "trace list" /\ EndpointOf(deployment, in) = "runs")
      BY DEF NextAt, Fallback, EndpointOf, HubCommands
    <3>5. Len(query'.files) = 0 /\ Len(query'.files) <= Len(query'.walk.out) /\ 1 .. Len(query'.files) = {}
      BY <2>3, <2>6, <3>1
    <3>6. Hydrated'
      BY <2>3, <2>6, <3>1 DEF Hydrated
    <3> QED
      BY <2>3, <3>1, <3>2, <3>3, <3>4, <3>5, <3>6 DEF OutputOK
  <2> QED
    BY <2>8, <2>9, <2>10, <2>11 DEF WalkInv
<1> QED
  BY <1>2, <1>3

-----------------------------------------------------------------------------
(* What the invariant of the lists says of what is printed.                *)

\* Every step of the lists keeps the invariant.
LEMMA WalkNext == WalkInv /\ [QueryNext]_queryVars => WalkInv'
<1> SUFFICES ASSUME WalkInv, [QueryNext]_queryVars PROVE WalkInv'
  OBVIOUS
<1>1. CASE UNCHANGED queryVars
  <2>1. deployment' = deployment /\ kind' = kind /\ roots' = roots /\ query' = query /\ chain' = chain
    BY <1>1 DEF queryVars
  <2>2. WalkTypes' /\ ChainOK'
    BY <2>1 DEF WalkInv, WalkTypes, ChainOK
  <2>3. (Strayed <=> Strayed') /\ (Started <=> Started')
    BY <2>1 DEF Strayed, Started
  <2>4. WithinWhole <=> WithinWhole'
    BY <2>1 DEF WithinWhole
  <2>5. Onwards <=> Onwards'
    BY <2>1 DEF Onwards
  <2>6. ByOffset <=> ByOffset'
    BY <2>1 DEF ByOffset
  <2>7. Collected <=> Collected'
    BY <2>1 DEF Collected
  <2>8. WalkOK'
    BY <2>1, <2>3, <2>4, <2>5, <2>6, <2>7 DEF WalkInv, WalkOK
  <2>9. OutputOK'
    BY <2>1 DEF WalkInv, OutputOK, Hydrated
  <2> QED
    BY <2>2, <2>8, <2>9 DEF WalkInv
<1>2. CASE QueryNext
  <2>1. ASSUME NEW in \in QueryInputs,
               \/ TraceList(in) \/ RunList(in) \/ RunExport(in) \/ TraceExport(in) \/ ThreadList(in) \/ ThreadGet(in)
               \/ HubList(in) \/ PromptList(in) \/ PromptCommits(in)
        PROVE  WalkInv'
    BY <2>1, CommandsKeep
  <2> QED
    BY <1>2, <2>1, FetchKeeps, HydrateKeeps, ExportKeeps, PrintListKeeps, ArriveKeeps DEF QueryNext
<1> QED
  BY <1>1, <1>2

\* AskedFor, of the state.
LEMMA AskedForIs == ASSUME NEW in, NEW n PROVE AskedFor(in, n) = AskedOf(kind, in, n)
BY DEF AskedFor, AskedOf, OfRuns

\* Nothing begins every list.
LEMMA NoneBegins ==
  ASSUME NEW n \in Nat, NEW set \in SUBSET (1 .. n), NEW list, Lists(list, set)
  PROVE  IsPrefix(<<>>, list) /\ Lists(<<>>, {}) /\ IsPrefix(<<>>, <<>>)
<1>1. Lists(<<>>, {})
  BY DEF Lists, Falls, ItemsOf
<1>2. \A x \in set : x \in Nat /\ ~(x >= n + 1)
  OBVIOUS
<1>3. {} = {x \in set : x >= n + 1} /\ {} = {x \in {} : x >= n + 1}
  BY <1>2
<1>4. n + 1 \in Nat
  OBVIOUS
<1> QED
  BY <1>1, <1>3, <1>4, LargestBegin

\* What was printed is exact.
LEMMA ListsFollow == WalkInv => ListsAreExact
<1> SUFFICES ASSUME WalkInv PROVE ListsAreExact
  OBVIOUS
<1> DEFINE in  == chain.in
           n   == chain.newest
           s   == chain.skipped
           all == AllOf(kind, in, n, s)
<1>1. n \in Nat /\ n <= MaxRoots /\ s \in Nat /\ chain.calls \in Nat
  BY FieldsAre
<1>2. /\ Lists(all, MatchedOf(kind, in, n, s)) /\ MatchedOf(kind, in, n, s) \subseteq 1 .. n
  BY <1>1, AllAreListed
<1>3. all = LET asked == Newest(AskedFor(chain.in, chain.newest)) IN SubSeq(asked, chain.skipped + 1, Len(asked))
  BY AskedForIs DEF AllOf
<1> HIDE DEF all
<1>4. IsPrefix(<<>>, all) /\ IsPrefix(<<>>, <<>>)
  BY <1>1, <1>2, NoneBegins
<1>5. CASE chain.calls = 0
  <2>1. chain.got = <<>> /\ ~(chain.calls > 0)
    BY <1>5 DEF WalkInv, ChainOK
  <2>2. IsPrefix(chain.got, IF chain.from = Nowhere THEN all ELSE <<>>)
    BY <1>4, <2>1
  <2> QED
    BY <1>3, <2>1, <2>2 DEF ListsAreExact
<1>6. CASE chain.calls # 0
  <2>1. /\ chain.from = Nowhere /\ Answerable(deployment, in)
        /\ Legacy => IsPrefix(chain.got, all)
        /\ ~Legacy => HasReached(deployment, kind, in, n, s, chain.resume, chain.got)
    BY <1>6 DEF WalkInv, ChainOK, Legacy, all
  <2>2. ~Legacy => IsPrefix(chain.got, all) /\ (chain.resume = FirstCursor => chain.got = all)
    BY <1>1, <2>1, ReachedIsExact DEF all
  <2>3. IsPrefix(chain.got, IF chain.from = Nowhere THEN all ELSE <<>>)
    BY <2>1, <2>2
  <2>4. chain.resume = FirstCursor /\ ~Legacy => chain.got = all
    BY <2>2
  <2> QED
    BY <1>3, <2>3, <2>4 DEF ListsAreExact, Legacy
<1> QED
  BY <1>5, <1>6

\* As many files as there are places on different paths.
LEMMA FilesAreMany ==
  ASSUME NEW files, NEW L \in Nat, files \in [1 .. L -> Range(files)], \A m, n \in 1 .. L : m # n => files[m] # files[n]
  PROVE  Cardinality(Range(files)) = L
<1>1. DOMAIN files = 1 .. L
  OBVIOUS
<1>2. files \in Bijection(1 .. L, Range(files))
  BY <1>1 DEF Bijection, Injection, Surjection, IsInjective, Range
<1>3. ExistsBijection(1 .. L, Range(files))
  BY <1>2 DEF ExistsBijection
<1>4. IsFiniteSet(1 .. L) /\ Cardinality(1 .. L) = L
  <2>1. 1 \in Int /\ L \in Int
    OBVIOUS
  <2>2. Cardinality(1 .. L) = IF 1 > L THEN 0 ELSE L - 1 + 1
    BY <2>1, FS_Interval
  <2> QED
    BY <2>1, <2>2, FS_Interval
<1> QED
  BY <1>3, <1>4, FS_Bijection

\* The traces of a thread.
OfThread(n, thread) == {root \in 1 .. n : kind[root].thread = thread}

\* A thread is in as many places of a list of all traces as it has traces.
LEMMA ThreadsAreCounted ==
  ASSUME NEW n \in Nat, NEW out, Lists(out, 1 .. n), NEW thread
  PROVE  Cardinality(InThread(out, thread)) = Cardinality(OfThread(n, thread))
<1> DEFINE S == {i \in DOMAIN out : kind[out[i]].thread = thread}
           T == {root \in 1 .. n : kind[root].thread = thread}
           f == [i \in S |-> out[i]]
           L == Len(out)
<1>1. out \in Seq(Nat) /\ L \in Nat /\ DOMAIN out = 1 .. L /\ ItemsOf(out) = 1 .. n /\ Falls(out)
  BY DEF Lists
<1>2. \A i \in 1 .. L : out[i] \in 1 .. n
  BY <1>1 DEF ItemsOf
<1>3. \A r \in 1 .. n : \E i \in 1 .. L : out[i] = r
  BY <1>1 DEF ItemsOf
<1>4. ASSUME NEW i \in 1 .. L, NEW j \in 1 .. L, out[i] = out[j] PROVE i = j
  <2>1. out[i] \in Nat /\ i \in Nat /\ j \in Nat
    BY <1>1
  <2>2. i < j => out[i] > out[j]
    BY <1>1 DEF Falls
  <2>3. j < i => out[j] > out[i]
    BY <1>1 DEF Falls
  <2> QED
    BY <1>4, <2>1, <2>2, <2>3
<1>5. S \subseteq 1 .. L /\ IsFiniteSet(S)
  <2>1. 1 \in Int /\ L \in Int
    BY <1>1
  <2>2. IsFiniteSet(1 .. L)
    BY <2>1, FS_Interval
  <2>3. S \in SUBSET (1 .. L)
    BY <1>1
  <2> QED
    BY <2>2, <2>3, FS_Subset
<1>6. f \in [S -> T]
  BY <1>1, <1>2
<1>7. \A i, j \in S : f[i] = f[j] => i = j
  BY <1>4, <1>5
<1>8. \A r \in T : \E i \in S : f[i] = r
  BY <1>1, <1>3
<1> HIDE DEF f, S, T
<1>9. f \in Bijection(S, T)
  <2>1. IsInjective(f)
    <3>1. DOMAIN f = S
      BY <1>6
    <3> QED
      BY <1>7, <3>1 DEF IsInjective
  <2> QED
    BY <1>6, <1>8, <2>1 DEF Bijection, Injection, Surjection
<1>10. ExistsBijection(S, T)
  BY <1>9 DEF ExistsBijection
<1>11. Cardinality(T) = Cardinality(S)
  BY <1>5, <1>10, FS_Bijection
<1> QED
  BY <1>11 DEF S, T, InThread, OfThread

\* Nothing is added at the beginning.
LEMMA NoneAtFirst == ASSUME NEW seq \in Seq(Nat) PROVE <<>> \o seq = seq
<1>1. <<>> \in Seq(Nat) /\ Len(<<>>) = 0
  OBVIOUS
<1>2. /\ <<>> \o seq \in Seq(Nat) /\ Len(<<>> \o seq) = 0 + Len(seq)
      /\ \A i \in 1 .. Len(seq) : (<<>> \o seq)[0 + i] = seq[i]
  BY <1>1, ConcatIs
<1>3. Len(<<>> \o seq) = Len(seq) /\ \A i \in 1 .. Len(seq) : (<<>> \o seq)[i] = seq[i]
  BY <1>2
<1> QED
  BY <1>2, <1>3, SeqEqual

\* All traces are read before threads are printed.
LEMMA ThreadsAreWhole ==
  ASSUME WalkInv, query.at = "print", chain.in.cmd = "thread list"
  PROVE  Lists(query.walk.out, 1 .. chain.newest)
<1> DEFINE in  == chain.in
           n   == chain.newest
           s   == chain.skipped
           out == query.walk.out
<1>1. n \in Nat /\ n <= MaxRoots /\ s \in Nat /\ out \in Seq(Nat)
  BY FieldsAre
<1>2. /\ Answerable(deployment, in) /\ (s = 0 \/ EndpointOf(deployment, in) = "hub") /\ Collected
      /\ query.walk.limit = 0 /\ chain.calls = 0 /\ ~in.min /\ ~in.window
  BY DEF WalkInv, WalkOK
<1>3. ~Legacy /\ s = 0
  BY <1>2 DEF Answerable, OfHub, EndpointOf, HubCommands, Legacy
<1>4. query.walk.resume = FirstCursor /\ HasReached(deployment, kind, in, n, s, query.walk.resume, chain.got \o out)
  BY <1>2, <1>3 DEF Collected, Legacy
<1>5. chain.got \o out = out
  <2>1. chain.got = <<>>
    BY <1>2 DEF WalkInv, ChainOK
  <2> QED
    BY <1>1, <2>1, NoneAtFirst
<1> HIDE DEF in, n, s, out
<1>6. out = AllOf(kind, in, n, s)
  <2>1. HasReached(deployment, kind, in, n, s, FirstCursor, out)
    BY <1>4, <1>5
  <2> QED
    BY ONLY <1>1, <1>2, <2>1, ReachedIsExact
<1>7. Lists(out, AskedOf(kind, in, n))
  BY <1>1, <1>3, <1>6, AllAreListed
<1>8. AskedOf(kind, in, n) = 1 .. n
  BY <1>2 DEF AskedOf, in
<1> QED
  BY <1>7, <1>8 DEF out, n

\* A summary counts the places of its thread.
LEMMA SummariesCount ==
  ASSUME NEW out, NEW limit, NEW n \in DOMAIN ThreadSummaries(out, limit)
  PROVE  ThreadSummaries(out, limit)[n].count = Cardinality(InThread(out, ThreadSummaries(out, limit)[n].thread))
BY Zenon DEF ThreadSummaries

\* What is printed is whole.
LEMMA OutputsFollow == WalkInv => OutputsAreWhole
<1> SUFFICES ASSUME WalkInv, query.at = "print"
             PROVE  /\ chain.in.cmd = "trace list" /\ Endpoint(chain.in) = "runs" => Range(query.walk.out) \subseteq query.filled \cup query.left
                    /\ chain.in.cmd = "trace export" => Cardinality(Range(query.files)) = Len(query.walk.out)
                    /\ chain.in.cmd = "thread list" =>
                         \A n \in DOMAIN ThreadSummaries(query.walk.out, chain.in.limit) :
                           LET summary == ThreadSummaries(query.walk.out, chain.in.limit)[n]
                           IN  summary.count = Cardinality({root \in 1 .. chain.newest : kind[root].thread = summary.thread})
  BY Zenon DEF OutputsAreWhole
<1> DEFINE out   == query.walk.out
           files == query.files
           L     == Len(out)
<1>1. /\ L \in Nat /\ DOMAIN out = 1 .. L /\ files \in Seq(PathsOf(kind)) /\ chain.newest \in Nat
  BY FieldsAre
<1>2. chain.in.cmd = "trace list" /\ Endpoint(chain.in) = "runs" => Range(out) \subseteq query.filled \cup query.left
  BY <1>1, FiltersAre DEF WalkInv, OutputOK, Hydrated, Range
<1>3. ASSUME chain.in.cmd = "trace export"
      PROVE  Cardinality(Range(files)) = L
  <2>1. /\ Len(files) = L /\ ~Collides(kind, chain.in, out)
        /\ \A n \in 1 .. Len(files) : files[n] = PathOf(kind, chain.in, out[n])
    BY <1>3 DEF WalkInv, OutputOK
  <2> HIDE DEF files, out
  <2>2. \A m, n \in 1 .. L : m # n => files[m] # files[n]
    BY <2>1 DEF Collides
  <2>3. files \in [1 .. L -> Range(files)]
    BY <1>1, <2>1 DEF Range
  <2> QED
    BY <1>1, <2>2, <2>3, FilesAreMany
<1>4. ASSUME chain.in.cmd = "thread list", NEW n \in DOMAIN ThreadSummaries(out, chain.in.limit)
      PROVE  LET summary == ThreadSummaries(out, chain.in.limit)[n]
             IN  summary.count = Cardinality({root \in 1 .. chain.newest : kind[root].thread = summary.thread})
  <2> DEFINE summary == ThreadSummaries(out, chain.in.limit)[n]
             thread  == summary.thread
  <2>1. summary.count = Cardinality(InThread(out, thread))
    BY SummariesCount
  <2>2. Lists(out, 1 .. chain.newest)
    BY <1>4, ThreadsAreWhole
  <2> HIDE DEF thread
  <2>3. Cardinality(InThread(out, thread)) = Cardinality({root \in 1 .. chain.newest : kind[root].thread = thread})
    BY <1>1, <2>2, ThreadsAreCounted DEF OfThread
  <2> QED
    BY <2>1, <2>3 DEF thread
<1> QED
  BY <1>2, <1>3, <1>4

(***************************************************************************)
(* Chains of calls print exactly the items that match their flags, and     *)
(* whole ones, however many traces there are, however long the pages, and  *)
(* whatever arrives between them: ListsAreExact and OutputsAreWhole, of    *)
(* collectPages and the commands around it.                                *)
(***************************************************************************)
THEOREM ListsAreTrue == QuerySpec => [](ListsAreExact /\ OutputsAreWhole)
<1>1. WalkInv => ListsAreExact /\ OutputsAreWhole
  BY ListsFollow, OutputsFollow
<1> QED
  BY WalkInit, WalkNext, <1>1, PTL DEF QuerySpec

(***************************************************************************)
(* A command that lists beside one that looks a trace or a run up, or      *)
(* beside none, on the same server: QueriesAreExact, whatever the order of *)
(* their steps.                                                            *)
(***************************************************************************)
THEOREM QueriesAreTrue ==
  QuerySpec /\ (LookupSpec \/ [](sought = NoLookup)) => []QueriesAreExact
<1>1. ListsAreExact /\ OutputsAreWhole /\ LookupsTellTheTruth => QueriesAreExact
  BY DEF QueriesAreExact
<1>2. sought = NoLookup => LookupsTellTheTruth
  BY DEF NoLookup, LookupsTellTheTruth
<1> QED
  BY ListsAreTrue, LookupsAreTrue, <1>1, <1>2, PTL

-----------------------------------------------------------------------------
\* Sequences: what is picked, joined and flattened.


\* What is kept of the first places depends on these places only.
LEMMA KeptAlike ==
  ASSUME NEW a, NEW b, NEW p, NEW q, NEW f, NEW g, NEW n \in Nat, NEW m \in Nat, n <= m,
         KeepsPlaces(a, p, f, n), KeepsPlaces(b, q, g, m),
         \A i \in 1 .. n : a[i] = b[i] /\ (i \in p <=> i \in q)
  PROVE  f[n] = g[n]
<1> DEFINE T == {i \in 0 .. n : f[i] # g[i]}
<1> SUFFICES ASSUME T # {} PROVE FALSE
  OBVIOUS
<1>1. \A i \in 0 .. n : f[i] = IF i = 0 THEN <<>> ELSE IF i \in p THEN Append(f[i - 1], a[i]) ELSE f[i - 1]
  BY DEF KeepsPlaces
<1>2. \A i \in 0 .. m : g[i] = IF i = 0 THEN <<>> ELSE IF i \in q THEN Append(g[i - 1], b[i]) ELSE g[i - 1]
  BY DEF KeepsPlaces
<1>3. PICK i \in T : \A k \in T : i <= k
  <2>1. T \in SUBSET Nat
    OBVIOUS
  <2> HIDE DEF T
  <2> QED
    BY <2>1, LeastIsThere
<1>4. i \in 0 .. n /\ i \in 0 .. m /\ 0 \in 0 .. n /\ 0 \in 0 .. m /\ f[i] # g[i]
  OBVIOUS
<1>5. i # 0
  BY <1>1, <1>2, <1>4
<1>6. i \in 1 .. n /\ i - 1 \in 0 .. n /\ ~(i <= i - 1)
  BY ONLY <1>4, <1>5, n \in Nat
<1>7. f[i - 1] = g[i - 1]
  BY <1>3, <1>6
<1>8. a[i] = b[i] /\ (i \in p <=> i \in q)
  BY <1>6
<1> HIDE DEF T
<1> QED
  BY <1>1, <1>2, <1>4, <1>5, <1>7, <1>8

\* What is picked of a sequence, one item after the other.
LEMMA PickedIsKept ==
  ASSUME NEW S, NEW items \in Seq(S), NEW keep
  PROVE  \E f : KeepsPlaces(items, {i \in DOMAIN items : items[i] \in keep}, f, Len(items)) /\ Picked(items, keep) = f[Len(items)]
<1>1. Picked(items, keep) = Wanted(items, keep)
  BY DEF Picked, Wanted
<1> QED
  BY <1>1, WantedIsKept

LEMMA PickedNone == ASSUME NEW keep PROVE Picked(<<>>, keep) = <<>>
<1>1. <<>> \in Seq({}) /\ Len(<<>>) = 0
  OBVIOUS
<1> DEFINE places == {i \in DOMAIN <<>> : <<>>[i] \in keep}
<1>2. PICK f : KeepsPlaces(<<>>, places, f, Len(<<>>)) /\ Picked(<<>>, keep) = f[Len(<<>>)]
  BY <1>1, PickedIsKept
<1>3. KeepsPlaces(<<>>, places, f, 0) /\ Picked(<<>>, keep) = f[0]
  BY <1>1, <1>2
<1> HIDE DEF places
<1> QED
  BY <1>3 DEF KeepsPlaces

PickedAfter(picked, e, keep) == IF e \in keep THEN Append(picked, e) ELSE picked

LEMMA PickedNext ==
  ASSUME NEW S, NEW s \in Seq(S), NEW e \in S, NEW keep
  PROVE  /\ Picked(s, keep) \in Seq(S)
         /\ Picked(Append(s, e), keep) = PickedAfter(Picked(s, keep), e, keep)
<1> DEFINE t == Append(s, e)
           n == Len(s)
           p == {i \in DOMAIN s : s[i] \in keep}
           q == {i \in DOMAIN t : t[i] \in keep}
<1>1. /\ t \in Seq(S) /\ Len(t) = n + 1 /\ n \in Nat /\ DOMAIN t = 1 .. n + 1 /\ DOMAIN s = 1 .. n
      /\ \A i \in 1 .. n : t[i] = s[i]
      /\ t[n + 1] = e
  BY AppendIs
<1>2. PICK f : KeepsPlaces(s, p, f, n) /\ Picked(s, keep) = f[n]
  BY PickedIsKept
<1>3. PICK g : KeepsPlaces(t, q, g, n + 1) /\ Picked(t, keep) = g[n + 1]
  <2> HIDE DEF t
  <2>1. \E g : KeepsPlaces(t, q, g, Len(t)) /\ Picked(t, keep) = g[Len(t)]
    BY <1>1, PickedIsKept
  <2> QED
    BY <1>1, <2>1
<1>4. \A i \in 1 .. n : s[i] = t[i] /\ (i \in p <=> i \in q)
  BY <1>1
<1>5. n + 1 \in q <=> e \in keep
  BY <1>1
<1>6. f[n] \in Seq(S)
  <2> HIDE DEF p
  <2> QED
    BY <1>2, KeptOfSequence
<1> HIDE DEF t, p, q, n
<1>7. f[n] = g[n]
  <2> DEFINE m == n + 1
  <2>1. n \in Nat /\ m \in Nat /\ n <= m
    BY <1>1
  <2>2. KeepsPlaces(s, p, f, n) /\ KeepsPlaces(t, q, g, m)
    BY <1>2, <1>3
  <2> HIDE DEF m
  <2> QED
    BY ONLY <1>4, <2>1, <2>2, KeptAlike
<1>8. g[n + 1] = IF n + 1 \in q THEN Append(g[n], t[n + 1]) ELSE g[n]
  <2> DEFINE m == n + 1
  <2>1. m \in 0 .. m /\ m # 0 /\ m - 1 = n
    BY <1>1
  <2>2. KeepsPlaces(t, q, g, m)
    BY <1>3
  <2> HIDE DEF m
  <2>3. \A i \in 0 .. m : g[i] = IF i = 0 THEN <<>> ELSE IF i \in q THEN Append(g[i - 1], t[i]) ELSE g[i - 1]
    BY <2>2 DEF KeepsPlaces
  <2>4. g[m] = IF m \in q THEN Append(g[n], t[m]) ELSE g[n]
    BY ONLY <2>1, <2>3
  <2> QED
    BY <2>4 DEF m
<1>9. g[n + 1] = IF e \in keep THEN Append(f[n], e) ELSE f[n]
  BY <1>1, <1>5, <1>7, <1>8
<1> QED
  BY <1>2, <1>3, <1>6, <1>9 DEF t, PickedAfter

LEMMA NothingPicked ==
  ASSUME NEW S, NEW s \in Seq(S), NEW keep, \A i \in 1 .. Len(s) : s[i] \notin keep
  PROVE  Picked(s, keep) = <<>>
<1> DEFINE places == {i \in DOMAIN s : s[i] \in keep}
<1>1. PICK f : KeepsPlaces(s, places, f, Len(s)) /\ Picked(s, keep) = f[Len(s)]
  BY PickedIsKept
<1>2. places = {}
  OBVIOUS
<1> HIDE DEF places
<1>3. /\ f[Len(s)] \in Seq(S)
      /\ \A k \in 1 .. Len(f[Len(s)]) : \E i \in 1 .. Len(s) : i \in places /\ f[Len(s)][k] = s[i]
  BY <1>1, KeptAre
<1>4. Len(f[Len(s)]) = 0
  <2> DEFINE n == Len(f[Len(s)])
  <2>1. n \in Nat /\ \A k \in 1 .. n : FALSE
    BY <1>2, <1>3
  <2> HIDE DEF n
  <2>2. n = 0
    BY ONLY <2>1
  <2> QED
    BY <2>2 DEF n
<1> QED
  BY <1>1, <1>3, <1>4

LEMMA AllPicked ==
  ASSUME NEW S, NEW s \in Seq(S), NEW keep, \A i \in 1 .. Len(s) : s[i] \in keep
  PROVE  Picked(s, keep) = s
<1> DEFINE places == {i \in DOMAIN s : s[i] \in keep}
<1>1. PICK f : KeepsPlaces(s, places, f, Len(s)) /\ Picked(s, keep) = f[Len(s)]
  BY PickedIsKept
<1>2. DOMAIN s \subseteq places
  OBVIOUS
<1> HIDE DEF places
<1> QED
  BY <1>1, <1>2, KeptOfSequence

\* A prefix, and the one that is longer by an item.
LEMMA PrefixNext ==
  ASSUME NEW S, NEW s \in Seq(S), NEW n \in Nat, n < Len(s)
  PROVE  /\ SubSeq(s, 1, n) \in Seq(S) /\ Len(SubSeq(s, 1, n)) = n /\ s[n + 1] \in S
         /\ SubSeq(s, 1, n + 1) = Append(SubSeq(s, 1, n), s[n + 1])
<1> DEFINE a == SubSeq(s, 1, n)
           b == SubSeq(s, 1, n + 1)
           e == s[n + 1]
<1>1. Len(s) \in Nat /\ \A i \in 1 .. Len(s) : s[i] \in S
  OBVIOUS
<1>2. \A i \in 1 .. n + 1 : s[i] \in S
  BY <1>1
<1>3. a \in Seq(S) /\ Len(a) = n /\ \A i \in 1 .. n : a[i] = s[i]
  <2>1. \A i \in 1 .. n : s[i] \in S /\ 1 + i - 1 = i
    BY <1>2
  <2>2. /\ SubSeq(s, 1, n) \in Seq(S) /\ Len(SubSeq(s, 1, n)) = (IF 1 <= n THEN n - 1 + 1 ELSE 0)
        /\ \A i \in 1 .. n - 1 + 1 : SubSeq(s, 1, n)[i] = s[1 + i - 1]
    BY <2>1, SubSeqProperties
  <2> QED
    BY <2>1, <2>2
<1>4. b \in Seq(S) /\ Len(b) = n + 1 /\ \A i \in 1 .. n + 1 : b[i] = s[i]
  <2>1. \A i \in 1 .. n + 1 : s[i] \in S /\ 1 + i - 1 = i
    BY <1>2
  <2>2. /\ SubSeq(s, 1, n + 1) \in Seq(S) /\ Len(SubSeq(s, 1, n + 1)) = (IF 1 <= n + 1 THEN n + 1 - 1 + 1 ELSE 0)
        /\ \A i \in 1 .. n + 1 - 1 + 1 : SubSeq(s, 1, n + 1)[i] = s[1 + i - 1]
    BY <2>1, SubSeqProperties
  <2> QED
    BY <2>1, <2>2
<1>5. e \in S
  BY <1>1
<1> HIDE DEF a, b
<1>6. /\ Append(a, e) \in Seq(S) /\ Len(Append(a, e)) = n + 1
      /\ \A i \in 1 .. n : Append(a, e)[i] = a[i]
      /\ Append(a, e)[n + 1] = e
  <2> HIDE DEF e
  <2> QED
    BY <1>3, <1>5, AppendIs
<1>7. \A i \in 1 .. n + 1 : b[i] = Append(a, e)[i]
  BY <1>3, <1>4, <1>6
<1>8. b = Append(a, e)
  <2> HIDE DEF e
  <2> QED
    BY <1>4, <1>6, <1>7, SeqEqual
<1> QED
  BY <1>3, <1>5, <1>8 DEF a, b

LEMMA PrefixNone ==
  ASSUME NEW S, NEW s \in Seq(S)
  PROVE  SubSeq(s, 1, 0) = <<>> /\ SubSeq(s, 1, Len(s)) = s
BY SubSeqEmpty, SubSeqFull

LEMMA ConcatNext ==
  ASSUME NEW S, NEW a \in Seq(S), NEW b \in Seq(S), NEW e \in S
  PROVE  a \o Append(b, e) = Append(a \o b, e)
<1> DEFINE one == <<e>>
<1>1. Append(b, e) = b \o one /\ Append(a \o b, e) = (a \o b) \o one /\ one \in Seq(S)
  OBVIOUS
<1> HIDE DEF one
<1> QED
  BY <1>1, ConcatAssociative

LEMMA PickedConcat ==
  ASSUME NEW S, NEW a \in Seq(S), NEW b \in Seq(S), NEW keep
  PROVE  Picked(a \o b, keep) = Picked(a, keep) \o Picked(b, keep)
<1> DEFINE P(n) == SubSeq(b, 1, n)
           Good(n) == Picked(a \o P(n), keep) = Picked(a, keep) \o Picked(P(n), keep)
           T == {n \in 0 .. Len(b) : ~Good(n)}
<1>0. Len(b) \in Nat /\ a \o <<>> = a
  OBVIOUS
<1>1. Picked(a, keep) \in Seq(S)
  <2> DEFINE e == CHOOSE x \in S : TRUE
  <2>1. CASE S = {}
    <3>1. a = <<>>
      BY <2>1
    <3>2. <<>> \in Seq(S)
      OBVIOUS
    <3> QED
      BY <3>1, <3>2, PickedNone
  <2>2. CASE S # {}
    BY <2>2, PickedNext
  <2> QED
    BY <2>1, <2>2
<1>2. ASSUME NEW m \in T, \A k \in T : m <= k
      PROVE  FALSE
  <2>1. m # 0
    <3>1. P(0) = <<>> /\ Picked(<<>>, keep) = <<>> /\ Picked(a, keep) \o <<>> = Picked(a, keep)
      BY <1>1, PrefixNone, PickedNone
    <3>2. Good(0)
      BY <1>0, <3>1
    <3> HIDE DEF Good
    <3> QED
      BY <1>2, <3>2
  <2>2. m \in Nat /\ m - 1 \in Nat /\ m - 1 < Len(b) /\ m - 1 + 1 = m /\ m - 1 \in 0 .. Len(b) /\ ~(m <= m - 1)
    <3>1. m \in 0 .. Len(b)
      OBVIOUS
    <3> HIDE DEF T
    <3> QED
      BY <1>0, <2>1, <3>1
  <2>3. Good(m - 1) /\ ~Good(m)
    <3>1. m - 1 \notin T
      BY <1>2, <2>2
    <3> HIDE DEF Good
    <3> QED
      BY <2>2, <3>1
  <2> DEFINE p == P(m - 1)
             e == b[m]
  <2>4. p \in Seq(S) /\ e \in S /\ P(m) = Append(p, e)
    BY <2>2, PrefixNext
  <2>5. Picked(a \o p, keep) = Picked(a, keep) \o Picked(p, keep)
    BY <2>3
  <2> HIDE DEF p, e, T
  <2>6. Picked(a \o P(m), keep) # Picked(a, keep) \o Picked(P(m), keep)
    BY <2>3
  <2> DEFINE q == P(m)
             r == a \o p
  <2>10. p \in Seq(S) /\ e \in S /\ q = Append(p, e)
    BY <2>4
  <2>11. Picked(a \o q, keep) # Picked(a, keep) \o Picked(q, keep) /\ Picked(r, keep) = Picked(a, keep) \o Picked(p, keep)
    BY <2>5, <2>6
  <2>12. r \in Seq(S)
    BY <2>4, ConcatProperties
  <2> HIDE DEF P, q
  <2>7. a \o q = Append(r, e)
    BY <2>10, ConcatNext
  <2> HIDE DEF r
  <2>13. Picked(Append(r, e), keep) = PickedAfter(Picked(r, keep), e, keep)
    BY ONLY <2>10, <2>12, PickedNext
  <2>8. /\ Picked(q, keep) = PickedAfter(Picked(p, keep), e, keep)
        /\ Picked(p, keep) \in Seq(S)
    BY ONLY <2>10, PickedNext
  <2>9. Picked(a, keep) \o Append(Picked(p, keep), e) = Append(Picked(a, keep) \o Picked(p, keep), e)
    BY <1>1, <2>10, <2>8, ConcatNext
  <2> QED
    BY ONLY <2>11, <2>7, <2>13, <2>8, <2>9 DEF PickedAfter
<1>3. Good(Len(b))
  <2>1. T \in SUBSET Nat
    BY <1>0
  <2>2. T = {}
    <3> HIDE DEF T
    <3> QED
      BY <1>2, <2>1, LeastIsThere
  <2>3. Len(b) \in 0 .. Len(b)
    BY <1>0
  <2> HIDE DEF Good
  <2> QED
    BY <2>2, <2>3
<1> QED
  BY <1>3, PrefixNone

\* Sequences one after the other, as the library defines it: f[n] is the first n.
FlattensPlaces(seqs, f, n) == f = [i \in 1 .. n |-> IF i = 1 THEN seqs[i] ELSE f[i - 1] \o seqs[i]]

LEMMA FlattensExists ==
  ASSUME NEW seqs, NEW N \in Nat
  PROVE  \E f : FlattensPlaces(seqs, f, N)
<1> DEFINE T == {n \in 0 .. N : ~\E f : FlattensPlaces(seqs, f, n)}
<1> SUFFICES T = {}
  OBVIOUS
<1> SUFFICES ASSUME T # {} PROVE FALSE
  OBVIOUS
<1>0. T \in SUBSET Nat
  OBVIOUS
<1>1. PICK m \in T : \A k \in T : m <= k
  <2> HIDE DEF T
  <2> QED
    BY <1>0, LeastIsThere
<1>2. m # 0
  <2> DEFINE f == [i \in 1 .. 0 |-> <<>>]
  <2>1. FlattensPlaces(seqs, f, 0)
    <3>1. 1 .. 0 = {}
      OBVIOUS
    <3> QED
      BY <3>1 DEF FlattensPlaces
  <2> QED
    BY <2>1
<1>3. PICK f : FlattensPlaces(seqs, f, m - 1)
  <2>1. m - 1 \in 0 .. N /\ m - 1 \notin T
    BY <1>1, <1>2
  <2> QED
    BY <2>1
<1> DEFINE g == [i \in 1 .. m |-> IF i < m THEN f[i] ELSE IF i = 1 THEN seqs[i] ELSE f[i - 1] \o seqs[i]]
<1>4. \A i \in 1 .. m : g[i] = IF i = 1 THEN seqs[i] ELSE g[i - 1] \o seqs[i]
  <2>1. m \in Nat \ {0}
    BY <1>2
  <2>2. \A i \in 1 .. m - 1 : f[i] = IF i = 1 THEN seqs[i] ELSE f[i - 1] \o seqs[i]
    BY <1>3 DEF FlattensPlaces
  <2> TAKE i \in 1 .. m
  <2>3. CASE i < m
    <3>1. i \in 1 .. m - 1 /\ (i # 1 => i - 1 \in 1 .. m /\ i - 1 < m)
      BY <2>1, <2>3
    <3> HIDE DEF T
    <3> QED
      BY <2>2, <2>3, <3>1
  <2>4. CASE i = m
    <3>1. (m # 1 => m - 1 \in 1 .. m /\ m - 1 < m) /\ m \in 1 .. m /\ ~(m < m)
      BY <2>1
    <3> HIDE DEF T
    <3> QED
      BY <2>1, <2>4, <3>1
  <2> QED
    BY <2>1, <2>3, <2>4
<1>5. FlattensPlaces(seqs, g, m)
  <2> HIDE DEF g
  <2>1. g = [i \in 1 .. m |-> g[i]]
    BY DEF g
  <2> QED
    BY <1>4, <2>1 DEF FlattensPlaces
<1> QED
  BY <1>1, <1>5

LEMMA FlattenIs ==
  ASSUME NEW S, NEW seqs \in Seq(S), seqs # <<>>
  PROVE  \E f : FlattensPlaces(seqs, f, Len(seqs)) /\ FlattenSeq(seqs) = f[Len(seqs)]
<1> DEFINE f == CHOOSE g : FlattensPlaces(seqs, g, Len(seqs))
<1>1. Len(seqs) \in Nat /\ Len(seqs) # 0
  OBVIOUS
<1>2. FlattensPlaces(seqs, f, Len(seqs))
  BY <1>1, FlattensExists
<1>3. FlattenSeq(seqs) = f[Len(seqs)]
  BY <1>1 DEF FlattenSeq, FlattensPlaces
<1> QED
  BY <1>2, <1>3

LEMMA FlattensAlike ==
  ASSUME NEW a, NEW b, NEW f, NEW g, NEW n \in Nat, NEW m \in Nat, n <= m,
         FlattensPlaces(a, f, n), FlattensPlaces(b, g, m), \A i \in 1 .. n : a[i] = b[i]
  PROVE  n # 0 => f[n] = g[n]
<1> DEFINE T == {i \in 1 .. n : f[i] # g[i]}
<1> SUFFICES ASSUME T # {} PROVE FALSE
  <2>1. n # 0 => n \in 1 .. n
    OBVIOUS
  <2> QED
    BY <2>1
<1>1. \A i \in 1 .. n : f[i] = IF i = 1 THEN a[i] ELSE f[i - 1] \o a[i]
  BY DEF FlattensPlaces
<1>2. \A i \in 1 .. m : g[i] = IF i = 1 THEN b[i] ELSE g[i - 1] \o b[i]
  BY DEF FlattensPlaces
<1>3. PICK i \in T : \A k \in T : i <= k
  <2>1. T \in SUBSET Nat
    OBVIOUS
  <2> HIDE DEF T
  <2> QED
    BY <2>1, LeastIsThere
<1>4. i \in 1 .. n /\ i \in 1 .. m /\ f[i] # g[i] /\ a[i] = b[i]
  OBVIOUS
<1>5. i # 1
  BY <1>1, <1>2, <1>4
<1>6. i - 1 \in 1 .. n /\ ~(i <= i - 1)
  BY ONLY <1>4, <1>5, n \in Nat
<1>7. f[i - 1] = g[i - 1]
  BY <1>3, <1>6
<1> HIDE DEF T
<1> QED
  BY <1>1, <1>2, <1>4, <1>5, <1>7

LEMMA FlattenNone == FlattenSeq(<<>>) = <<>>
BY DEF FlattenSeq

LEMMA FlattenNext ==
  ASSUME NEW S, NEW seqs \in Seq(Seq(S)), NEW s \in Seq(S)
  PROVE  FlattenSeq(Append(seqs, s)) = FlattenSeq(seqs) \o s
<1> DEFINE t == Append(seqs, s)
           n == Len(seqs)
           m == n + 1
<1>1. /\ t \in Seq(Seq(S)) /\ Len(t) = m /\ n \in Nat /\ m \in Nat /\ n <= m /\ m - 1 = n /\ m \in 1 .. m
      /\ \A i \in 1 .. n : seqs[i] = t[i]
      /\ t[m] = s /\ t # <<>>
  <2>1. /\ t \in Seq(Seq(S)) /\ Len(t) = n + 1 /\ n \in Nat
        /\ \A i \in 1 .. n : t[i] = seqs[i]
        /\ t[n + 1] = s
    BY AppendIs
  <2>2. n + 1 \in Nat /\ n <= n + 1 /\ n + 1 - 1 = n /\ n + 1 \in 1 .. n + 1
    BY <2>1
  <2> QED
    BY <2>1, <2>2
<1> HIDE DEF t, m
<1>2. PICK g : FlattensPlaces(t, g, m) /\ FlattenSeq(t) = g[m]
  <2>1. \E g : FlattensPlaces(t, g, Len(t)) /\ FlattenSeq(t) = g[Len(t)]
    BY <1>1, FlattenIs
  <2> QED
    BY <1>1, <2>1
<1>3. g[m] = IF m = 1 THEN t[m] ELSE g[n] \o t[m]
  <2>1. \A i \in 1 .. m : g[i] = IF i = 1 THEN t[i] ELSE g[i - 1] \o t[i]
    BY <1>2 DEF FlattensPlaces
  <2> QED
    BY ONLY <1>1, <2>1
<1>4. CASE seqs = <<>>
  <2>1. n = 0 /\ m = 1
    BY <1>4 DEF m
  <2>2. <<>> \o s = s
    OBVIOUS
  <2> QED
    BY <1>1, <1>2, <1>3, <1>4, <2>1, <2>2, FlattenNone DEF t
<1>5. CASE seqs # <<>>
  <2>1. PICK f : FlattensPlaces(seqs, f, n) /\ FlattenSeq(seqs) = f[n]
    BY <1>5, FlattenIs
  <2>2. n # 0 /\ n \in 1 .. n /\ m # 1
    BY <1>1, <1>5 DEF m
  <2> HIDE DEF n
  <2>3. f[n] = g[n]
    <3>1. n \in Nat /\ m \in Nat /\ n <= m /\ FlattensPlaces(seqs, f, n) /\ FlattensPlaces(t, g, m)
      BY <1>1, <1>2, <2>1
    <3>2. \A i \in 1 .. n : seqs[i] = t[i]
      BY <1>1
    <3> QED
      BY ONLY <2>2, <3>1, <3>2, FlattensAlike
  <2> QED
    BY <1>1, <1>2, <1>3, <2>1, <2>2, <2>3 DEF t
<1> QED
  BY <1>4, <1>5

LEMMA FlattenType ==
  ASSUME NEW S, NEW seqs \in Seq(Seq(S))
  PROVE  FlattenSeq(seqs) \in Seq(S)
<1> DEFINE P(n) == SubSeq(seqs, 1, n)
           Good(n) == FlattenSeq(P(n)) \in Seq(S)
           T == {n \in 0 .. Len(seqs) : ~Good(n)}
<1>0. Len(seqs) \in Nat
  OBVIOUS
<1>1. ASSUME NEW m \in T, \A k \in T : m <= k
      PROVE  FALSE
  <2>1. m # 0
    <3>1. P(0) = <<>> /\ FlattenSeq(<<>>) = <<>> /\ <<>> \in Seq(S)
      BY PrefixNone, FlattenNone
    <3>2. Good(0)
      BY <3>1
    <3> HIDE DEF Good
    <3> QED
      BY <1>1, <3>2
  <2>2. m \in Nat /\ m - 1 \in Nat /\ m - 1 < Len(seqs) /\ m - 1 + 1 = m /\ m - 1 \in 0 .. Len(seqs) /\ ~(m <= m - 1)
    <3>1. m \in 0 .. Len(seqs)
      OBVIOUS
    <3> HIDE DEF T
    <3> QED
      BY <1>0, <2>1, <3>1
  <2>3. Good(m - 1) /\ ~Good(m)
    <3>1. m - 1 \notin T
      BY <1>1, <2>2
    <3> HIDE DEF Good
    <3> QED
      BY <2>2, <3>1
  <2> DEFINE p == P(m - 1)
             e == seqs[m]
             q == P(m)
  <2>4. p \in Seq(Seq(S)) /\ e \in Seq(S) /\ q = Append(p, e)
    BY <2>2, PrefixNext
  <2>5. FlattenSeq(p) \in Seq(S) /\ FlattenSeq(q) \notin Seq(S)
    BY <2>3
  <2> HIDE DEF p, q, e, P, T
  <2>6. FlattenSeq(q) = FlattenSeq(p) \o e
    BY <2>4, FlattenNext
  <2> QED
    BY <2>4, <2>5, <2>6, ConcatProperties
<1>2. Good(Len(seqs))
  <2>1. T \in SUBSET Nat
    BY <1>0
  <2>2. T = {}
    <3> HIDE DEF T
    <3> QED
      BY <1>1, <2>1, LeastIsThere
  <2>3. Len(seqs) \in 0 .. Len(seqs)
    BY <1>0
  <2> HIDE DEF Good
  <2> QED
    BY <2>2, <2>3
<1> QED
  BY <1>2, PrefixNone

LEMMA FlattenConcat ==
  ASSUME NEW S, NEW a \in Seq(Seq(S)), NEW b \in Seq(Seq(S))
  PROVE  FlattenSeq(a \o b) = FlattenSeq(a) \o FlattenSeq(b)
<1> DEFINE P(n) == SubSeq(b, 1, n)
           Good(n) == FlattenSeq(a \o P(n)) = FlattenSeq(a) \o FlattenSeq(P(n))
           T == {n \in 0 .. Len(b) : ~Good(n)}
<1>0. Len(b) \in Nat /\ a \o <<>> = a
  OBVIOUS
<1>1. FlattenSeq(a) \in Seq(S)
  BY FlattenType
<1>2. ASSUME NEW m \in T, \A k \in T : m <= k
      PROVE  FALSE
  <2>1. m # 0
    <3>1. P(0) = <<>> /\ FlattenSeq(<<>>) = <<>> /\ FlattenSeq(a) \o <<>> = FlattenSeq(a)
      BY <1>1, PrefixNone, FlattenNone
    <3>2. Good(0)
      BY <1>0, <3>1
    <3> HIDE DEF Good
    <3> QED
      BY <1>2, <3>2
  <2>2. m \in Nat /\ m - 1 \in Nat /\ m - 1 < Len(b) /\ m - 1 + 1 = m /\ m - 1 \in 0 .. Len(b) /\ ~(m <= m - 1)
    <3>1. m \in 0 .. Len(b)
      OBVIOUS
    <3> HIDE DEF T
    <3> QED
      BY <1>0, <2>1, <3>1
  <2>3. Good(m - 1) /\ ~Good(m)
    <3>1. m - 1 \notin T
      BY <1>2, <2>2
    <3> HIDE DEF Good
    <3> QED
      BY <2>2, <3>1
  <2> DEFINE p == P(m - 1)
             e == b[m]
             q == P(m)
             r == a \o p
  <2>4. p \in Seq(Seq(S)) /\ e \in Seq(S) /\ q = Append(p, e)
    BY <2>2, PrefixNext
  <2>5. FlattenSeq(r) = FlattenSeq(a) \o FlattenSeq(p) /\ FlattenSeq(a \o q) # FlattenSeq(a) \o FlattenSeq(q)
    BY <2>3
  <2>6. r \in Seq(Seq(S))
    BY <2>4, ConcatProperties
  <2> HIDE DEF p, q, e, P, T
  <2>7. a \o q = Append(r, e)
    BY <2>4, ConcatNext
  <2> HIDE DEF r
  <2>8. FlattenSeq(Append(r, e)) = FlattenSeq(r) \o e
    BY <2>4, <2>6, FlattenNext
  <2>9. FlattenSeq(q) = FlattenSeq(p) \o e /\ FlattenSeq(p) \in Seq(S)
    BY <2>4, FlattenNext, FlattenType
  <2>10. (FlattenSeq(a) \o FlattenSeq(p)) \o e = FlattenSeq(a) \o (FlattenSeq(p) \o e)
    <3>1. FlattenSeq(a) \in Seq(S) /\ FlattenSeq(p) \in Seq(S) /\ e \in Seq(S)
      BY <1>1, <2>4, <2>9
    <3> QED
      BY ONLY <3>1, ConcatAssociative
  <2> QED
    BY ONLY <2>5, <2>7, <2>8, <2>9, <2>10
<1>3. Good(Len(b))
  <2>1. T \in SUBSET Nat
    BY <1>0
  <2>2. T = {}
    <3> HIDE DEF T
    <3> QED
      BY <1>2, <2>1, LeastIsThere
  <2>3. Len(b) \in 0 .. Len(b)
    BY <1>0
  <2> HIDE DEF Good
  <2> QED
    BY <2>2, <2>3
<1> QED
  BY <1>3, PrefixNone

LEMMA FlattenOne == ASSUME NEW S, NEW s \in Seq(S) PROVE FlattenSeq(<<s>>) = s
<1>1. <<s>> = Append(<<>>, s) /\ <<>> \in Seq(Seq(S)) /\ <<>> \o s = s
  OBVIOUS
<1>2. FlattenSeq(Append(<<>>, s)) = FlattenSeq(<<>>) \o s
  BY <1>1, FlattenNext
<1> QED
  BY <1>1, <1>2, FlattenNone

\* The lines of a stream, read one after the other.
ParsesLines(lines, f, n) == f = [i \in 0 .. n |-> IF i = 0 THEN NoEvent ELSE ParseLine(f[i - 1], lines[i])]

LEMMA ParsesExists ==
  ASSUME NEW lines, NEW N \in Nat
  PROVE  \E f : ParsesLines(lines, f, N)
<1> DEFINE T == {n \in 0 .. N : ~\E f : ParsesLines(lines, f, n)}
<1> SUFFICES T = {}
  OBVIOUS
<1> SUFFICES ASSUME T # {} PROVE FALSE
  OBVIOUS
<1>0. T \in SUBSET Nat
  OBVIOUS
<1>1. PICK m \in T : \A k \in T : m <= k
  <2> HIDE DEF T
  <2> QED
    BY <1>0, LeastIsThere
<1>2. m # 0
  <2> DEFINE f == [i \in 0 .. 0 |-> NoEvent]
  <2>1. ParsesLines(lines, f, 0)
    BY DEF ParsesLines
  <2> QED
    BY <2>1
<1>3. PICK f : ParsesLines(lines, f, m - 1)
  <2>1. m - 1 \in 0 .. N /\ m - 1 \notin T
    BY <1>1, <1>2
  <2> QED
    BY <2>1
<1> DEFINE g == [i \in 0 .. m |-> IF i < m THEN f[i] ELSE ParseLine(f[m - 1], lines[m])]
<1>4. \A i \in 0 .. m : g[i] = IF i = 0 THEN NoEvent ELSE ParseLine(g[i - 1], lines[i])
  <2>1. m \in Nat \ {0}
    BY <1>2
  <2>2. \A i \in 0 .. m - 1 : f[i] = IF i = 0 THEN NoEvent ELSE ParseLine(f[i - 1], lines[i])
    BY <1>3 DEF ParsesLines
  <2> TAKE i \in 0 .. m
  <2>3. CASE i < m
    <3>1. i \in 0 .. m - 1 /\ (i # 0 => i - 1 \in 0 .. m /\ i - 1 < m)
      BY <2>1, <2>3
    <3> HIDE DEF T
    <3> QED
      BY <2>2, <2>3, <3>1
  <2>4. CASE i = m
    <3>1. m - 1 \in 0 .. m /\ m - 1 < m /\ m \in 0 .. m /\ ~(m < m)
      BY <2>1
    <3> HIDE DEF T
    <3> QED
      BY <2>1, <2>4, <3>1
  <2> QED
    BY <2>1, <2>3, <2>4
<1>5. ParsesLines(lines, g, m)
  <2> HIDE DEF g
  <2>1. g = [i \in 0 .. m |-> g[i]]
    BY DEF g
  <2> QED
    BY <1>4, <2>1 DEF ParsesLines
<1> QED
  BY <1>1, <1>5

LEMMA ParsedIs ==
  ASSUME NEW S, NEW lines \in Seq(S)
  PROVE  \E f : ParsesLines(lines, f, Len(lines)) /\ Parsed(lines) = f[Len(lines)]
<1> DEFINE f == CHOOSE g : ParsesLines(lines, g, Len(lines))
<1>1. Len(lines) \in Nat
  OBVIOUS
<1>2. ParsesLines(lines, f, Len(lines))
  BY <1>1, ParsesExists
<1>3. Parsed(lines) = f[Len(lines)]
  BY DEF Parsed, ParsesLines
<1> QED
  BY <1>2, <1>3

SameTo(a, b, n) == \A i \in 1 .. n : a[i] = b[i]

LEMMA ParsesAlike ==
  ASSUME NEW a, NEW b, NEW f, NEW g, NEW n \in Nat, NEW m \in Nat, n <= m,
         ParsesLines(a, f, n), ParsesLines(b, g, m), SameTo(a, b, n)
  PROVE  f[n] = g[n]
<1> DEFINE T == {i \in 0 .. n : f[i] # g[i]}
<1> SUFFICES ASSUME T # {} PROVE FALSE
  <2>1. n \in 0 .. n
    OBVIOUS
  <2> QED
    BY <2>1
<1>1. \A i \in 0 .. n : f[i] = IF i = 0 THEN NoEvent ELSE ParseLine(f[i - 1], a[i])
  BY DEF ParsesLines
<1>2. \A i \in 0 .. m : g[i] = IF i = 0 THEN NoEvent ELSE ParseLine(g[i - 1], b[i])
  BY DEF ParsesLines
<1>3. PICK i \in T : \A k \in T : i <= k
  <2>1. T \in SUBSET Nat
    OBVIOUS
  <2> HIDE DEF T
  <2> QED
    BY <2>1, LeastIsThere
<1>4. i \in 0 .. n /\ i \in 0 .. m /\ f[i] # g[i]
  OBVIOUS
<1>5. i # 0
  BY <1>1, <1>2, <1>4
<1>6. i \in 1 .. n /\ i - 1 \in 0 .. n /\ ~(i <= i - 1)
  BY ONLY <1>4, <1>5, n \in Nat
<1>7. f[i - 1] = g[i - 1] /\ a[i] = b[i]
  BY <1>3, <1>6 DEF SameTo
<1> HIDE DEF T
<1> QED
  BY <1>1, <1>2, <1>4, <1>5, <1>7

LEMMA ParsedNone == Parsed(<<>>) = NoEvent
<1>1. <<>> \in Seq({}) /\ Len(<<>>) = 0
  OBVIOUS
<1>2. PICK f : ParsesLines(<<>>, f, Len(<<>>)) /\ Parsed(<<>>) = f[Len(<<>>)]
  BY <1>1, ParsedIs
<1>3. ParsesLines(<<>>, f, 0) /\ Parsed(<<>>) = f[0]
  BY <1>1, <1>2
<1> QED
  BY <1>3 DEF ParsesLines

LEMMA ParsedNext ==
  ASSUME NEW S, NEW lines \in Seq(S), NEW line \in S
  PROVE  Parsed(Append(lines, line)) = ParseLine(Parsed(lines), line)
<1> DEFINE t == Append(lines, line)
           n == Len(lines)
           m == n + 1
<1>1. /\ t \in Seq(S) /\ Len(t) = m /\ n \in Nat /\ m \in Nat /\ n <= m /\ m - 1 = n /\ m \in 0 .. m /\ m # 0
      /\ \A i \in 1 .. n : lines[i] = t[i]
      /\ t[m] = line
  <2>1. /\ t \in Seq(S) /\ Len(t) = n + 1 /\ n \in Nat
        /\ \A i \in 1 .. n : t[i] = lines[i]
        /\ t[n + 1] = line
    BY AppendIs
  <2>2. n + 1 \in Nat /\ n <= n + 1 /\ n + 1 - 1 = n /\ n + 1 \in 0 .. n + 1 /\ n + 1 # 0
    BY <2>1
  <2> QED
    BY <2>1, <2>2
<1> HIDE DEF t, m
<1>2. PICK f : ParsesLines(lines, f, n) /\ Parsed(lines) = f[n]
  BY ParsedIs
<1>3. PICK g : ParsesLines(t, g, m) /\ Parsed(t) = g[m]
  <2>1. \E g : ParsesLines(t, g, Len(t)) /\ Parsed(t) = g[Len(t)]
    BY <1>1, ParsedIs
  <2> QED
    BY <1>1, <2>1
<1> HIDE DEF n
<1>4. g[m] = ParseLine(g[n], t[m])
  <2> DEFINE G(i) == IF i = 0 THEN NoEvent ELSE ParseLine(g[i - 1], t[i])
  <2>1. \A i \in 0 .. m : g[i] = IF i = 0 THEN NoEvent ELSE ParseLine(g[i - 1], t[i])
    BY <1>3 DEF ParsesLines
  <2>2. g[m] = G(m)
    <3>1. \A i \in 0 .. m : g[i] = G(i)
      BY <2>1
    <3> HIDE DEF G
    <3> QED
      BY <1>1, <3>1
  <2> QED
    BY <1>1, <2>2
<1>5. f[n] = g[n]
  <2>1. n \in Nat /\ m \in Nat /\ n <= m /\ ParsesLines(lines, f, n) /\ ParsesLines(t, g, m)
    BY <1>1, <1>2, <1>3
  <2>2. SameTo(lines, t, n)
    BY <1>1 DEF SameTo
  <2> QED
    BY ONLY <2>1, <2>2, ParsesAlike
<1> QED
  BY <1>1, <1>2, <1>3, <1>4, <1>5 DEF t

-----------------------------------------------------------------------------
\* A thread: lines, events, and what is told of them.


DatumShapes == [is : {"none", "group", "cursors", "stated", "unstated", "broken"}, n : Nat, next : Nat]

EventNames == {"unnamed", "data", "metadata", "error"}

Events == [event : EventNames, datum : DatumShapes]

Lines == [kind : {"event", "data", "blank", "other"}, event : EventNames, datum : DatumShapes]

EventOf(event, datum) == [event |-> event, datum |-> datum]

\* What has been read: the events that ended, and the one that has not.
Read(events, event, datum) == [events |-> events, event |-> event, datum |-> datum]

LEMMA DataAre ==
  /\ NoDatum \in DatumShapes
  /\ \A n \in Nat, next \in Nat, is \in {"group", "cursors", "stated", "unstated", "broken"} : Datum(is, n, next) \in DatumShapes
  /\ \A event \in EventNames, datum \in DatumShapes : EventOf(event, datum) \in Events
  /\ \A sort \in {"event", "data", "blank", "other"}, event \in EventNames, datum \in DatumShapes :
       StreamLine(sort, event, datum) \in Lines
<1>1. NoDatum \in DatumShapes
  BY DEF NoDatum, Datum, DatumShapes
<1>2. \A n \in Nat, next \in Nat, is \in {"group", "cursors", "stated", "unstated", "broken"} : Datum(is, n, next) \in DatumShapes
  BY DEF Datum, DatumShapes
<1>3. \A event \in EventNames, datum \in DatumShapes : EventOf(event, datum) \in Events
  BY DEF EventOf, Events
<1>4. \A sort \in {"event", "data", "blank", "other"}, event \in EventNames, datum \in DatumShapes :
        StreamLine(sort, event, datum) \in Lines
  BY DEF StreamLine, Lines
<1> QED
  BY <1>1, <1>2, <1>3, <1>4

LEMMA LinesRead ==
  ASSUME NEW events, NEW event, NEW datum
  PROVE  /\ \A e : ParseLine(Read(events, event, datum), StreamLine("event", e, NoDatum)) = Read(events, e, datum)
         /\ \A d : ParseLine(Read(events, event, datum), StreamLine("data", "unnamed", d)) = Read(events, event, d)
         /\ ParseLine(Read(events, event, datum), StreamLine("other", "unnamed", NoDatum)) = Read(events, event, datum)
         /\ ParseLine(Read(events, event, datum), StreamLine("blank", "unnamed", NoDatum)) = EndEvent(Read(events, event, datum))
BY DEF ParseLine, Read, StreamLine

LEMMA EventEnds ==
  ASSUME NEW events, NEW event, NEW datum
  PROVE  /\ event = "unnamed" /\ datum = NoDatum => EndEvent(Read(events, event, datum)) = Read(events, event, datum)
         /\ event # "unnamed" \/ datum # NoDatum =>
              EndEvent(Read(events, event, datum)) = Read(Append(events, EventOf(event, datum)), "unnamed", NoDatum)
BY DEF EndEvent, Read, EventOf, NoEvent

LEMMA NothingRead == NoEvent = Read(<<>>, "unnamed", NoDatum)
BY DEF NoEvent, Read

\* A start of two sequences, one after the other.
LEMMA StartsSplit ==
  ASSUME NEW S, NEW a \in Seq(S), NEW b \in Seq(S), NEW n \in Nat, n <= Len(a) + Len(b)
  PROVE  SubSeq(a \o b, 1, n) = IF n <= Len(a) THEN SubSeq(a, 1, n) ELSE a \o SubSeq(b, 1, n - Len(a))
<1> DEFINE c == a \o b
           s == SubSeq(c, 1, n)
           A == Len(a)
<1>1. /\ c \in Seq(S) /\ Len(c) = A + Len(b) /\ A \in Nat /\ Len(b) \in Nat
      /\ \A i \in 1 .. A : c[i] = a[i]
      /\ \A i \in 1 .. Len(b) : c[A + i] = b[i]
      /\ \A i \in 1 .. A : a[i] \in S
      /\ \A i \in 1 .. Len(b) : b[i] \in S
      /\ \A i \in 1 .. A + Len(b) : c[i] \in S
  <2>1. c \in Seq(S) /\ Len(c) = A + Len(b)
    BY ConcatIs
  <2>2. \A i \in 1 .. A + Len(b) : c[i] \in S
    BY <2>1
  <2> QED
    BY <2>1, <2>2, ConcatIs
<1> HIDE DEF c
<1>2. s \in Seq(S) /\ Len(s) = n /\ \A i \in 1 .. n : s[i] = c[i]
  <2>1. \A i \in 1 .. n : c[i] \in S /\ 1 + i - 1 = i
    BY <1>1
  <2>2. /\ SubSeq(c, 1, n) \in Seq(S) /\ Len(SubSeq(c, 1, n)) = (IF 1 <= n THEN n - 1 + 1 ELSE 0)
        /\ \A i \in 1 .. n - 1 + 1 : SubSeq(c, 1, n)[i] = c[1 + i - 1]
    BY <2>1, SubSeqProperties
  <2> QED
    BY <2>1, <2>2
<1> HIDE DEF s
<1>3. CASE n <= A
  <2> DEFINE t == SubSeq(a, 1, n)
  <2>1. \A i \in 1 .. n : a[i] \in S /\ 1 + i - 1 = i /\ c[i] = a[i]
    BY <1>1, <1>3
  <2>2. /\ SubSeq(a, 1, n) \in Seq(S) /\ Len(SubSeq(a, 1, n)) = (IF 1 <= n THEN n - 1 + 1 ELSE 0)
        /\ \A i \in 1 .. n - 1 + 1 : SubSeq(a, 1, n)[i] = a[1 + i - 1]
    BY <2>1, SubSeqProperties
  <2>3. t \in Seq(S) /\ Len(t) = n /\ \A i \in 1 .. n : t[i] = a[i]
    BY <2>1, <2>2
  <2> HIDE DEF t
  <2>4. s = t
    BY <1>2, <2>1, <2>3, SeqEqual
  <2> QED
    BY <1>3, <2>4 DEF s, t, c
<1>4. CASE ~(n <= A)
  <2> DEFINE k == n - A
             t == SubSeq(b, 1, k)
             u == a \o t
  <2>0. k \in Nat /\ k <= Len(b) /\ A + k = n
    BY <1>1, <1>4
  <2> HIDE DEF k
  <2>1. \A i \in 1 .. k : b[i] \in S /\ 1 + i - 1 = i /\ c[A + i] = b[i]
    BY <1>1, <2>0
  <2>2. /\ SubSeq(b, 1, k) \in Seq(S) /\ Len(SubSeq(b, 1, k)) = (IF 1 <= k THEN k - 1 + 1 ELSE 0)
        /\ \A i \in 1 .. k - 1 + 1 : SubSeq(b, 1, k)[i] = b[1 + i - 1]
    BY <2>0, <2>1, SubSeqProperties
  <2>3. t \in Seq(S) /\ Len(t) = k /\ \A i \in 1 .. k : t[i] = b[i]
    BY <2>0, <2>1, <2>2
  <2> HIDE DEF t
  <2>4. u \in Seq(S) /\ Len(u) = n /\ (\A i \in 1 .. A : u[i] = a[i]) /\ \A i \in 1 .. k : u[A + i] = b[i]
    <3>1. t \in Seq(S)
      BY <2>3
    <3>2. /\ u \in Seq(S) /\ Len(u) = Len(a) + Len(t)
          /\ \A i \in 1 .. Len(a) : u[i] = a[i]
          /\ \A i \in 1 .. Len(t) : u[Len(a) + i] = t[i]
      BY <3>1, ConcatIs
    <3> HIDE DEF u
    <3> QED
      BY <2>0, <2>3, <3>2
  <2> HIDE DEF u
  <2>5. \A i \in 1 .. n : s[i] = u[i]
    <3> TAKE i \in 1 .. n
    <3>1. CASE i <= A
      BY <1>1, <1>2, <2>4, <3>1
    <3>2. CASE ~(i <= A)
      <4>1. i - A \in 1 .. k /\ A + (i - A) = i
        BY <1>1, <2>0, <3>2
      <4>2. u[A + (i - A)] = c[A + (i - A)]
        BY <2>1, <2>4, <4>1
      <4> QED
        BY <1>2, <4>1, <4>2
    <3> QED
      BY <3>1, <3>2
  <2>6. s = u
    BY <1>2, <2>4, <2>5, SeqEqual
  <2> QED
    BY <1>4, <2>6 DEF s, c, u, t, k
<1> QED
  BY <1>3, <1>4

LEMMA FewMore ==
  ASSUME NEW S, NEW s \in Seq(S), NEW a \in S, NEW b \in S, NEW c \in S
  PROVE  /\ s \o <<>> = s
         /\ s \o <<a>> = Append(s, a) /\ Append(s, a) \in Seq(S)
         /\ s \o <<a, b>> = Append(Append(s, a), b) /\ Append(Append(s, a), b) \in Seq(S)
         /\ s \o <<a, b, c>> = Append(Append(Append(s, a), b), c)
OBVIOUS

LEMMA FewAre ==
  ASSUME NEW a, NEW b, NEW c
  PROVE  /\ <<a>> = Append(<<>>, a) /\ <<a, b>> = Append(Append(<<>>, a), b)
         /\ <<a, b, c>> = Append(Append(Append(<<>>, a), b), c)
OBVIOUS

LEMMA FewJoin ==
  ASSUME NEW a, NEW b, NEW c
  PROVE  <<>> \o <<b, c>> = <<b, c>> /\ <<a>> \o <<b, c>> = <<a, b, c>>
<1> DEFINE S == {a, b, c}
           s == <<a>>
<1>1. s \in Seq(S) /\ <<b, c>> \in Seq(S) /\ a \in S /\ b \in S /\ c \in S
  OBVIOUS
<1>2. s = Append(<<>>, a)
  BY FewAre
<1> HIDE DEF S, s
<1>3. s \o <<b, c>> = Append(Append(s, b), c)
  BY <1>1, FewMore
<1>4. <<>> \o <<b, c>> = <<b, c>>
  BY <1>1, ConcatEmptySeq
<1>5. <<a, b, c>> = Append(Append(Append(<<>>, a), b), c)
  BY FewAre
<1> QED
  BY ONLY <1>2, <1>3, <1>4, <1>5 DEF s

LEMMA FewFirst ==
  ASSUME NEW a, NEW b, NEW c
  PROVE  /\ SubSeq(<<a, b>>, 1, 0) = <<>> /\ SubSeq(<<a, b>>, 1, 1) = <<a>>
         /\ SubSeq(<<a, b, c>>, 1, 0) = <<>> /\ SubSeq(<<a, b, c>>, 1, 1) = <<a>> /\ SubSeq(<<a, b, c>>, 1, 2) = <<a, b>>
<1> DEFINE S == {a, b, c}
           s == <<a, b>>
           t == <<a, b, c>>
<1>1. /\ s \in Seq(S) /\ Len(s) = 2 /\ s[1] = a
      /\ t \in Seq(S) /\ Len(t) = 3 /\ t[1] = a /\ t[2] = b
  OBVIOUS
<1> HIDE DEF S, s, t
<1>2. SubSeq(s, 1, 0) = <<>> /\ SubSeq(t, 1, 0) = <<>>
  BY <1>1, PrefixNone
<1>3. 0 \in Nat /\ 1 \in Nat /\ 0 < 2 /\ 0 < 3 /\ 1 < 3 /\ 0 + 1 = 1 /\ 1 + 1 = 2
  OBVIOUS
<1>4. SubSeq(s, 1, 0 + 1) = Append(SubSeq(s, 1, 0), s[0 + 1])
  BY <1>1, <1>3, PrefixNext
<1>5. SubSeq(t, 1, 0 + 1) = Append(SubSeq(t, 1, 0), t[0 + 1])
  BY <1>1, <1>3, PrefixNext
<1>6. SubSeq(t, 1, 1 + 1) = Append(SubSeq(t, 1, 1), t[1 + 1])
  BY <1>1, <1>3, PrefixNext
<1>7. SubSeq(s, 1, 1) = <<a>> /\ SubSeq(t, 1, 1) = <<a>>
  BY <1>1, <1>2, <1>3, <1>4, <1>5, FewAre
<1>8. SubSeq(t, 1, 2) = <<a, b>>
  <2>1. SubSeq(t, 1, 2) = Append(SubSeq(t, 1, 1), t[2])
    BY <1>6
  <2>2. <<a>> = Append(<<>>, a) /\ <<a, b>> = Append(Append(<<>>, a), b)
    BY FewAre
  <2> QED
    BY ONLY <1>1, <1>7, <2>1, <2>2
<1> QED
  BY <1>2, <1>7, <1>8 DEF s, t

LEMMA BlockIs ==
  ASSUME NEW event \in EventNames, NEW datum \in DatumShapes
  PROVE  /\ event = "unnamed" => EventLines(event, datum) = <<StreamLine("data", "unnamed", datum), StreamLine("blank", "unnamed", NoDatum)>>
         /\ event # "unnamed" =>
              EventLines(event, datum) =
                <<StreamLine("event", event, NoDatum), StreamLine("data", "unnamed", datum), StreamLine("blank", "unnamed", NoDatum)>>
         /\ StreamLine("event", event, NoDatum) \in Lines
         /\ StreamLine("data", "unnamed", datum) \in Lines
         /\ StreamLine("blank", "unnamed", NoDatum) \in Lines
<1>1. /\ StreamLine("event", event, NoDatum) \in Lines
      /\ StreamLine("data", "unnamed", datum) \in Lines
      /\ StreamLine("blank", "unnamed", NoDatum) \in Lines
  <2>1. "unnamed" \in EventNames
    BY DEF EventNames
  <2> QED
    BY <2>1, DataAre
<1> DEFINE a == StreamLine("event", event, NoDatum)
           b == StreamLine("data", "unnamed", datum)
           c == StreamLine("blank", "unnamed", NoDatum)
<1>2. EventLines(event, datum) = (IF event = "unnamed" THEN <<>> ELSE <<a>>) \o <<b, c>>
  BY DEF EventLines
<1> HIDE DEF a, b, c
<1>3. <<>> \o <<b, c>> = <<b, c>> /\ <<a>> \o <<b, c>> = <<a, b, c>>
  BY FewJoin
<1> QED
  BY <1>1, <1>2, <1>3 DEF a, b, c

\* The lines of an event, from a place where none is begun: what is read once they
\* all came, and what if some of them did.
BlockStarts(lines, events, event, datum) ==
  LET block == EventLines(event, datum)
  IN  /\ block \in Seq(Lines) /\ Len(block) \in {2, 3}
      /\ Parsed(lines \o block) = Read(Append(events, EventOf(event, datum)), "unnamed", NoDatum)
      /\ \A j \in 0 .. Len(block) - 1 :
           Parsed(lines \o SubSeq(block, 1, j))
             \in {Read(events, "unnamed", NoDatum), Read(events, event, NoDatum), Read(events, event, datum)}
      /\ \A j \in 0 .. Len(block) - 2 :
           Parsed(lines \o SubSeq(block, 1, j)) \in {Read(events, "unnamed", NoDatum), Read(events, event, NoDatum)}

LEMMA BlockIsRead ==
  ASSUME NEW lines \in Seq(Lines), NEW events, Parsed(lines) = Read(events, "unnamed", NoDatum),
         NEW event \in EventNames, NEW datum \in DatumShapes, datum # NoDatum
  PROVE  BlockStarts(lines, events, event, datum)
<1> DEFINE a == StreamLine("event", event, NoDatum)
           b == StreamLine("data", "unnamed", datum)
           c == StreamLine("blank", "unnamed", NoDatum)
           block == EventLines(event, datum)
           done == Read(Append(events, EventOf(event, datum)), "unnamed", NoDatum)
           none == Read(events, "unnamed", NoDatum)
           named == Read(events, event, NoDatum)
           full == Read(events, event, datum)
<1>1. /\ event = "unnamed" => block = <<b, c>>
      /\ event # "unnamed" => block = <<a, b, c>>
      /\ a \in Lines /\ b \in Lines /\ c \in Lines
  BY BlockIs
<1>2. /\ ParseLine(none, a) = named /\ ParseLine(named, b) = full /\ ParseLine(full, c) = done
      /\ event = "unnamed" => none = named
  <2>1. /\ ParseLine(none, a) = named /\ ParseLine(named, b) = full /\ ParseLine(full, c) = EndEvent(full)
    BY LinesRead
  <2>2. EndEvent(full) = done
    BY EventEnds
  <2> HIDE DEF done, full
  <2> QED
    BY <2>1, <2>2
<1> HIDE DEF a, b, c, block, done, none, named, full
<1>3. Parsed(lines) = none
  BY DEF none
<1>4. CASE event = "unnamed"
  <2> DEFINE l1 == Append(lines, b)
             l2 == Append(l1, c)
  <2>1. /\ lines \o <<>> = lines /\ lines \o <<b>> = l1 /\ lines \o <<b, c>> = l2 /\ l1 \in Seq(Lines)
    BY <1>1, FewMore
  <2>2. SubSeq(<<b, c>>, 1, 0) = <<>> /\ SubSeq(<<b, c>>, 1, 1) = <<b>>
    BY FewFirst
  <2>3. Parsed(l1) = full
    BY <1>1, <1>2, <1>3, <1>4, ParsedNext
  <2> HIDE DEF l1
  <2>4. Parsed(l2) = done
    BY <1>1, <1>2, <2>1, <2>3, ParsedNext
  <2>5. block = <<b, c>>
    BY <1>1, <1>4
  <2>6. block \in Seq(Lines) /\ Len(block) = 2
    BY <1>1, <2>5
  <2> HIDE DEF l2
  <2>7. /\ Parsed(lines \o SubSeq(block, 1, 0)) = none
        /\ Parsed(lines \o SubSeq(block, 1, 1)) = full
        /\ Parsed(lines \o block) = done
    BY ONLY <1>3, <2>1, <2>2, <2>3, <2>4, <2>5
  <2>8. /\ \A j \in 0 .. Len(block) - 1 : j = 0 \/ j = 1
        /\ \A j \in 0 .. Len(block) - 2 : j = 0
    BY ONLY <2>6
  <2> QED
    BY <2>6, <2>7, <2>8 DEF BlockStarts, block, done, none, named, full
<1>5. CASE event # "unnamed"
  <2> DEFINE l1 == Append(lines, a)
             l2 == Append(l1, b)
             l3 == Append(l2, c)
  <2>1. /\ lines \o <<>> = lines /\ lines \o <<a>> = l1 /\ lines \o <<a, b>> = l2 /\ lines \o <<a, b, c>> = l3
        /\ l1 \in Seq(Lines) /\ l2 \in Seq(Lines)
    BY <1>1, FewMore
  <2>2. SubSeq(<<a, b, c>>, 1, 0) = <<>> /\ SubSeq(<<a, b, c>>, 1, 1) = <<a>> /\ SubSeq(<<a, b, c>>, 1, 2) = <<a, b>>
    BY FewFirst
  <2>3. Parsed(l1) = named
    BY <1>1, <1>2, <1>3, ParsedNext
  <2> HIDE DEF l1
  <2>4. Parsed(l2) = full
    BY <1>1, <1>2, <2>1, <2>3, ParsedNext
  <2> HIDE DEF l2
  <2>5. Parsed(l3) = done
    BY <1>1, <1>2, <2>1, <2>4, ParsedNext
  <2>6. block = <<a, b, c>>
    BY <1>1, <1>5
  <2>7. block \in Seq(Lines) /\ Len(block) = 3
    BY <1>1, <2>6
  <2> HIDE DEF l3
  <2>8. /\ Parsed(lines \o SubSeq(block, 1, 0)) = none
        /\ Parsed(lines \o SubSeq(block, 1, 1)) = named
        /\ Parsed(lines \o SubSeq(block, 1, 2)) = full
        /\ Parsed(lines \o block) = done
    BY ONLY <1>3, <2>1, <2>2, <2>3, <2>4, <2>5, <2>6
  <2>9. /\ \A j \in 0 .. Len(block) - 1 : j = 0 \/ j = 1 \/ j = 2
        /\ \A j \in 0 .. Len(block) - 2 : j = 0 \/ j = 1
    BY ONLY <2>7
  <2> QED
    BY <2>7, <2>8, <2>9 DEF BlockStarts, block, done, none, named, full
<1> QED
  BY <1>4, <1>5

GroupDatum(groups, i) == Datum("group", groups[i], 0)

\* The events of the first groups, and their lines.
GroupEvents(groups, event, m) == [i \in 1 .. m |-> EventOf(event, GroupDatum(groups, i))]

Blocks(groups, event, m) == [i \in 1 .. m |-> EventLines(event, GroupDatum(groups, i))]

LEMMA GroupsGrow ==
  ASSUME NEW groups \in Seq(Nat), NEW event \in EventNames, NEW m \in Nat, m < Len(groups)
  PROVE  /\ GroupDatum(groups, m + 1) \in DatumShapes /\ GroupDatum(groups, m + 1) # NoDatum
         /\ GroupEvents(groups, event, m) \in Seq(Events)
         /\ GroupEvents(groups, event, m + 1) = Append(GroupEvents(groups, event, m), EventOf(event, GroupDatum(groups, m + 1)))
         /\ Blocks(groups, event, m) \in Seq(Seq(Lines))
         /\ Blocks(groups, event, m + 1) = Append(Blocks(groups, event, m), EventLines(event, GroupDatum(groups, m + 1)))
<1> DEFINE E(i) == EventOf(event, GroupDatum(groups, i))
           B(i) == EventLines(event, GroupDatum(groups, i))
<1>1. \A i \in 1 .. m + 1 : GroupDatum(groups, i) \in DatumShapes
  <2>1. \A i \in 1 .. m + 1 : groups[i] \in Nat
    OBVIOUS
  <2> QED
    BY <2>1, DataAre DEF GroupDatum
<1>2. \A i \in 1 .. m + 1 : E(i) \in Events
  BY <1>1, DataAre
<1>3. \A i \in 1 .. m + 1 : B(i) \in Seq(Lines)
  <2> TAKE i \in 1 .. m + 1
  <2> DEFINE d == GroupDatum(groups, i)
  <2>1. d \in DatumShapes
    BY <1>1
  <2> HIDE DEF d
  <2> DEFINE a == StreamLine("event", event, NoDatum)
             b == StreamLine("data", "unnamed", d)
             c == StreamLine("blank", "unnamed", NoDatum)
  <2>2. /\ event = "unnamed" => EventLines(event, d) = <<b, c>>
        /\ event # "unnamed" => EventLines(event, d) = <<a, b, c>>
        /\ a \in Lines /\ b \in Lines /\ c \in Lines
    BY <2>1, BlockIs
  <2> HIDE DEF a, b, c
  <2>3. <<b, c>> \in Seq(Lines) /\ <<a, b, c>> \in Seq(Lines)
    BY <2>2
  <2> QED
    BY <2>2, <2>3 DEF d
<1>4. GroupDatum(groups, m + 1) # NoDatum
  BY DEF GroupDatum, Datum, NoDatum
<1>5. m \in Nat /\ m + 1 \in 1 .. m + 1 /\ \A i \in 1 .. m : i \in 1 .. m + 1
  OBVIOUS
<1> HIDE DEF E, B
<1>6. \A f, g : f = [i \in 1 .. m |-> E(i)] /\ g = [i \in 1 .. m + 1 |-> E(i)] => f \in Seq(Events) /\ g = Append(f, E(m + 1))
  <2> TAKE f, g
  <2> HAVE f = [i \in 1 .. m |-> E(i)] /\ g = [i \in 1 .. m + 1 |-> E(i)]
  <2>1. f \in Seq(Events) /\ Len(f) = m /\ \A i \in 1 .. m : f[i] = E(i)
    BY <1>2
  <2>2. g \in Seq(Events) /\ Len(g) = m + 1 /\ \A i \in 1 .. m + 1 : g[i] = E(i)
    BY <1>2
  <2> DEFINE h == Append(f, E(m + 1))
  <2>3. h \in Seq(Events) /\ Len(h) = m + 1 /\ (\A i \in 1 .. m : h[i] = f[i]) /\ h[m + 1] = E(m + 1)
    BY <1>2, <1>5, <2>1, AppendIs
  <2> HIDE DEF h
  <2>4. \A i \in 1 .. m + 1 : g[i] = h[i]
    BY <2>1, <2>2, <2>3
  <2> QED
    BY <2>1, <2>2, <2>3, <2>4, SeqEqual DEF h
<1>7. \A f, g : f = [i \in 1 .. m |-> B(i)] /\ g = [i \in 1 .. m + 1 |-> B(i)] => f \in Seq(Seq(Lines)) /\ g = Append(f, B(m + 1))
  <2> TAKE f, g
  <2> HAVE f = [i \in 1 .. m |-> B(i)] /\ g = [i \in 1 .. m + 1 |-> B(i)]
  <2>1. f \in Seq(Seq(Lines)) /\ Len(f) = m /\ \A i \in 1 .. m : f[i] = B(i)
    BY <1>3
  <2>2. g \in Seq(Seq(Lines)) /\ Len(g) = m + 1 /\ \A i \in 1 .. m + 1 : g[i] = B(i)
    BY <1>3
  <2> DEFINE h == Append(f, B(m + 1))
  <2>3. h \in Seq(Seq(Lines)) /\ Len(h) = m + 1 /\ (\A i \in 1 .. m : h[i] = f[i]) /\ h[m + 1] = B(m + 1)
    BY <1>3, <1>5, <2>1, AppendIs
  <2> HIDE DEF h
  <2>4. \A i \in 1 .. m + 1 : g[i] = h[i]
    BY <2>1, <2>2, <2>3
  <2> QED
    BY <2>1, <2>2, <2>3, <2>4, SeqEqual DEF h
<1> QED
  BY <1>1, <1>4, <1>5, <1>6, <1>7 DEF E, B, GroupEvents, Blocks

LEMMA GroupsNone ==
  ASSUME NEW groups, NEW event
  PROVE  GroupEvents(groups, event, 0) = <<>> /\ Blocks(groups, event, 0) = <<>>
<1>1. 1 .. 0 = {}
  OBVIOUS
<1> QED
  BY <1>1 DEF GroupEvents, Blocks

\* What may be read at any place of the groups.
ReadsTo(parsed, groups, event, k) ==
  \/ parsed \in {Read(GroupEvents(groups, event, k), "unnamed", NoDatum), Read(GroupEvents(groups, event, k), event, NoDatum)}
  \/ k < Len(groups) /\ parsed = Read(GroupEvents(groups, event, k), event, GroupDatum(groups, k + 1))

ReadsSome(parsed, groups, event) == \E k \in 0 .. Len(groups) : ReadsTo(parsed, groups, event, k)

GroupsRead(head, groups, event, m) ==
  LET lines == FlattenSeq(Blocks(groups, event, m))
  IN  /\ lines \in Seq(Lines)
      /\ Parsed(head \o lines) = Read(GroupEvents(groups, event, m), "unnamed", NoDatum)
      /\ \A n \in 0 .. Len(lines) : ReadsSome(Parsed(head \o SubSeq(lines, 1, n)), groups, event)

LEMMA GroupsAreRead ==
  ASSUME NEW head \in Seq(Lines), Parsed(head) = NoEvent, NEW groups \in Seq(Nat), NEW event \in EventNames
  PROVE  \A m \in 0 .. Len(groups) : GroupsRead(head, groups, event, m)
<1> DEFINE T == {m \in 0 .. Len(groups) : ~GroupsRead(head, groups, event, m)}
<1>0. Len(groups) \in Nat /\ head \o <<>> = head
  OBVIOUS
<1>1. GroupsRead(head, groups, event, 0)
  <2>1. FlattenSeq(Blocks(groups, event, 0)) = <<>> /\ <<>> \in Seq(Lines) /\ Len(<<>>) = 0
    BY GroupsNone, FlattenNone
  <2>2. Parsed(head \o <<>>) = Read(GroupEvents(groups, event, 0), "unnamed", NoDatum)
    BY <1>0, GroupsNone, NothingRead
  <2>3. \A n \in 0 .. Len(<<>>) : SubSeq(<<>>, 1, n) = <<>>
    <3>1. SubSeq(<<>>, 1, 0) = <<>>
      BY <2>1, PrefixNone
    <3> QED
      BY <2>1, <3>1
  <2>4. 0 \in 0 .. Len(groups)
    BY <1>0
  <2>5. ReadsSome(Parsed(head \o <<>>), groups, event)
    BY <2>2, <2>4 DEF ReadsSome, ReadsTo
  <2> QED
    BY <2>1, <2>2, <2>3, <2>5 DEF GroupsRead
<1>2. ASSUME NEW m \in T, \A k \in T : m <= k
      PROVE  FALSE
  <2>1. m # 0
    BY <1>1
  <2> DEFINE k == m - 1
  <2>2. k \in Nat /\ k < Len(groups) /\ k + 1 = m /\ k \in 0 .. Len(groups) /\ ~(m <= k) /\ m \in 0 .. Len(groups)
    <3>1. m \in 0 .. Len(groups)
      OBVIOUS
    <3> HIDE DEF T
    <3> QED
      BY <1>0, <2>1, <3>1
  <2>3. GroupsRead(head, groups, event, k) /\ ~GroupsRead(head, groups, event, m)
    <3>1. k \notin T
      BY <1>2, <2>2
    <3> QED
      BY <2>2, <3>1
  <2> HIDE DEF k, T
  <2> DEFINE before == FlattenSeq(Blocks(groups, event, k))
             datum  == GroupDatum(groups, k + 1)
             block  == EventLines(event, datum)
             events == GroupEvents(groups, event, k)
             all    == head \o before
  <2>4. /\ before \in Seq(Lines) /\ Parsed(all) = Read(events, "unnamed", NoDatum)
        /\ \A n \in 0 .. Len(before) : ReadsSome(Parsed(head \o SubSeq(before, 1, n)), groups, event)
    BY <2>3 DEF GroupsRead
  <2>5. /\ datum \in DatumShapes /\ datum # NoDatum
        /\ GroupEvents(groups, event, m) = Append(events, EventOf(event, datum))
        /\ Blocks(groups, event, k) \in Seq(Seq(Lines))
        /\ Blocks(groups, event, m) = Append(Blocks(groups, event, k), block)
    BY <2>2, GroupsGrow
  <2>6. all \in Seq(Lines)
    BY <2>4, ConcatProperties
  <2>7. BlockStarts(all, events, event, datum)
    <3> HIDE DEF all, events, datum
    <3> QED
      BY <2>4, <2>5, <2>6, BlockIsRead
  <2>8. /\ block \in Seq(Lines)
        /\ Parsed(all \o block) = Read(GroupEvents(groups, event, m), "unnamed", NoDatum)
        /\ \A j \in 0 .. Len(block) - 1 :
             Parsed(all \o SubSeq(block, 1, j)) \in {Read(events, "unnamed", NoDatum), Read(events, event, NoDatum), Read(events, event, datum)}
    BY <2>5, <2>7 DEF BlockStarts
  <2> DEFINE lines == FlattenSeq(Blocks(groups, event, m))
  <2>9. lines = before \o block
    BY <2>5, <2>8, FlattenNext
  <2>10. \A j \in 0 .. Len(block) : ReadsSome(Parsed(all \o SubSeq(block, 1, j)), groups, event)
    <3> TAKE j \in 0 .. Len(block)
    <3>0. Len(block) \in Nat
      BY <2>8
    <3>1. CASE j = Len(block)
      <4>1. SubSeq(block, 1, j) = block
        BY <2>8, <3>1, PrefixNone
      <4>2. ReadsTo(Parsed(all \o SubSeq(block, 1, j)), groups, event, m)
        BY <2>8, <4>1 DEF ReadsTo
      <4> QED
        BY <2>2, <4>2 DEF ReadsSome
    <3>2. CASE j # Len(block)
      <4>1. j \in 0 .. Len(block) - 1
        BY <3>0, <3>2
      <4> DEFINE parsed == Parsed(all \o SubSeq(block, 1, j))
      <4>2. parsed \in {Read(events, "unnamed", NoDatum), Read(events, event, NoDatum), Read(events, event, datum)}
        BY <2>8, <4>1
      <4> HIDE DEF parsed
      <4>3. ReadsTo(parsed, groups, event, k)
        BY <2>2, <4>2 DEF ReadsTo
      <4>4. ReadsSome(parsed, groups, event)
        BY <2>2, <4>3 DEF ReadsSome
      <4> QED
        BY <4>4 DEF parsed
    <3> QED
      BY <3>1, <3>2
  <2> HIDE DEF before, block, datum, events, lines
  <2>11. lines \in Seq(Lines) /\ Len(lines) = Len(before) + Len(block) /\ Len(before) \in Nat /\ Len(block) \in Nat
    BY <2>4, <2>8, <2>9, ConcatProperties
  <2>12. Parsed(head \o lines) = Read(GroupEvents(groups, event, m), "unnamed", NoDatum)
    <3>1. head \o (before \o block) = all \o block
      BY <2>4, <2>8, ConcatAssociative
    <3> QED
      BY <2>8, <2>9, <3>1
  <2>13. ASSUME NEW n \in 0 .. Len(lines)
         PROVE  ReadsSome(Parsed(head \o SubSeq(lines, 1, n)), groups, event)
    <3>0. n \in Nat /\ n <= Len(before) + Len(block)
      BY <2>11
    <3>1. SubSeq(before \o block, 1, n) = IF n <= Len(before) THEN SubSeq(before, 1, n) ELSE before \o SubSeq(block, 1, n - Len(before))
      BY <2>4, <2>8, <3>0, StartsSplit
    <3>2. CASE n <= Len(before)
      <4>1. n \in 0 .. Len(before)
        BY <2>11, <3>0, <3>2
      <4> QED
        BY <2>4, <2>9, <3>1, <3>2, <4>1
    <3>3. CASE ~(n <= Len(before))
      <4> DEFINE j == n - Len(before)
                 part == SubSeq(block, 1, j)
      <4>1. j \in 0 .. Len(block)
        BY <2>11, <3>0, <3>3
      <4>2. part \in Seq(Lines)
        <5>1. \A i \in 1 .. j : block[i] \in Lines
          BY <2>8, <2>11, <4>1
        <5>2. 1 \in Int /\ j \in Int
          BY <4>1
        <5> HIDE DEF j
        <5> QED
          BY <5>1, <5>2, SubSeqProperties
      <4>3. SubSeq(lines, 1, n) = before \o part
        BY <2>9, <3>1, <3>3
      <4>4. ReadsSome(Parsed(all \o part), groups, event)
        BY <2>10, <4>1
      <4> HIDE DEF part, all
      <4>5. head \o (before \o part) = all \o part
        <5>1. head \in Seq(Lines) /\ before \in Seq(Lines) /\ part \in Seq(Lines)
          BY <2>4, <4>2
        <5>2. head \o (before \o part) = (head \o before) \o part
          BY ONLY <5>1, ConcatAssociative
        <5> QED
          BY <5>2 DEF all
      <4> QED
        BY <4>3, <4>4, <4>5
    <3> QED
      BY <3>2, <3>3
  <2> QED
    BY <2>3, <2>11, <2>12, <2>13 DEF GroupsRead, lines
<1>3. T \in SUBSET Nat
  BY <1>0
<1>4. T = {}
  <2> HIDE DEF T
  <2> QED
    BY <1>2, <1>3, LeastIsThere
<1> QED
  BY <1>4

LEMMA PickedSame ==
  ASSUME NEW S, NEW s \in Seq(S), NEW k, NEW l, \A i \in 1 .. Len(s) : s[i] \in k <=> s[i] \in l
  PROVE  Picked(s, k) = Picked(s, l)
<1>1. {i \in DOMAIN s : s[i] \in k} = {i \in DOMAIN s : s[i] \in l}
  OBVIOUS
<1> QED
  BY <1>1 DEF Picked

\* The events of some names whose data is JSON, and what is told of them.
NamedOnes(names) == {e \in Events : e.event \in names /\ e.datum.is \notin {"none", "broken"}}

ToldGroups(named) == [i \in DOMAIN named |-> named[i].datum]

ToldNext(named) == IF named = <<>> THEN 0 ELSE Last(named).datum.next

ToldFailed(named) == \E e \in ToSet(named) : e.datum.is = "stated"

ToldOf(groups, next, failed) == [groups |-> groups, next |-> next, failed |-> failed]

LEMMA EventsAreTold ==
  ASSUME NEW lines, ParseSSE(lines) \in Seq(Events)
  PROVE  ParseSSEGroups(lines) =
           ToldOf(ToldGroups(Picked(ParseSSE(lines), NamedOnes({"data", "unnamed"}))),
                  ToldNext(Picked(ParseSSE(lines), NamedOnes({"metadata"}))),
                  ToldFailed(Picked(ParseSSE(lines), NamedOnes({"error"}))))
<1> DEFINE events == ParseSSE(lines)
           Named(names) == Picked(events, {e \in ToSet(events) : e.event \in names /\ e.datum.is \notin {"none", "broken"}})
<1>1. ASSUME NEW names PROVE Named(names) = Picked(events, NamedOnes(names))
  <2> DEFINE k == {e \in ToSet(events) : e.event \in names /\ e.datum.is \notin {"none", "broken"}}
             l == NamedOnes(names)
  <2>1. \A i \in 1 .. Len(events) : events[i] \in Events /\ events[i] \in ToSet(events)
    BY DEF ToSet
  <2>2. \A i \in 1 .. Len(events) : events[i] \in k <=> events[i] \in l
    BY <2>1 DEF NamedOnes
  <2> HIDE DEF k, l, events
  <2>3. events \in Seq(Events)
    BY DEF events
  <2>4. Picked(events, k) = Picked(events, l)
    BY <2>2, <2>3, PickedSame
  <2> QED
    BY <2>4 DEF k, l
<1>2. ParseSSEGroups(lines) =
        ToldOf(ToldGroups(Named({"data", "unnamed"})), ToldNext(Named({"metadata"})), ToldFailed(Named({"error"})))
  BY DEF ParseSSEGroups, ToldOf, ToldGroups, ToldNext, ToldFailed
<1> HIDE DEF Named
<1>3. /\ Named({"data", "unnamed"}) = Picked(events, NamedOnes({"data", "unnamed"}))
      /\ Named({"metadata"}) = Picked(events, NamedOnes({"metadata"}))
      /\ Named({"error"}) = Picked(events, NamedOnes({"error"}))
  BY <1>1
<1> QED
  BY <1>2, <1>3

GroupsTold(groups, k) == [i \in 1 .. k |-> GroupDatum(groups, i)]

LEMMA GroupsAreNamed ==
  ASSUME NEW groups \in Seq(Nat), NEW event \in {"data", "unnamed"}, NEW k \in 0 .. Len(groups)
  PROVE  /\ GroupEvents(groups, event, k) \in Seq(Events) /\ Len(GroupEvents(groups, event, k)) = k
         /\ Picked(GroupEvents(groups, event, k), NamedOnes({"data", "unnamed"})) = GroupEvents(groups, event, k)
         /\ Picked(GroupEvents(groups, event, k), NamedOnes({"metadata"})) = <<>>
         /\ Picked(GroupEvents(groups, event, k), NamedOnes({"error"})) = <<>>
         /\ ToldGroups(GroupEvents(groups, event, k)) = GroupsTold(groups, k)
<1> DEFINE s == GroupEvents(groups, event, k)
<1>0. event \in EventNames /\ k \in Nat
  BY DEF EventNames
<1>1. ASSUME NEW i \in 1 .. k
      PROVE  /\ EventOf(event, GroupDatum(groups, i)) \in Events
             /\ EventOf(event, GroupDatum(groups, i)).event = event
             /\ EventOf(event, GroupDatum(groups, i)).datum = GroupDatum(groups, i)
             /\ GroupDatum(groups, i).is = "group"
  <2>1. groups[i] \in Nat
    OBVIOUS
  <2>2. GroupDatum(groups, i) \in DatumShapes
    BY <2>1, DataAre DEF GroupDatum
  <2> QED
    BY <1>0, <2>2, DataAre DEF EventOf, GroupDatum, Datum
<1>2. /\ s \in Seq(Events) /\ Len(s) = k /\ DOMAIN s = 1 .. k
      /\ \A i \in 1 .. k : s[i] = EventOf(event, GroupDatum(groups, i))
  BY <1>0, <1>1 DEF GroupEvents
<1> HIDE DEF s
<1>3. \A i \in 1 .. Len(s) : /\ s[i] \in NamedOnes({"data", "unnamed"})
                             /\ s[i] \notin NamedOnes({"metadata"})
                             /\ s[i] \notin NamedOnes({"error"})
  BY <1>1, <1>2 DEF NamedOnes
<1>4. /\ Picked(s, NamedOnes({"data", "unnamed"})) = s
      /\ Picked(s, NamedOnes({"metadata"})) = <<>>
      /\ Picked(s, NamedOnes({"error"})) = <<>>
  BY <1>2, <1>3, AllPicked, NothingPicked
<1>5. ToldGroups(s) = GroupsTold(groups, k)
  BY <1>1, <1>2 DEF ToldGroups, GroupsTold
<1> QED
  BY <1>2, <1>4, <1>5 DEF s

LEMMA NothingElse == ToldNext(<<>>) = 0 /\ ToldFailed(<<>>) = FALSE
<1>1. ToSet(<<>>) = {}
  BY DEF ToSet
<1> QED
  BY <1>1 DEF ToldNext, ToldFailed

LEMMA OneElse == ASSUME NEW e \in Events PROVE ToldNext(Append(<<>>, e)) = e.datum.next /\ ToldFailed(Append(<<>>, e)) = (e.datum.is = "stated")
<1> DEFINE s == Append(<<>>, e)
<1>1. s \in Seq(Events) /\ Len(s) = 1 /\ s[1] = e /\ DOMAIN s = 1 .. 1 /\ s # <<>>
  OBVIOUS
<1> HIDE DEF s
<1>2. Last(s) = e /\ ToSet(s) = {e}
  <2>1. 1 .. 1 = {1}
    OBVIOUS
  <2> QED
    BY <1>1, <2>1 DEF Last, ToSet
<1> QED
  BY <1>1, <1>2 DEF ToldNext, ToldFailed, s

\* What is told of groups, and of groups with one more event.
LEMMA OnlyGroups ==
  ASSUME NEW lines, NEW groups \in Seq(Nat), NEW event \in {"data", "unnamed"}, NEW k \in 0 .. Len(groups),
         ParseSSE(lines) = GroupEvents(groups, event, k)
  PROVE  ParseSSEGroups(lines) = ToldOf(GroupsTold(groups, k), 0, FALSE)
<1> DEFINE s == GroupEvents(groups, event, k)
<1>1. /\ s \in Seq(Events)
      /\ Picked(s, NamedOnes({"data", "unnamed"})) = s
      /\ Picked(s, NamedOnes({"metadata"})) = <<>>
      /\ Picked(s, NamedOnes({"error"})) = <<>>
      /\ ToldGroups(s) = GroupsTold(groups, k)
  BY GroupsAreNamed
<1>2. ParseSSE(lines) = s
  OBVIOUS
<1> HIDE DEF s
<1>3. ParseSSEGroups(lines) =
        ToldOf(ToldGroups(Picked(s, NamedOnes({"data", "unnamed"}))),
               ToldNext(Picked(s, NamedOnes({"metadata"}))),
               ToldFailed(Picked(s, NamedOnes({"error"}))))
  BY <1>1, <1>2, EventsAreTold
<1> QED
  BY ONLY <1>1, <1>3, NothingElse

OneMoreTold(told1, groups, event, k, x) ==
  /\ x.datum.is \in {"none", "broken"} => told1 = ToldOf(GroupsTold(groups, k), 0, FALSE)
  /\ k < Len(groups) /\ x = EventOf(event, GroupDatum(groups, k + 1)) => told1 = ToldOf(GroupsTold(groups, k + 1), 0, FALSE)
  /\ x.event = "metadata" /\ x.datum.is \notin {"none", "broken"} => told1 = ToldOf(GroupsTold(groups, k), x.datum.next, FALSE)
  /\ x.event = "error" /\ x.datum.is = "stated" => told1 = ToldOf(GroupsTold(groups, k), 0, TRUE)
  /\ x.event = "error" /\ x.datum.is = "unstated" => told1 = ToldOf(GroupsTold(groups, k), 0, FALSE)

LEMMA OneMoreEvent ==
  ASSUME NEW lines, NEW groups \in Seq(Nat), NEW event \in {"data", "unnamed"}, NEW k \in 0 .. Len(groups), NEW x \in Events,
         ParseSSE(lines) = Append(GroupEvents(groups, event, k), x)
  PROVE  OneMoreTold(ParseSSEGroups(lines), groups, event, k, x)
<1> DEFINE s == GroupEvents(groups, event, k)
           data == NamedOnes({"data", "unnamed"})
           metadata == NamedOnes({"metadata"})
           error == NamedOnes({"error"})
           t == Append(s, x)
<1>1. /\ s \in Seq(Events) /\ Picked(s, data) = s /\ Picked(s, metadata) = <<>> /\ Picked(s, error) = <<>>
      /\ ToldGroups(s) = GroupsTold(groups, k)
  BY GroupsAreNamed
<1>2. /\ x \in data <=> x.event \in {"data", "unnamed"} /\ x.datum.is \notin {"none", "broken"}
      /\ x \in metadata <=> x.event = "metadata" /\ x.datum.is \notin {"none", "broken"}
      /\ x \in error <=> x.event = "error" /\ x.datum.is \notin {"none", "broken"}
  BY DEF NamedOnes
<1> HIDE DEF s, data, metadata, error
<1>3. /\ Picked(t, data) = PickedAfter(s, x, data)
      /\ Picked(t, metadata) = PickedAfter(<<>>, x, metadata)
      /\ Picked(t, error) = PickedAfter(<<>>, x, error)
  <2>1. ASSUME NEW keep PROVE Picked(t, keep) = PickedAfter(Picked(s, keep), x, keep)
    BY <1>1, PickedNext
  <2> HIDE DEF t
  <2> QED
    BY <1>1, <2>1
<1>4. t \in Seq(Events) /\ ParseSSE(lines) = t
  BY <1>1 DEF s
<1> HIDE DEF t
<1>5. ParseSSEGroups(lines) = ToldOf(ToldGroups(Picked(t, data)), ToldNext(Picked(t, metadata)), ToldFailed(Picked(t, error)))
  BY <1>4, EventsAreTold DEF data, metadata, error
<1>6. CASE x.datum.is \in {"none", "broken"}
  <2>1. Picked(t, data) = s /\ Picked(t, metadata) = <<>> /\ Picked(t, error) = <<>>
    BY <1>2, <1>3, <1>6 DEF PickedAfter
  <2>2. ParseSSEGroups(lines) = ToldOf(GroupsTold(groups, k), 0, FALSE)
    BY <1>1, <1>5, <2>1, NothingElse
  <2>3. ASSUME k < Len(groups), x = EventOf(event, GroupDatum(groups, k + 1)) PROVE FALSE
    BY <1>6, <2>3 DEF EventOf, GroupDatum, Datum
  <2> QED
    BY <1>6, <2>2, <2>3 DEF OneMoreTold
<1>7. CASE x.event = "metadata" /\ x.datum.is \notin {"none", "broken"}
  <2>1. Picked(t, data) = s /\ Picked(t, metadata) = Append(<<>>, x) /\ Picked(t, error) = <<>>
    BY <1>2, <1>3, <1>7 DEF PickedAfter
  <2>2. ParseSSEGroups(lines) = ToldOf(GroupsTold(groups, k), x.datum.next, FALSE)
    BY <1>1, <1>5, <2>1, NothingElse, OneElse
  <2>3. ASSUME k < Len(groups), x = EventOf(event, GroupDatum(groups, k + 1)) PROVE FALSE
    BY <1>7, <2>3 DEF EventOf, GroupDatum, Datum
  <2> QED
    BY <1>7, <2>2, <2>3 DEF OneMoreTold
<1>8. CASE x.event = "error" /\ x.datum.is \notin {"none", "broken"}
  <2>1. Picked(t, data) = s /\ Picked(t, metadata) = <<>> /\ Picked(t, error) = Append(<<>>, x)
    BY <1>2, <1>3, <1>8 DEF PickedAfter
  <2>2. /\ x.datum.is = "stated" => ParseSSEGroups(lines) = ToldOf(GroupsTold(groups, k), 0, TRUE)
        /\ x.datum.is = "unstated" => ParseSSEGroups(lines) = ToldOf(GroupsTold(groups, k), 0, FALSE)
    <3>1. ToldFailed(Append(<<>>, x)) = (x.datum.is = "stated")
      BY OneElse
    <3>2. /\ x.datum.is = "stated" => ToldFailed(Append(<<>>, x)) = TRUE
          /\ x.datum.is = "unstated" => ToldFailed(Append(<<>>, x)) = FALSE
      BY <3>1
    <3> QED
      BY <1>1, <1>5, <2>1, <3>2, NothingElse
  <2>3. ASSUME k < Len(groups), x = EventOf(event, GroupDatum(groups, k + 1)) PROVE FALSE
    BY <1>8, <2>3 DEF EventOf, GroupDatum, Datum
  <2> QED
    BY <1>8, <2>2, <2>3 DEF OneMoreTold
<1>9. CASE k < Len(groups) /\ x = EventOf(event, GroupDatum(groups, k + 1))
  <2>1. event \in EventNames /\ k \in Nat /\ k + 1 \in 0 .. Len(groups)
    BY <1>9 DEF EventNames
  <2>2. GroupEvents(groups, event, k + 1) = t
    BY <1>9, <2>1, GroupsGrow, <1>4 DEF t, s
  <2> QED
    BY <1>4, <1>9, <2>1, <2>2, OnlyGroups, <1>6, <1>7, <1>8 DEF OneMoreTold
<1> QED
  BY <1>6, <1>7, <1>8, <1>9 DEF OneMoreTold

\* What a place of a stream reads as: groups, and maybe the event that is going on.
Going(parsed, groups, event, k) ==
  \/ parsed = Read(GroupEvents(groups, event, k), "unnamed", NoDatum)
  \/ parsed \in {Read(GroupEvents(groups, event, k), e, NoDatum) : e \in EventNames}
  \/ k < Len(groups) /\ parsed = Read(GroupEvents(groups, event, k), event, GroupDatum(groups, k + 1))

LEMMA GoingIsTold ==
  ASSUME NEW lines, NEW groups \in Seq(Nat), NEW event \in {"data", "unnamed"}, NEW k \in 0 .. Len(groups),
         Going(Parsed(lines), groups, event, k)
  PROVE  \E l \in 0 .. Len(groups) : ParseSSEGroups(lines) = ToldOf(GroupsTold(groups, l), 0, FALSE)
<1> DEFINE s == GroupEvents(groups, event, k)
<1>0. event \in EventNames
  BY DEF EventNames
<1>1. ASSUME NEW e \in EventNames, NEW d \in DatumShapes, Parsed(lines) = Read(s, e, d), e # "unnamed" \/ d # NoDatum
      PROVE  ParseSSE(lines) = Append(s, EventOf(e, d)) /\ EventOf(e, d) \in Events /\ EventOf(e, d).datum = d
  <2>1. ParseSSE(lines) = EndEvent(Read(s, e, d)).events
    BY <1>1 DEF ParseSSE
  <2>2. EndEvent(Read(s, e, d)) = Read(Append(s, EventOf(e, d)), "unnamed", NoDatum)
    BY <1>1, EventEnds
  <2>3. EventOf(e, d) \in Events
    BY DataAre
  <2> QED
    BY <2>1, <2>2, <2>3 DEF Read, EventOf
<1>2. CASE Parsed(lines) = Read(s, "unnamed", NoDatum)
  <2>1. ParseSSE(lines) = EndEvent(Read(s, "unnamed", NoDatum)).events
    BY <1>2 DEF ParseSSE
  <2>2. EndEvent(Read(s, "unnamed", NoDatum)) = Read(s, "unnamed", NoDatum)
    BY EventEnds
  <2>3. ParseSSE(lines) = s
    BY <2>1, <2>2 DEF Read
  <2> QED
    BY <2>3, OnlyGroups
<1>3. CASE \E e \in EventNames : e # "unnamed" /\ Parsed(lines) = Read(s, e, NoDatum)
  <2>1. PICK e \in EventNames : e # "unnamed" /\ Parsed(lines) = Read(s, e, NoDatum)
    BY <1>3
  <2> DEFINE x == EventOf(e, NoDatum)
  <2>2. ParseSSE(lines) = Append(s, x) /\ x \in Events /\ x.datum = NoDatum
    BY <1>1, <2>1, DataAre
  <2>3. x.datum.is \in {"none", "broken"}
    BY <2>2 DEF NoDatum, Datum
  <2> HIDE DEF x
  <2>4. ParseSSEGroups(lines) = ToldOf(GroupsTold(groups, k), 0, FALSE)
    BY <2>2, <2>3, OneMoreEvent DEF OneMoreTold
  <2> QED
    BY <2>4
<1>4. CASE k < Len(groups) /\ Parsed(lines) = Read(s, event, GroupDatum(groups, k + 1))
  <2>1. k \in Nat /\ k + 1 \in 0 .. Len(groups)
    BY <1>4
  <2>2. GroupDatum(groups, k + 1) \in DatumShapes /\ GroupDatum(groups, k + 1) # NoDatum
    BY <1>0, <1>4, <2>1, GroupsGrow
  <2> DEFINE x == EventOf(event, GroupDatum(groups, k + 1))
  <2>3. ParseSSE(lines) = Append(s, x) /\ x \in Events
    BY <1>0, <1>1, <1>4, <2>2
  <2>4. ParseSSEGroups(lines) = ToldOf(GroupsTold(groups, k + 1), 0, FALSE)
    BY <1>4, <2>3, OneMoreEvent DEF OneMoreTold
  <2> QED
    BY <2>1, <2>4
<1>5. (\E e \in EventNames : Parsed(lines) = Read(s, e, NoDatum)) => \/ Parsed(lines) = Read(s, "unnamed", NoDatum)
        \/ \E e \in EventNames : e # "unnamed" /\ Parsed(lines) = Read(s, e, NoDatum)
  OBVIOUS
<1> QED
  BY <1>2, <1>3, <1>4, <1>5 DEF Going

\* A line that breaks off takes what is going on with it.
Broken == Datum("broken", 0, 0)

LEMMA BrokenIsTold ==
  ASSUME NEW lines \in Seq(Lines), NEW groups \in Seq(Nat), NEW event \in {"data", "unnamed"}, NEW k \in 0 .. Len(groups),
         NEW e \in EventNames, NEW d, Parsed(lines) = Read(GroupEvents(groups, event, k), e, d)
  PROVE  ParseSSEGroups(lines \o <<StreamLine("data", "unnamed", Broken)>>) = ToldOf(GroupsTold(groups, k), 0, FALSE)
<1> DEFINE s == GroupEvents(groups, event, k)
           line == StreamLine("data", "unnamed", Broken)
           all == lines \o <<line>>
           x == EventOf(e, Broken)
<1>1. Broken \in DatumShapes /\ Broken # NoDatum /\ Broken.is = "broken"
  <2>1. 0 \in Nat
    OBVIOUS
  <2> QED
    BY <2>1, DataAre DEF Broken, Datum, NoDatum
<1>2. line \in Lines
  BY <1>1, DataAre DEF EventNames
<1>3. ParseLine(Read(s, e, d), line) = Read(s, e, Broken)
  BY LinesRead
<1>4. x \in Events /\ x.datum.is = "broken"
  BY <1>1, DataAre DEF EventOf
<1>5. EndEvent(Read(s, e, Broken)) = Read(Append(s, x), "unnamed", NoDatum)
  BY <1>1, EventEnds
<1> HIDE DEF line, s
<1>6. all = Append(lines, line)
  BY <1>2, FewMore
<1>7. Parsed(all) = Read(s, e, Broken)
  BY <1>2, <1>3, <1>6, ParsedNext DEF s
<1>8. ParseSSE(all) = Append(s, x)
  BY <1>5, <1>7 DEF ParseSSE, Read
<1> HIDE DEF x, all
<1>9. ParseSSEGroups(all) = ToldOf(GroupsTold(groups, k), 0, FALSE)
  BY <1>4, <1>8, OneMoreEvent DEF OneMoreTold, s
<1> QED
  BY <1>9 DEF all, line

\* So does an error the server tells of.
LEMMA ErrorIsTold ==
  ASSUME NEW lines \in Seq(Lines), NEW groups \in Seq(Nat), NEW event \in {"data", "unnamed"}, NEW k \in 0 .. Len(groups),
         NEW e \in EventNames, NEW d, Parsed(lines) = Read(GroupEvents(groups, event, k), e, d), NEW is \in {"stated", "unstated"}
  PROVE  /\ is = "stated" =>
              ParseSSEGroups(lines \o EventLines("error", Datum(is, 0, 0))) = ToldOf(GroupsTold(groups, k), 0, TRUE)
         /\ is = "unstated" =>
              ParseSSEGroups(lines \o EventLines("error", Datum(is, 0, 0))) = ToldOf(GroupsTold(groups, k), 0, FALSE)
<1> DEFINE s == GroupEvents(groups, event, k)
           datum == Datum(is, 0, 0)
           a == StreamLine("event", "error", NoDatum)
           b == StreamLine("data", "unnamed", datum)
           c == StreamLine("blank", "unnamed", NoDatum)
           x == EventOf("error", datum)
           all == lines \o EventLines("error", datum)
<1>1. datum \in DatumShapes /\ datum # NoDatum /\ datum.is = is /\ "error" \in EventNames
  <2>1. 0 \in Nat /\ is \in {"group", "cursors", "stated", "unstated", "broken"}
    OBVIOUS
  <2>2. datum \in DatumShapes
    BY <2>1, DataAre
  <2> QED
    BY <2>2 DEF Datum, NoDatum, EventNames
<1>2. x \in Events /\ x.datum = datum /\ x.event = "error"
  BY <1>1, DataAre DEF EventOf
<1> HIDE DEF datum, s
<1>3. EventLines("error", datum) = <<a, b, c>> /\ a \in Lines /\ b \in Lines /\ c \in Lines
  BY <1>1, BlockIs
<1>4. /\ ParseLine(Read(s, e, d), a) = Read(s, "error", d)
      /\ ParseLine(Read(s, "error", d), b) = Read(s, "error", datum)
      /\ ParseLine(Read(s, "error", datum), c) = Read(Append(s, x), "unnamed", NoDatum)
  <2>1. /\ ParseLine(Read(s, e, d), a) = Read(s, "error", d)
        /\ ParseLine(Read(s, "error", d), b) = Read(s, "error", datum)
        /\ ParseLine(Read(s, "error", datum), c) = EndEvent(Read(s, "error", datum))
    BY LinesRead
  <2>2. EndEvent(Read(s, "error", datum)) = Read(Append(s, x), "unnamed", NoDatum)
    BY <1>1, EventEnds
  <2> QED
    BY <2>1, <2>2
<1> HIDE DEF a, b, c, x
<1> DEFINE l1 == Append(lines, a)
           l2 == Append(l1, b)
           l3 == Append(l2, c)
<1>5. all = l3 /\ l1 \in Seq(Lines) /\ l2 \in Seq(Lines)
  <2>1. lines \o <<a, b, c>> = l3 /\ l1 \in Seq(Lines) /\ l2 \in Seq(Lines)
    BY <1>3, FewMore
  <2> HIDE DEF l1, l2, l3
  <2> QED
    BY <1>3, <2>1
<1>6. Parsed(l1) = Read(s, "error", d)
  BY <1>3, <1>4, ParsedNext DEF s
<1> HIDE DEF l1
<1>7. Parsed(l2) = Read(s, "error", datum)
  BY <1>3, <1>4, <1>5, <1>6, ParsedNext
<1> HIDE DEF l2
<1>8. Parsed(l3) = Read(Append(s, x), "unnamed", NoDatum)
  BY <1>3, <1>4, <1>5, <1>7, ParsedNext
<1> HIDE DEF l3, all
<1>9. ParseSSE(all) = Append(s, x)
  <2>1. EndEvent(Read(Append(s, x), "unnamed", NoDatum)) = Read(Append(s, x), "unnamed", NoDatum)
    BY EventEnds
  <2>2. Parsed(all) = Read(Append(s, x), "unnamed", NoDatum)
    BY <1>5, <1>8
  <2>3. ParseSSE(all) = Read(Append(s, x), "unnamed", NoDatum).events
    BY <2>1, <2>2 DEF ParseSSE
  <2> QED
    BY ONLY <2>3 DEF Read
<1>10. /\ is = "stated" => ParseSSEGroups(all) = ToldOf(GroupsTold(groups, k), 0, TRUE)
       /\ is = "unstated" => ParseSSEGroups(all) = ToldOf(GroupsTold(groups, k), 0, FALSE)
  <2>1. x.event = "error" /\ x.datum.is = is
    BY <1>1, <1>2
  <2>2. ParseSSE(all) = Append(GroupEvents(groups, event, k), x)
    BY <1>9 DEF s
  <2>3. OneMoreTold(ParseSSEGroups(all), groups, event, k, x)
    BY <1>2, <2>2, OneMoreEvent
  <2> QED
    BY <2>1, <2>3 DEF OneMoreTold
<1> QED
  BY <1>10 DEF all, datum

\* The groups that the server has for a command, and the cursor after them.
TurnGroups(run) == FlattenSeq(SubSeq(Thread, FirstTurn(run), LastTurn(run)))

NextTurn(run) == IF LastTurn(run) < Len(Thread) THEN LastTurn(run) + 1 ELSE 0

StreamHead == <<StreamLine("other", "unnamed", NoDatum), StreamLine("blank", "unnamed", NoDatum)>>

Cursors(run) == Datum("cursors", FirstTurn(run), NextTurn(run))

LEMMA HeadIsRead ==
  /\ StreamHead \in Seq(Lines) /\ Len(StreamHead) = 2
  /\ \A n \in 0 .. 2 : Parsed(SubSeq(StreamHead, 1, n)) = NoEvent
  /\ Parsed(StreamHead) = NoEvent
  /\ <<StreamLine("other", "unnamed", NoDatum)>> \in Seq(Lines)
  /\ Parsed(<<StreamLine("other", "unnamed", NoDatum)>>) = NoEvent
<1> DEFINE a == StreamLine("other", "unnamed", NoDatum)
           b == StreamLine("blank", "unnamed", NoDatum)
           none == Read(<<>>, "unnamed", NoDatum)
<1>1. a \in Lines /\ b \in Lines
  BY DataAre DEF EventNames
<1>2. ParseLine(none, a) = none /\ ParseLine(none, b) = none
  <2>1. ParseLine(none, a) = none /\ ParseLine(none, b) = EndEvent(none)
    BY LinesRead
  <2>2. EndEvent(none) = none
    BY EventEnds
  <2> QED
    BY <2>1, <2>2
<1>3. StreamHead = <<a, b>>
  BY DEF StreamHead
<1>4. NoEvent = none
  BY NothingRead
<1> HIDE DEF a, b, none
<1> DEFINE l0 == <<>>
           l1 == Append(l0, a)
           l2 == Append(l1, b)
<1>5. <<a>> = l1 /\ <<a, b>> = l2
  BY FewAre
<1>6. l0 \in Seq(Lines) /\ l1 \in Seq(Lines) /\ l2 \in Seq(Lines)
  BY <1>1
<1>7. Parsed(l0) = none
  BY <1>4, ParsedNone
<1> HIDE DEF l0
<1>8. Parsed(l1) = none
  BY <1>1, <1>2, <1>6, <1>7, ParsedNext
<1> HIDE DEF l1
<1>9. Parsed(l2) = none
  BY <1>1, <1>2, <1>6, <1>8, ParsedNext
<1>10. Len(<<a, b>>) = 2
  OBVIOUS
<1>11. \A n \in 0 .. 2 : SubSeq(<<a, b>>, 1, n) = l0 \/ SubSeq(<<a, b>>, 1, n) = l1 \/ SubSeq(<<a, b>>, 1, n) = l2
  <2>1. SubSeq(<<a, b>>, 1, 0) = <<>> /\ SubSeq(<<a, b>>, 1, 1) = <<a>>
    BY FewFirst
  <2>2. SubSeq(<<a, b>>, 1, 2) = <<a, b>>
    <3>1. <<a, b>> \in Seq(Lines)
      BY <1>5, <1>6
    <3>2. SubSeq(<<a, b>>, 1, Len(<<a, b>>)) = <<a, b>>
      BY <3>1, PrefixNone
    <3> QED
      BY <1>10, <3>2
  <2>3. \A n \in 0 .. 2 : n = 0 \/ n = 1 \/ n = 2
    OBVIOUS
  <2> HIDE DEF l2
  <2> QED
    BY <1>5, <2>1, <2>2, <2>3 DEF l0
<1> HIDE DEF l2
<1> QED
  BY <1>3, <1>4, <1>5, <1>6, <1>7, <1>8, <1>9, <1>10, <1>11 DEF a

\* The places of a page: before the cursors, and from the name of their event on.
LEMMA GoingBefore ==
  ASSUME NEW head \in Seq(Lines), Parsed(head) = NoEvent, NEW groups \in Seq(Nat), NEW event \in {"data", "unnamed"},
         NEW n \in 0 .. Len(FlattenSeq(Blocks(groups, event, Len(groups))))
  PROVE  \E k \in 0 .. Len(groups) :
           Going(Parsed(head \o SubSeq(FlattenSeq(Blocks(groups, event, Len(groups))), 1, n)), groups, event, k)
<1> DEFINE parsed == Parsed(head \o SubSeq(FlattenSeq(Blocks(groups, event, Len(groups))), 1, n))
<1>1. event \in EventNames /\ "unnamed" \in EventNames
  BY DEF EventNames
<1>2. GroupsRead(head, groups, event, Len(groups))
  <2>1. Len(groups) \in 0 .. Len(groups)
    OBVIOUS
  <2>2. \A m \in 0 .. Len(groups) : GroupsRead(head, groups, event, m)
    BY <1>1, GroupsAreRead
  <2> QED
    BY <2>1, <2>2
<1>3. ReadsSome(parsed, groups, event)
  BY <1>2 DEF GroupsRead
<1> HIDE DEF parsed
<1>4. PICK k \in 0 .. Len(groups) : ReadsTo(parsed, groups, event, k)
  BY <1>3 DEF ReadsSome
<1>5. Going(parsed, groups, event, k)
  BY <1>1, <1>4 DEF ReadsTo, Going
<1> QED
  BY <1>5 DEF parsed

LEMMA TurnsAre ==
  ASSUME NEW run, run.in \in ThreadInputs, run.cursor \in Nat
  PROVE  /\ FirstTurn(run) \in Nat \ {0} /\ LastTurn(run) \in 0 .. Len(Thread) /\ Len(Thread) \in Nat
         /\ FirstTurn(run) <= Len(Thread) => FirstTurn(run) <= LastTurn(run)
         /\ ~(FirstTurn(run) <= Len(Thread)) => LastTurn(run) = Len(Thread)
         /\ NextTurn(run) \in Nat /\ TurnGroups(run) \in Seq(Nat)
<1>1. run.in.limit \in Nat /\ run.in.trace \in Nat /\ ServerTurns \in Nat \ {0} /\ Thread \in Seq(Seq(Nat))
  BY ThreadAssumption
<1>2. FirstTurn(run) \in Nat \ {0}
  BY <1>1 DEF FirstTurn
<1> DEFINE size == IF run.in.limit = 0 THEN ServerTurns ELSE Min({run.in.limit, ServerTurns})
<1>3. size \in Nat \ {0}
  <2>1. Min({run.in.limit, ServerTurns}) = IF run.in.limit <= ServerTurns THEN run.in.limit ELSE ServerTurns
    BY <1>1, MinOfTwo
  <2> QED
    BY <1>1, <2>1
<1>4. LastTurn(run) = Min({FirstTurn(run) + size - 1, Len(Thread)})
  BY DEF LastTurn
<1> HIDE DEF size
<1> DEFINE first == FirstTurn(run)
           last == LastTurn(run)
           len == Len(Thread)
<1>5. len \in Nat
  BY <1>1
<1> HIDE DEF first, last, len
<1>6. first + size - 1 \in Nat
  BY <1>2, <1>3 DEF first
<1>7. last = IF first + size - 1 <= len THEN first + size - 1 ELSE len
  BY <1>4, <1>5, <1>6, MinOfTwo DEF first, last, len
<1>8. last \in 0 .. len /\ (first <= len => first <= last) /\ (~(first <= len) => last = len)
  BY <1>2, <1>3, <1>5, <1>6, <1>7 DEF first
<1>9. NextTurn(run) \in Nat
  BY <1>5, <1>8 DEF NextTurn, last, len
<1>10. TurnGroups(run) \in Seq(Nat)
  <2>1. \A i \in first .. last : Thread[i] \in Seq(Nat)
    BY <1>1, <1>2, <1>5, <1>8 DEF first, len
  <2>2. first \in Int /\ last \in Int
    BY <1>2, <1>5, <1>8 DEF first
  <2>3. SubSeq(Thread, first, last) \in Seq(Seq(Nat))
    BY <2>1, <2>2, SubSeqProperties
  <2> QED
    BY <2>3, FlattenType DEF TurnGroups, first, last
<1> QED
  BY <1>2, <1>5, <1>8, <1>9, <1>10 DEF first, last, len

\* The page, as its parts.
LEMMA PageIs ==
  ASSUME NEW run, run.in \in ThreadInputs, run.cursor \in Nat, NEW event \in {"data", "unnamed"}
  PROVE  LET groups == TurnGroups(run)
             before == StreamHead \o GroupLines(run, event)
             block  == EventLines("metadata", Cursors(run))
         IN  /\ GroupLines(run, event) = FlattenSeq(Blocks(groups, event, Len(groups)))
             /\ GroupLines(run, event) \in Seq(Lines)
             /\ PageLines(run, event) = before \o block
             /\ before \in Seq(Lines) /\ block \in Seq(Lines) /\ Len(block) = 3
             /\ Cursors(run) \in DatumShapes /\ Cursors(run) # NoDatum
             /\ BlockStarts(before, GroupEvents(groups, event, Len(groups)), "metadata", Cursors(run))
             /\ PageLines(run, event) \in Seq(Lines) /\ Len(PageLines(run, event)) = Len(before) + 3
<1> DEFINE groups == TurnGroups(run)
           lines  == GroupLines(run, event)
           before == StreamHead \o lines
           cursors == Cursors(run)
           block  == EventLines("metadata", cursors)
           page == PageLines(run, event)
<1>0. /\ "metadata" \in EventNames /\ event \in EventNames /\ groups \in Seq(Nat)
      /\ FirstTurn(run) \in Nat /\ NextTurn(run) \in Nat
  BY TurnsAre DEF EventNames
<1>1. lines = FlattenSeq(Blocks(groups, event, Len(groups)))
  <2>1. DOMAIN groups = 1 .. Len(groups)
    BY <1>0
  <2> QED
    BY <2>1 DEF GroupLines, Blocks, GroupDatum, TurnGroups
<1>2. GroupsRead(StreamHead, groups, event, Len(groups))
  <2>1. Len(groups) \in 0 .. Len(groups)
    BY <1>0
  <2>2. \A m \in 0 .. Len(groups) : GroupsRead(StreamHead, groups, event, m)
    BY <1>0, HeadIsRead, GroupsAreRead
  <2> QED
    BY <2>1, <2>2
<1>3. lines \in Seq(Lines) /\ Parsed(before) = Read(GroupEvents(groups, event, Len(groups)), "unnamed", NoDatum)
  BY <1>1, <1>2 DEF GroupsRead
<1>4. cursors \in DatumShapes /\ cursors # NoDatum
  <2>1. cursors \in DatumShapes
    BY <1>0, DataAre DEF Cursors
  <2> QED
    BY <2>1 DEF Cursors, Datum, NoDatum
<1>5. page = StreamHead \o lines \o block
  BY DEF PageLines, StreamHead, Cursors, NextTurn
<1>6. before \in Seq(Lines)
  BY <1>3, HeadIsRead, ConcatProperties
<1> HIDE DEF lines, cursors, groups
<1>7. BlockStarts(before, GroupEvents(groups, event, Len(groups)), "metadata", cursors)
  <2> HIDE DEF before
  <2> QED
    BY <1>0, <1>3, <1>4, <1>6, BlockIsRead
<1>8. block \in Seq(Lines) /\ Len(block) = 3
  <2> DEFINE a == StreamLine("event", "metadata", NoDatum)
             b == StreamLine("data", "unnamed", cursors)
             c == StreamLine("blank", "unnamed", NoDatum)
  <2>1. block = <<a, b, c>> /\ a \in Lines /\ b \in Lines /\ c \in Lines
    BY <1>0, <1>4, BlockIs
  <2> HIDE DEF a, b, c, block
  <2> QED
    BY <2>1
<1> HIDE DEF block
<1>9. page = before \o block
  BY <1>5
<1> HIDE DEF before, page
<1>10. page \in Seq(Lines) /\ Len(page) = Len(before) + 3
  <2>1. before \o block \in Seq(Lines) /\ Len(before \o block) = Len(before) + Len(block)
    BY ONLY <1>6, <1>8, ConcatProperties, Zenon
  <2> QED
    BY ONLY <1>8, <1>9, <2>1
<1> QED
  BY <1>1, <1>3, <1>4, <1>6, <1>7, <1>8, <1>9, <1>10 DEF lines, before, groups, cursors, block, page

\* What is told of an answer: some groups from the first, and whose end it is.
AnswerTold(run, answer, lines) ==
  \E k \in 0 .. Len(TurnGroups(run)), next \in Nat, failed \in BOOLEAN :
    /\ ParseSSEGroups(lines) = ToldOf(GroupsTold(TurnGroups(run), k), next, failed)
    /\ answer = "stated" => failed
    /\ answer = "page" => k = Len(TurnGroups(run)) /\ next = NextTurn(run)
    /\ answer # "page" => next = 0

LEMMA PageIsTold ==
  ASSUME NEW run, run.in \in ThreadInputs, run.cursor \in Nat, NEW event \in {"data", "unnamed"}
  PROVE  AnswerTold(run, "page", PageLines(run, event))
<1> DEFINE groups == TurnGroups(run)
           before == StreamHead \o GroupLines(run, event)
           block  == EventLines("metadata", Cursors(run))
           page   == PageLines(run, event)
           s      == GroupEvents(groups, event, Len(groups))
           x      == EventOf("metadata", Cursors(run))
           k      == Len(groups)
<1>1. /\ page = before \o block /\ Cursors(run) \in DatumShapes
      /\ BlockStarts(before, s, "metadata", Cursors(run))
  BY PageIs
<1>2. groups \in Seq(Nat) /\ NextTurn(run) \in Nat /\ k \in 0 .. Len(groups)
  BY TurnsAre
<1>3. Parsed(page) = Read(Append(s, x), "unnamed", NoDatum)
  BY <1>1 DEF BlockStarts
<1>4. x \in Events /\ x.event = "metadata" /\ x.datum = Cursors(run)
  BY <1>1, DataAre DEF EventOf, EventNames
<1> HIDE DEF x, page, s
<1>5. ParseSSE(page) = Append(s, x)
  <2>1. EndEvent(Read(Append(s, x), "unnamed", NoDatum)) = Read(Append(s, x), "unnamed", NoDatum)
    BY EventEnds
  <2>2. ParseSSE(page) = Read(Append(s, x), "unnamed", NoDatum).events
    BY <1>3, <2>1 DEF ParseSSE
  <2> QED
    BY ONLY <2>2 DEF Read
<1>6. OneMoreTold(ParseSSEGroups(page), groups, event, k, x)
  <2>1. ParseSSE(page) = Append(GroupEvents(groups, event, k), x)
    BY <1>5 DEF s
  <2> HIDE DEF groups, k
  <2> QED
    BY <1>2, <1>4, <2>1, OneMoreEvent
<1>7. ParseSSEGroups(page) = ToldOf(GroupsTold(groups, k), NextTurn(run), FALSE)
  <2>1. x.datum.is = "cursors" /\ x.datum.next = NextTurn(run)
    BY <1>4 DEF Cursors, Datum
  <2> QED
    BY <1>4, <1>6, <2>1 DEF OneMoreTold
<1> QED
  BY <1>2, <1>7 DEF AnswerTold, page

LEMMA RefusedIsTold ==
  ASSUME NEW run, run.in \in ThreadInputs, run.cursor \in Nat
  PROVE  AnswerTold(run, "refused", <<StreamLine("other", "unnamed", NoDatum)>>)
<1> DEFINE groups == TurnGroups(run)
           lines == <<StreamLine("other", "unnamed", NoDatum)>>
<1>1. groups \in Seq(Nat) /\ 0 \in 0 .. Len(groups) /\ 0 \in Nat
  BY TurnsAre
<1>2. Parsed(lines) = NoEvent
  BY HeadIsRead
<1> HIDE DEF lines
<1>3. ParseSSE(lines) = <<>>
  <2>1. EndEvent(Read(<<>>, "unnamed", NoDatum)) = Read(<<>>, "unnamed", NoDatum)
    BY EventEnds
  <2>2. ParseSSE(lines) = Read(<<>>, "unnamed", NoDatum).events
    BY <1>2, <2>1, NothingRead DEF ParseSSE
  <2> QED
    BY ONLY <2>2 DEF Read
<1>4. ParseSSE(lines) = GroupEvents(groups, "data", 0)
  BY <1>3, GroupsNone
<1>5. ParseSSEGroups(lines) = ToldOf(GroupsTold(groups, 0), 0, FALSE)
  <2> HIDE DEF groups
  <2> QED
    BY <1>1, <1>4, OnlyGroups
<1> QED
  BY <1>1, <1>5 DEF AnswerTold, lines

ReadsAs(parsed, s) == \E e \in EventNames, d \in DatumShapes : parsed = Read(s, e, d)

\* Whatever goes on is groups, and the event that is read.
LEMMA GoingReads ==
  ASSUME NEW parsed, NEW groups \in Seq(Nat), NEW event \in {"data", "unnamed"}, NEW k \in 0 .. Len(groups),
         Going(parsed, groups, event, k)
  PROVE  ReadsAs(parsed, GroupEvents(groups, event, k))
<1>1. event \in EventNames /\ "unnamed" \in EventNames /\ NoDatum \in DatumShapes
  BY DataAre DEF EventNames
<1>2. CASE k < Len(groups)
  <2>1. GroupDatum(groups, k + 1) \in DatumShapes
    <3>1. groups[k + 1] \in Nat
      BY <1>2
    <3>2. 0 \in Nat
      OBVIOUS
    <3> QED
      BY <3>1, <3>2, DataAre DEF GroupDatum
  <2> QED
    BY <1>1, <2>1 DEF Going, ReadsAs
<1>3. CASE ~(k < Len(groups))
  BY <1>1, <1>3 DEF Going, ReadsAs
<1> QED
  BY <1>2, <1>3

\* A page that ends early, at the end of a line or within one.
LEMMA StartGoes ==
  ASSUME NEW run, run.in \in ThreadInputs, run.cursor \in Nat, NEW event \in {"data", "unnamed"},
         NEW n \in 0 .. Len(PageLines(run, event)) - 1
  PROVE  /\ SubSeq(PageLines(run, event), 1, n) \in Seq(Lines)
         /\ \E k \in 0 .. Len(TurnGroups(run)) :
              LET parsed == Parsed(SubSeq(PageLines(run, event), 1, n))
                  s == GroupEvents(TurnGroups(run), event, k)
              IN  /\ ReadsAs(parsed, s)
                  /\ n <= Len(PageLines(run, event)) - 2 => Going(parsed, TurnGroups(run), event, k)
<1> DEFINE groups == TurnGroups(run)
           lines  == GroupLines(run, event)
           before == StreamHead \o lines
           block  == EventLines("metadata", Cursors(run))
           page   == PageLines(run, event)
           start  == SubSeq(page, 1, n)
           S(k)   == GroupEvents(groups, event, k)
<1>1. /\ lines = FlattenSeq(Blocks(groups, event, Len(groups)))
      /\ lines \in Seq(Lines)
      /\ page = before \o block
      /\ before \in Seq(Lines) /\ block \in Seq(Lines) /\ Len(block) = 3
      /\ Cursors(run) \in DatumShapes /\ Cursors(run) # NoDatum
      /\ BlockStarts(before, S(Len(groups)), "metadata", Cursors(run))
      /\ page \in Seq(Lines) /\ Len(page) = Len(before) + 3
  BY PageIs
<1>2. groups \in Seq(Nat) /\ Len(groups) \in 0 .. Len(groups)
  BY TurnsAre
<1>3. event \in EventNames /\ "unnamed" \in EventNames /\ "metadata" \in EventNames /\ NoDatum \in DatumShapes
  BY DataAre DEF EventNames
<1>4. /\ StreamHead \in Seq(Lines) /\ Len(StreamHead) = 2 /\ Parsed(StreamHead) = NoEvent
      /\ \A i \in 0 .. 2 : Parsed(SubSeq(StreamHead, 1, i)) = NoEvent
  BY HeadIsRead
<1>5. Len(lines) \in Nat /\ Len(before) = 2 + Len(lines) /\ Len(before) \in Nat
  <2>1. lines \in Seq(Lines) /\ StreamHead \in Seq(Lines) /\ Len(StreamHead) = 2
    BY <1>1, <1>4
  <2> HIDE DEF lines
  <2>2. Len(StreamHead \o lines) = Len(StreamHead) + Len(lines)
    BY <2>1, ConcatProperties
  <2>3. Len(lines) \in Nat
    BY <2>1
  <2> QED
    BY <2>1, <2>2, <2>3
<1>6. n \in Nat /\ n < Len(before) + 3 /\ (n <= Len(page) - 2 <=> n <= Len(before) + 1)
  BY <1>1, <1>5
<1>7. ASSUME NEW k \in 0 .. Len(groups), Going(Parsed(start), groups, event, k)
      PROVE  ReadsAs(Parsed(start), S(k))
  <2> HIDE DEF groups, start
  <2> QED
    BY <1>2, <1>7, GoingReads
<1>8. start \in Seq(Lines)
  <2>1. \A i \in 1 .. n : page[i] \in Lines
    BY <1>1, <1>6
  <2>2. 1 \in Int /\ n \in Int
    BY <1>6
  <2> HIDE DEF page
  <2> QED
    BY <2>1, <2>2, SubSeqProperties
<1> HIDE DEF lines, groups, block, page
<1>9. CASE n <= 2
  <2>1. SubSeq(StreamHead \o lines, 1, n) = SubSeq(StreamHead, 1, n)
    <3>1. n <= Len(StreamHead) + Len(lines) /\ n <= Len(StreamHead)
      BY <1>4, <1>5, <1>6, <1>9
    <3> QED
      BY <1>1, <1>4, <1>6, <3>1, StartsSplit
  <2>2. SubSeq(before \o block, 1, n) = SubSeq(before, 1, n)
    <3>1. n <= Len(before) + Len(block) /\ n <= Len(before)
      BY <1>1, <1>5, <1>6, <1>9
    <3> HIDE DEF before
    <3> QED
      BY <1>1, <1>6, <3>1, StartsSplit
  <2>3. start = SubSeq(StreamHead, 1, n)
    BY <1>1, <2>1, <2>2
  <2>4. Parsed(start) = Read(<<>>, "unnamed", NoDatum)
    <3>1. n \in 0 .. 2
      BY ONLY <1>6, <1>9
    <3>2. Parsed(SubSeq(StreamHead, 1, n)) = NoEvent
      BY <1>4, <3>1
    <3> HIDE DEF start
    <3> QED
      BY <2>3, <3>2, NothingRead
  <2>5. S(0) = <<>> /\ 0 \in 0 .. Len(groups)
    BY <1>2, GroupsNone
  <2>6. Going(Parsed(start), groups, event, 0)
    BY <2>4, <2>5 DEF Going
  <2> HIDE DEF start
  <2> QED
    BY <1>7, <1>8, <2>5, <2>6 DEF start, groups, page
<1>10. CASE n > 2 /\ n <= Len(before)
  <2> DEFINE j == n - 2
  <2>0. j \in 0 .. Len(lines)
    BY <1>5, <1>6, <1>10
  <2>1. SubSeq(StreamHead \o lines, 1, n) = StreamHead \o SubSeq(lines, 1, j)
    <3>1. n <= Len(StreamHead) + Len(lines) /\ ~(n <= Len(StreamHead)) /\ n - Len(StreamHead) = j
      BY <1>4, <1>5, <1>6, <1>10
    <3> HIDE DEF j
    <3> QED
      BY <1>1, <1>4, <1>6, <3>1, StartsSplit
  <2>2. SubSeq(before \o block, 1, n) = SubSeq(before, 1, n)
    <3>1. n <= Len(before) + Len(block) /\ n <= Len(before)
      BY <1>1, <1>5, <1>6, <1>10
    <3> HIDE DEF before
    <3> QED
      BY <1>1, <1>6, <3>1, StartsSplit
  <2>3. start = StreamHead \o SubSeq(lines, 1, j)
    BY <1>1, <2>1, <2>2
  <2> HIDE DEF j
  <2>4. PICK k \in 0 .. Len(groups) : Going(Parsed(start), groups, event, k)
    BY <1>1, <1>2, <1>4, <2>0, <2>3, GoingBefore
  <2> HIDE DEF start
  <2> QED
    BY <1>7, <1>8, <2>4 DEF start, groups, page
<1>11. CASE n > Len(before)
  <2> DEFINE j == n - Len(before)
             k == Len(groups)
             cursors == Cursors(run)
  <2>1. SubSeq(before \o block, 1, n) = before \o SubSeq(block, 1, j)
    <3>1. n <= Len(before) + Len(block) /\ ~(n <= Len(before))
      BY <1>1, <1>5, <1>6, <1>11
    <3> HIDE DEF before
    <3> QED
      BY <1>1, <1>6, <3>1, StartsSplit
  <2>2. start = before \o SubSeq(block, 1, j)
    BY <1>1, <2>1
  <2>3. j \in 0 .. Len(block) - 1 /\ (n <= Len(page) - 2 => j \in 0 .. Len(block) - 2)
    BY <1>1, <1>5, <1>6, <1>11
  <2> HIDE DEF j, start
  <2>4. /\ Parsed(start) \in {Read(S(k), "unnamed", NoDatum), Read(S(k), "metadata", NoDatum), Read(S(k), "metadata", cursors)}
        /\ n <= Len(page) - 2 => Parsed(start) \in {Read(S(k), "unnamed", NoDatum), Read(S(k), "metadata", NoDatum)}
    BY <1>1, <2>2, <2>3 DEF BlockStarts, block
  <2>5. ReadsAs(Parsed(start), S(k))
    BY <1>1, <1>3, <2>4 DEF ReadsAs
  <2>6. n <= Len(page) - 2 => Going(Parsed(start), groups, event, k)
    BY <1>3, <2>4 DEF Going
  <2> QED
    BY <1>2, <1>8, <2>5, <2>6 DEF start, groups, page
<1> QED
  BY <1>5, <1>6, <1>9, <1>10, <1>11

LEMMA ErrorsAreTold ==
  ASSUME NEW run, run.in \in ThreadInputs, run.cursor \in Nat, NEW event \in {"data", "unnamed"},
         NEW n \in 0 .. Len(GroupLines(run, event)), NEW is \in {"stated", "unstated"}
  PROVE  AnswerTold(run, is, SubSeq(GroupLines(run, event), 1, n) \o EventLines("error", Datum(is, 0, 0)))
<1> DEFINE groups == TurnGroups(run)
           lines == GroupLines(run, event)
           start == SubSeq(lines, 1, n)
           all == start \o EventLines("error", Datum(is, 0, 0))
<1>1. lines = FlattenSeq(Blocks(groups, event, Len(groups))) /\ lines \in Seq(Lines)
  BY PageIs
<1>2. groups \in Seq(Nat) /\ 0 \in Nat
  BY TurnsAre
<1>3. <<>> \in Seq(Lines) /\ Parsed(<<>>) = NoEvent
  BY ParsedNone
<1>4. start \in Seq(Lines)
  <2>1. \A i \in 1 .. n : lines[i] \in Lines
    BY <1>1
  <2>2. 1 \in Int /\ n \in Int
    BY <1>1
  <2> HIDE DEF lines
  <2> QED
    BY <2>1, <2>2, SubSeqProperties
<1> HIDE DEF groups, lines
<1>5. PICK k \in 0 .. Len(groups) : Going(Parsed(<<>> \o start), groups, event, k)
  <2>1. n \in 0 .. Len(FlattenSeq(Blocks(groups, event, Len(groups))))
    BY <1>1 DEF lines
  <2> QED
    BY <1>1, <1>2, <1>3, <2>1, GoingBefore
<1>6. <<>> \o start = start
  <2> HIDE DEF start
  <2> QED
    BY <1>4
<1> HIDE DEF start
<1>7. Going(Parsed(start), groups, event, k)
  BY <1>5, <1>6
<1>8. PICK e \in EventNames, d \in DatumShapes : Parsed(start) = Read(GroupEvents(groups, event, k), e, d)
  <2>1. ReadsAs(Parsed(start), GroupEvents(groups, event, k))
    BY <1>2, <1>7, GoingReads
  <2> QED
    BY <2>1 DEF ReadsAs
<1>9. /\ is = "stated" => ParseSSEGroups(all) = ToldOf(GroupsTold(groups, k), 0, TRUE)
      /\ is = "unstated" => ParseSSEGroups(all) = ToldOf(GroupsTold(groups, k), 0, FALSE)
  <2>1. /\ start \in Seq(Lines) /\ Parsed(start) = Read(GroupEvents(groups, event, k), e, d)
        /\ groups \in Seq(Nat) /\ k \in 0 .. Len(groups)
    BY <1>2, <1>4, <1>8
  <2> HIDE DEF groups, start
  <2> QED
    BY ONLY <2>1, ErrorIsTold, event \in {"data", "unnamed"}, e \in EventNames, is \in {"stated", "unstated"} DEF all
<1> HIDE DEF all
<1> QED
  BY <1>2, <1>9 DEF AnswerTold, groups, all, start, lines

LEMMA CutsAreTold ==
  ASSUME NEW run, run.in \in ThreadInputs, run.cursor \in Nat, NEW event \in {"data", "unnamed"},
         NEW n \in 0 .. Len(PageLines(run, event)) - 1
  PROVE  /\ n <= Len(PageLines(run, event)) - 2 => AnswerTold(run, "cut", SubSeq(PageLines(run, event), 1, n))
         /\ AnswerTold(run, "cut", SubSeq(PageLines(run, event), 1, n) \o <<StreamLine("data", "unnamed", Broken)>>)
<1> DEFINE groups == TurnGroups(run)
           start == SubSeq(PageLines(run, event), 1, n)
           all == start \o <<StreamLine("data", "unnamed", Broken)>>
           early == n <= Len(PageLines(run, event)) - 2
<1>1. groups \in Seq(Nat) /\ 0 \in Nat
  BY TurnsAre
<1>2. start \in Seq(Lines)
  BY StartGoes
<1>3. PICK k \in 0 .. Len(groups) :
        /\ ReadsAs(Parsed(start), GroupEvents(groups, event, k))
        /\ early => Going(Parsed(start), groups, event, k)
  BY StartGoes
<1> HIDE DEF groups, start, early
<1>4. ASSUME early PROVE \E l \in 0 .. Len(groups) : ParseSSEGroups(start) = ToldOf(GroupsTold(groups, l), 0, FALSE)
  BY <1>1, <1>3, <1>4, GoingIsTold
<1>5. PICK e \in EventNames, d \in DatumShapes : Parsed(start) = Read(GroupEvents(groups, event, k), e, d)
  BY <1>3 DEF ReadsAs
<1>6. ParseSSEGroups(all) = ToldOf(GroupsTold(groups, k), 0, FALSE)
  BY <1>1, <1>2, <1>5, BrokenIsTold
<1> HIDE DEF all
<1>7. early => AnswerTold(run, "cut", start)
  BY <1>1, <1>4 DEF AnswerTold, groups
<1>8. AnswerTold(run, "cut", all)
  BY <1>1, <1>6 DEF AnswerTold, groups
<1> QED
  BY <1>7, <1>8 DEF early, start, all

\* The kinds of answers.
WholeAnswers(page) ==
  {[answer |-> "page", lines |-> page], [answer |-> "refused", lines |-> <<StreamLine("other", "unnamed", NoDatum)>>]}

CutAnswers(page) == {[answer |-> "cut", lines |-> SubSeq(page, 1, n)] : n \in 0 .. Len(page) - 2}

BrokenAnswers(page) ==
  {[answer |-> "cut", lines |-> SubSeq(page, 1, n) \o <<StreamLine("data", "unnamed", Datum("broken", 0, 0))>>] :
     n \in {k \in 1 .. Len(page) - 1 : page[k + 1].kind = "data"}}

ErrorAnswers(groups) ==
  {[answer |-> error, lines |-> SubSeq(groups, 1, n) \o EventLines("error", Datum(error, 0, 0))] :
     n \in {k \in 0 .. Len(groups) : k = 0 \/ groups[k].kind = "blank"}, error \in {"stated", "unstated"}}

LEMMA AnswersAreTold ==
  ASSUME NEW run, run.in \in ThreadInputs, run.cursor \in Nat, NEW event \in {"data", "unnamed"},
         NEW a \in Answers(run, event)
  PROVE  AnswerTold(run, a.answer, a.lines) /\ a.answer \in {"page", "refused", "cut", "stated", "unstated"}
<1> DEFINE page == PageLines(run, event)
           groups == GroupLines(run, event)
<1>0. Broken = Datum("broken", 0, 0) /\ Len(page) \in Nat /\ Len(groups) \in Nat
  <2>1. page \in Seq(Lines) /\ groups \in Seq(Lines)
    BY PageIs
  <2> HIDE DEF page, groups
  <2> QED
    BY <2>1 DEF Broken
<1>1. CASE a.answer = "page" /\ a.lines = page
  BY <1>1, PageIsTold
<1>2. CASE a.answer = "refused" /\ a.lines = <<StreamLine("other", "unnamed", NoDatum)>>
  BY <1>2, RefusedIsTold
<1>3. CASE \E n \in 0 .. Len(page) - 2 : a.answer = "cut" /\ a.lines = SubSeq(page, 1, n)
  <2>1. PICK n \in 0 .. Len(page) - 2 : a.answer = "cut" /\ a.lines = SubSeq(page, 1, n)
    BY <1>3
  <2>2. n \in 0 .. Len(page) - 1 /\ n <= Len(page) - 2
    BY <1>0
  <2>3. AnswerTold(run, "cut", SubSeq(page, 1, n))
    BY <2>2, CutsAreTold
  <2> QED
    BY <2>1, <2>3
<1> DEFINE rest == <<StreamLine("data", "unnamed", Broken)>>
<1>4. CASE \E n \in 1 .. Len(page) - 1 : a.answer = "cut" /\ a.lines = SubSeq(page, 1, n) \o rest
  <2>1. PICK n \in 1 .. Len(page) - 1 : a.answer = "cut" /\ a.lines = SubSeq(page, 1, n) \o rest
    BY <1>4
  <2>2. n \in 0 .. Len(page) - 1
    BY <1>0
  <2>3. AnswerTold(run, "cut", SubSeq(page, 1, n) \o rest)
    BY <2>2, CutsAreTold
  <2> QED
    BY <2>1, <2>3
<1>5. ASSUME NEW n \in 0 .. Len(groups), NEW is \in {"stated", "unstated"},
             a = [answer |-> is, lines |-> SubSeq(groups, 1, n) \o EventLines("error", Datum(is, 0, 0))]
      PROVE  AnswerTold(run, a.answer, a.lines) /\ a.answer \in {"page", "refused", "cut", "stated", "unstated"}
  <2> DEFINE lines == SubSeq(groups, 1, n) \o EventLines("error", Datum(is, 0, 0))
  <2>1. AnswerTold(run, is, lines)
    BY ErrorsAreTold
  <2> HIDE DEF lines
  <2>2. a = [answer |-> is, lines |-> lines]
    BY <1>5 DEF lines
  <2> QED
    BY <2>1, <2>2
<1>6. a \in WholeAnswers(page) \cup CutAnswers(page) \cup BrokenAnswers(page) \cup ErrorAnswers(groups)
  <2>1. Answers(run, event) = WholeAnswers(page) \cup CutAnswers(page) \cup BrokenAnswers(page) \cup ErrorAnswers(groups)
    BY DEF Answers, WholeAnswers, CutAnswers, BrokenAnswers, ErrorAnswers
  <2> QED
    BY <2>1
<1> HIDE DEF page, groups
<1>7. CASE a \in WholeAnswers(page)
  BY <1>1, <1>2, <1>7 DEF WholeAnswers
<1>8. CASE a \in CutAnswers(page)
  BY <1>3, <1>8 DEF CutAnswers
<1>9. CASE a \in BrokenAnswers(page)
  <2>1. rest = <<StreamLine("data", "unnamed", Datum("broken", 0, 0))>>
    BY DEF Broken
  <2>2. PICK n \in 1 .. Len(page) - 1 :
          a = [answer |-> "cut", lines |-> SubSeq(page, 1, n) \o <<StreamLine("data", "unnamed", Datum("broken", 0, 0))>>]
    BY <1>9 DEF BrokenAnswers
  <2> HIDE DEF rest
  <2>3. a = [answer |-> "cut", lines |-> SubSeq(page, 1, n) \o rest]
    BY <2>1, <2>2
  <2> QED
    BY <1>4, <2>3
<1>10. CASE a \in ErrorAnswers(groups)
  <2>1. PICK n \in 0 .. Len(groups), is \in {"stated", "unstated"} :
          a = [answer |-> is, lines |-> SubSeq(groups, 1, n) \o EventLines("error", Datum(is, 0, 0))]
    BY <1>10 DEF ErrorAnswers
  <2> QED
    BY <1>5, <2>1
<1> QED
  BY <1>6, <1>7, <1>8, <1>9, <1>10

\* The groups of a stretch of turns.
Stretch(a, b) == FlattenSeq(SubSeq(Thread, a, b))

LEMMA StretchIs ==
  ASSUME NEW a \in Nat \ {0}, NEW b \in Nat, b <= Len(Thread)
  PROVE  /\ Stretch(a, b) \in Seq(Nat) /\ Len(Stretch(a, b)) \in Nat /\ Len(Thread) \in Nat
         /\ SubSeq(Thread, a, b) \in Seq(Seq(Nat))
         /\ b < a => Stretch(a, b) = <<>>
<1>1. Thread \in Seq(Seq(Nat)) /\ a \in Int /\ b \in Int /\ Len(Thread) \in Nat
  BY ThreadAssumption
<1>2. \A i \in a .. b : Thread[i] \in Seq(Nat)
  BY <1>1
<1>3. SubSeq(Thread, a, b) \in Seq(Seq(Nat))
  BY <1>1, <1>2, SubSeqProperties
<1>4. Stretch(a, b) \in Seq(Nat)
  BY <1>3, FlattenType DEF Stretch
<1>5. ASSUME b < a PROVE Stretch(a, b) = <<>>
  <2>1. SubSeq(Thread, a, b) = <<>>
    BY <1>1, <1>5, SubSeqEmpty
  <2> QED
    BY <2>1, FlattenNone DEF Stretch
<1>6. Len(Stretch(a, b)) \in Nat
  BY <1>4
<1> QED
  BY <1>1, <1>3, <1>4, <1>5, <1>6

LEMMA StretchesJoin ==
  ASSUME NEW a \in Nat \ {0}, NEW b \in Nat, NEW c \in Nat, a <= b + 1, b <= c, c <= Len(Thread)
  PROVE  Stretch(a, c) = Stretch(a, b) \o Stretch(b + 1, c)
<1> DEFINE s == SubSeq(Thread, a, b)
           t == SubSeq(Thread, b + 1, c)
<1>1. b + 1 \in Nat \ {0} /\ b <= Len(Thread) /\ Thread \in Seq(Seq(Nat)) /\ Len(Thread) \in Nat
  BY ThreadAssumption
<1>2. s \in Seq(Seq(Nat)) /\ t \in Seq(Seq(Nat))
  BY <1>1, StretchIs
<1>3. s \o t = SubSeq(Thread, a, c)
  <2>1. a \in 1 .. Len(Thread) + 1 /\ b \in a - 1 .. Len(Thread) /\ c \in b .. Len(Thread)
    BY <1>1
  <2> QED
    BY <1>1, <2>1, ConcatAdjacentSubSeq
<1> HIDE DEF s, t
<1>4. FlattenSeq(s \o t) = FlattenSeq(s) \o FlattenSeq(t)
  BY <1>2, FlattenConcat
<1>5. Stretch(a, b) = FlattenSeq(s) /\ Stretch(b + 1, c) = FlattenSeq(t)
  BY DEF Stretch, s, t
<1> QED
  BY <1>3, <1>4, <1>5 DEF Stretch

LEMMA StretchesGrow ==
  ASSUME NEW a \in Nat \ {0}
  PROVE  \A i, j \in 1 .. Len(Stretch(a, Len(Thread))) : i < j => Stretch(a, Len(Thread))[i] < Stretch(a, Len(Thread))[j]
<1> DEFINE all == FlattenSeq(Thread)
           s == Stretch(a, Len(Thread))
<1>1. Thread \in Seq(Seq(Nat)) /\ Len(Thread) \in Nat
  BY ThreadAssumption
<1>2. \A i, j \in DOMAIN all : i < j => all[i] < all[j]
  BY ThreadAssumption
<1>3. all = Stretch(1, Len(Thread))
  <2>1. SubSeq(Thread, 1, Len(Thread)) = Thread
    BY <1>1, PrefixNone
  <2> QED
    BY <2>1 DEF Stretch
<1>4. CASE a <= Len(Thread) + 1
  <2> DEFINE b == a - 1
             p == Stretch(1, b)
  <2>1. b \in Nat /\ b <= Len(Thread) /\ 1 <= b + 1 /\ b + 1 = a /\ 1 \in Nat \ {0}
    BY <1>1, <1>4
  <2>2. p \in Seq(Nat)
    <3> HIDE DEF b
    <3> QED
      BY <2>1, StretchIs
  <2>3. s \in Seq(Nat)
    BY <1>1, StretchIs
  <2> HIDE DEF b
  <2>4. Stretch(1, Len(Thread)) = p \o Stretch(b + 1, Len(Thread))
    <3> DEFINE c == Len(Thread)
    <3>1. c \in Nat /\ b <= c /\ c <= Len(Thread) /\ 1 <= b + 1
      BY <1>1, <2>1
    <3> HIDE DEF c
    <3>2. Stretch(1, c) = Stretch(1, b) \o Stretch(b + 1, c)
      BY <2>1, <3>1, StretchesJoin
    <3> QED
      BY <3>2 DEF c
  <2>5. all = p \o s
    BY <1>3, <2>1, <2>4
  <2> HIDE DEF all, s, p
  <2>6. /\ all \in Seq(Nat) /\ Len(all) = Len(p) + Len(s) /\ Len(p) \in Nat /\ Len(s) \in Nat
        /\ \A i \in 1 .. Len(s) : all[Len(p) + i] = s[i]
    <3>1. /\ p \o s \in Seq(Nat) /\ Len(p \o s) = Len(p) + Len(s)
          /\ \A i \in 1 .. Len(s) : (p \o s)[Len(p) + i] = s[i]
      BY <2>2, <2>3, ConcatIs
    <3>2. Len(p) \in Nat /\ Len(s) \in Nat
      BY <2>2, <2>3
    <3> QED
      BY <2>5, <3>1, <3>2
  <2>7. \A i \in 1 .. Len(s) : all[Len(p) + i] = s[i] /\ Len(p) + i \in DOMAIN all
    <3> TAKE i \in 1 .. Len(s)
    <3>1. DOMAIN all = 1 .. Len(all)
      BY <2>6
    <3>2. Len(p) + i \in 1 .. Len(p) + Len(s)
      BY <2>6
    <3> QED
      BY <2>6, <3>1, <3>2
  <2>8. \A i, j \in 1 .. Len(s) : i < j => s[i] < s[j]
    <3> TAKE i, j \in 1 .. Len(s)
    <3> HAVE i < j
    <3>1. Len(p) + i < Len(p) + j
      BY <2>6
    <3> QED
      BY <1>2, <2>7, <3>1
  <2> QED
    BY <2>8 DEF s
<1>5. CASE ~(a <= Len(Thread) + 1)
  <2>1. Len(Thread) < a
    BY <1>1, <1>5
  <2>2. s = <<>>
    BY <1>1, <2>1, StretchIs
  <2> HIDE DEF s
  <2>3. 1 .. Len(s) = {}
    BY <2>2
  <2> QED
    BY <2>3 DEF s
<1> QED
  BY <1>4, <1>5

\* What a reader has been told of a stretch: its first groups.
Behind(from, turn) == Len(Stretch(from, turn - 1))

AllFrom(from) == Stretch(from, Len(Thread))

\* The groups of an answer are the next ones of those a reader wants.
LEMMA TurnIsNext ==
  ASSUME NEW run, run.in \in ThreadInputs, run.cursor \in Nat, NEW from \in Nat \ {0},
         from <= FirstTurn(run), FirstTurn(run) = from \/ FirstTurn(run) <= Len(Thread)
  PROVE  LET b == Behind(from, FirstTurn(run))
             groups == TurnGroups(run)
             wanted == AllFrom(from)
         IN  /\ b \in Nat /\ wanted \in Seq(Nat) /\ b + Len(groups) \in 0 .. Len(wanted)
             /\ \A i \in 1 .. Len(groups) : wanted[b + i] = groups[i]
             /\ NextTurn(run) > 0 => /\ from < NextTurn(run) /\ NextTurn(run) <= Len(Thread)
                                     /\ b + Len(groups) = Behind(from, NextTurn(run))
             /\ NextTurn(run) = 0 => b + Len(groups) = Len(wanted)
<1> DEFINE first == FirstTurn(run)
           last == LastTurn(run)
           next == NextTurn(run)
           len == Len(Thread)
           before == Stretch(from, first - 1)
           groups == TurnGroups(run)
           after == Stretch(last + 1, len)
           wanted == AllFrom(from)
<1>1. /\ first \in Nat \ {0} /\ last \in 0 .. len /\ len \in Nat /\ next \in Nat
      /\ first <= len => first <= last
      /\ ~(first <= len) => last = len
      /\ groups \in Seq(Nat) /\ groups = Stretch(first, last)
  BY TurnsAre DEF TurnGroups, Stretch
<1>2. next = IF last < len THEN last + 1 ELSE 0
  BY DEF NextTurn
<1>3. wanted \in Seq(Nat) /\ wanted = Stretch(from, len)
  BY <1>1, StretchIs DEF AllFrom
<1>4. CASE first <= len
  <2> DEFINE p == first - 1
             whole == Stretch(from, last)
  <2>1. p \in Nat /\ p <= last /\ from <= p + 1 /\ p <= len /\ p + 1 = first /\ last \in Nat /\ last <= len /\ from <= last + 1
    BY <1>1, <1>4
  <2>2. before = Stretch(from, p)
    OBVIOUS
  <2> HIDE DEF before, p, first, last, len, next, groups, wanted
  <2>3. whole = before \o groups
    <3>1. Stretch(from, last) = Stretch(from, p) \o Stretch(p + 1, last)
      BY <2>1, StretchesJoin DEF len
    <3> QED
      BY <1>1, <2>1, <2>2, <3>1
  <2>4. wanted = whole \o after
    <3>1. Stretch(from, len) = Stretch(from, last) \o Stretch(last + 1, len)
      <4>1. len \in Nat /\ last <= len /\ len <= Len(Thread)
        BY <1>1, <2>1 DEF len
      <4> QED
        BY <2>1, <4>1, StretchesJoin
    <3> QED
      BY <1>3, <3>1
  <2>5. before \in Seq(Nat) /\ whole \in Seq(Nat) /\ after \in Seq(Nat)
    <3>1. last + 1 \in Nat \ {0} /\ len <= Len(Thread)
      BY <1>1, <2>1 DEF len
    <3> QED
      BY <1>1, <2>1, <2>2, <3>1, StretchIs DEF len
  <2> HIDE DEF whole, after
  <2>6. /\ Len(whole) = Len(before) + Len(groups) /\ Len(wanted) = Len(whole) + Len(after)
        /\ \A i \in 1 .. Len(groups) : whole[Len(before) + i] = groups[i]
        /\ \A i \in 1 .. Len(whole) : wanted[i] = whole[i]
    BY <1>1, <2>3, <2>4, <2>5, ConcatIs
  <2>7. Len(before) \in Nat /\ Len(groups) \in Nat /\ Len(whole) \in Nat /\ Len(after) \in Nat
    BY <1>1, <2>5
  <2>8. \A i \in 1 .. Len(groups) : wanted[Len(before) + i] = groups[i]
    <3> TAKE i \in 1 .. Len(groups)
    <3>1. Len(before) + i \in 1 .. Len(whole)
      BY <2>6, <2>7
    <3> QED
      BY <2>6, <3>1
  <2>9. Len(before) + Len(groups) \in 0 .. Len(wanted)
    BY <2>6, <2>7
  <2>10. ASSUME next > 0
         PROVE  from < next /\ next <= len /\ Len(before) + Len(groups) = Behind(from, next)
    <3>1. next = last + 1 /\ last < len /\ next - 1 = last
      BY <1>1, <1>2, <2>10
    <3>2. Behind(from, next) = Len(whole)
      BY <3>1 DEF Behind, whole
    <3>3. from <= last
      BY <1>1, <1>4, <2>1
    <3> QED
      BY <1>1, <2>6, <3>1, <3>2, <3>3
  <2>11. ASSUME next = 0 PROVE Len(before) + Len(groups) = Len(wanted)
    <3>1. last = len
      BY <1>1, <1>2, <2>11
    <3>2. whole = wanted
      BY <1>3, <3>1 DEF whole
    <3> QED
      BY <2>6, <3>2
  <2>12. Behind(from, first) = Len(before)
    BY DEF Behind, before
  <2> QED
    BY <1>3, <2>7, <2>8, <2>9, <2>10, <2>11, <2>12 DEF first, next, len, groups, wanted
<1>5. CASE ~(first <= len)
  <2>1. first = from /\ last < first /\ next = 0 /\ len < from /\ first - 1 < from /\ first - 1 \in Nat /\ len <= Len(Thread) /\ last <= Len(Thread) /\ last \in Nat
    <3>1. first = from
      BY <1>5
    <3>2. last \in Nat /\ last <= len
      BY <1>1
    <3> HIDE DEF first, last, next, len
    <3>3. next = 0
      <4>1. last = len
        BY <1>1, <1>5
      <4> QED
        BY <1>2, <3>2, <4>1
    <3> QED
      BY <1>1, <1>5, <3>1, <3>2, <3>3 DEF len
  <2> HIDE DEF first, last, next, len, wanted
  <2>2. groups = <<>>
    BY <1>1, <2>1, StretchIs
  <2>3. wanted = <<>>
    BY <1>1, <1>3, <2>1, StretchIs
  <2>4. Behind(from, first) = 0
    <3>1. SubSeq(Thread, from, first - 1) = <<>>
      <4>1. from \in Int /\ first - 1 \in Int
        BY <2>1
      <4> QED
        BY <2>1, <4>1, SubSeqEmpty
    <3>2. Stretch(from, first - 1) = <<>>
      BY <3>1, FlattenNone DEF Stretch
    <3> QED
      BY <3>2 DEF Behind
  <2>5. Len(groups) = 0 /\ Len(wanted) = 0
    BY <2>2, <2>3
  <2> QED
    BY <1>3, <2>1, <2>2, <2>4, <2>5 DEF first, next, len, groups, wanted
<1> QED
  BY <1>4, <1>5

\* What is told grows by the groups of an answer.
LEMMA ToldGrows ==
  ASSUME NEW wanted \in Seq(Nat), NEW groups \in Seq(Nat), NEW b \in Nat, NEW k \in 0 .. Len(groups),
         b + Len(groups) \in 0 .. Len(wanted), \A i \in 1 .. Len(groups) : wanted[b + i] = groups[i]
  PROVE  /\ GroupsTold(wanted, b) \o GroupsTold(groups, k) = GroupsTold(wanted, b + k)
         /\ b + k \in 0 .. Len(wanted)
         /\ GroupsTold(wanted, b + k) \in Seq(DatumShapes)
<1> DEFINE s == GroupsTold(wanted, b)
           t == GroupsTold(groups, k)
           u == GroupsTold(wanted, b + k)
<1>1. k \in Nat /\ Len(wanted) \in Nat /\ Len(groups) \in Nat /\ b + k \in 0 .. Len(wanted) /\ b \in 0 .. Len(wanted)
  OBVIOUS
<1>2. ASSUME NEW i \in 1 .. Len(wanted) PROVE GroupDatum(wanted, i) \in DatumShapes
  <2>1. wanted[i] \in Nat
    OBVIOUS
  <2> QED
    BY <2>1, DataAre DEF GroupDatum
<1>3. ASSUME NEW i \in 1 .. k PROVE GroupDatum(groups, i) = GroupDatum(wanted, b + i) /\ b + i \in 1 .. Len(wanted)
  <2>1. wanted[b + i] = groups[i] /\ b + i \in 1 .. Len(wanted)
    BY <1>1
  <2> QED
    BY <2>1 DEF GroupDatum
<1>4. /\ s = [i \in 1 .. b |-> GroupDatum(wanted, i)] /\ t = [i \in 1 .. k |-> GroupDatum(groups, i)]
      /\ u = [i \in 1 .. b + k |-> GroupDatum(wanted, i)]
  BY DEF GroupsTold
<1>5. s \in Seq(DatumShapes) /\ Len(s) = b /\ \A i \in 1 .. b : s[i] = GroupDatum(wanted, i)
  <2>1. \A i \in 1 .. b : GroupDatum(wanted, i) \in DatumShapes
    BY <1>1, <1>2
  <2> QED
    BY <1>4, <2>1
<1>6. t \in Seq(DatumShapes) /\ Len(t) = k /\ \A i \in 1 .. k : t[i] = GroupDatum(wanted, b + i)
  <2>1. \A i \in 1 .. k : GroupDatum(groups, i) \in DatumShapes
    BY <1>1, <1>2, <1>3
  <2>2. t \in Seq(DatumShapes) /\ Len(t) = k /\ \A i \in 1 .. k : t[i] = GroupDatum(groups, i)
    BY <1>1, <1>4, <2>1
  <2> QED
    BY <1>3, <2>2
<1> DEFINE n == b + k
<1>7. u \in Seq(DatumShapes) /\ DOMAIN u = 1 .. n /\ (\A i \in 1 .. n : u[i] = GroupDatum(wanted, i)) /\ n \in Nat /\ Len(u) = n
  <2>1. n \in Nat
    BY <1>1
  <2>2. \A i \in 1 .. n : GroupDatum(wanted, i) \in DatumShapes
    BY <1>1, <1>2
  <2>3. u = [i \in 1 .. n |-> GroupDatum(wanted, i)]
    BY <1>4
  <2> HIDE DEF n, u
  <2>4. u \in Seq(DatumShapes)
    BY <2>1, <2>2, <2>3
  <2>5. DOMAIN u = 1 .. n /\ \A i \in 1 .. n : u[i] = GroupDatum(wanted, i)
    BY <2>3
  <2>6. Len(u) = n
    BY <2>1, <2>4, <2>5
  <2> QED
    BY <2>1, <2>4, <2>5, <2>6
<1> DEFINE v == s \o t
<1> HIDE DEF s, t, u
<1>8. /\ v \in Seq(DatumShapes) /\ Len(v) = b + k
      /\ \A i \in 1 .. b : v[i] = s[i]
      /\ \A i \in 1 .. k : v[b + i] = t[i]
  <2>1. /\ s \o t \in Seq(DatumShapes) /\ Len(s \o t) = Len(s) + Len(t)
        /\ \A i \in 1 .. Len(s) : (s \o t)[i] = s[i]
        /\ \A i \in 1 .. Len(t) : (s \o t)[Len(s) + i] = t[i]
    <3>1. s \in Seq(DatumShapes) /\ t \in Seq(DatumShapes)
      BY <1>5, <1>6
    <3> QED
      BY ONLY <3>1, ConcatIs
  <2>2. v = s \o t
    OBVIOUS
  <2> HIDE DEF v
  <2>3. /\ v \in Seq(DatumShapes) /\ Len(v) = Len(s) + Len(t)
        /\ \A i \in 1 .. Len(s) : v[i] = s[i]
        /\ \A i \in 1 .. Len(t) : v[Len(s) + i] = t[i]
    BY <2>1, <2>2
  <2> QED
    BY <1>5, <1>6, <2>3
<1> HIDE DEF v
<1>9. ASSUME NEW i \in 1 .. b + k PROVE v[i] = u[i]
  <2>0. i \in 1 .. n
    OBVIOUS
  <2> HIDE DEF n
  <2>1. CASE i <= b
    <3>1. i \in 1 .. b
      BY <2>1
    <3> QED
      BY <1>5, <1>7, <1>8, <2>0, <3>1
  <2>2. CASE ~(i <= b)
    <3> DEFINE j == i - b
    <3>1. j \in 1 .. k /\ b + j = i
      BY <1>1, <2>2
    <3> HIDE DEF j
    <3>2. v[b + j] = t[j] /\ t[j] = GroupDatum(wanted, b + j)
      BY <1>6, <1>8, <3>1
    <3> QED
      BY <1>7, <2>0, <3>1, <3>2
  <2> QED
    BY <2>1, <2>2
<1>10. v = u
  <2>1. Len(v) = n /\ \A i \in 1 .. n : v[i] = u[i]
    BY <1>8, <1>9
  <2> HIDE DEF n
  <2>2. DOMAIN v = 1 .. n
    BY <1>7, <1>8, <2>1
  <2>3. v = [i \in DOMAIN v |-> v[i]] /\ u = [i \in DOMAIN u |-> u[i]]
    BY <1>7, <1>8
  <2> QED
    BY <1>7, <2>1, <2>2, <2>3
<1> QED
  BY <1>1, <1>7, <1>10 DEF s, t, u, v

\* The state keeps its shape, for every value of the constants.
ThreadShape ==
  /\ threadRun \in [pc : {"idle", "request", "print", "failed"}, in : ThreadInputs \cup {NoThreadRun.in}, cursor : Nat,
                    answer : {"none", "page", "refused", "cut", "stated", "unstated"}]
  /\ threadTold \in [calls : Nat, groups : Seq(DatumShapes), resume : Nat,
                     answers : SUBSET {"page", "refused", "cut", "unstated"}, from : Nat \ {0}]

\* A reader has been told the first groups of the wanted ones: all before the
\* cursor, if there is one, and before the turn a running command asks for.
ReaderIsTold ==
  LET wanted == AllFrom(threadTold.from)
      shown == threadTold.groups
  IN  /\ \E k \in 0 .. Len(wanted) : shown = GroupsTold(wanted, k)
      /\ threadTold.calls = 0 => shown = <<>> /\ threadTold.resume = 0 /\ threadTold.answers = {}
      /\ threadTold.resume > 0 =>
           /\ threadTold.from < threadTold.resume /\ threadTold.resume <= Len(Thread)
           /\ shown = GroupsTold(wanted, Behind(threadTold.from, threadTold.resume))
      /\ threadTold.answers = {"page"} /\ threadTold.resume = 0 => shown = GroupsTold(wanted, Len(wanted))

RunIsNext ==
  threadRun.pc \in {"request", "print"} =>
    /\ threadRun.in \in ThreadInputs /\ threadRun.cursor = threadTold.resume /\ threadTold.calls > 0
    /\ threadTold.from <= FirstTurn(threadRun)
    /\ FirstTurn(threadRun) = threadTold.from \/ FirstTurn(threadRun) <= Len(Thread)
    /\ threadTold.groups = GroupsTold(AllFrom(threadTold.from), Behind(threadTold.from, FirstTurn(threadRun)))
    /\ threadTold.resume = 0 => threadTold.answers = {}

ThreadInv ==
  /\ ThreadShape /\ ReaderIsTold /\ RunIsNext
  /\ threadRun.pc = "print" =>
       /\ AnswerTold(threadRun, threadRun.answer, stream)
       /\ threadRun.answer \in {"page", "refused", "cut", "stated", "unstated"}

LEMMA ThreadStarts == ThreadInit => ThreadInv
<1> SUFFICES ASSUME ThreadInit PROVE ThreadInv
  OBVIOUS
<1>1. /\ threadRun = NoThreadRun
      /\ threadTold = [calls |-> 0, groups |-> <<>>, resume |-> 0, answers |-> {}, from |-> 1]
  BY DEF ThreadInit
<1>2. 0 \in Nat /\ 1 \in Nat \ {0} /\ <<>> \in Seq(DatumShapes)
  OBVIOUS
<1>3. ThreadShape
  BY <1>1, <1>2 DEF ThreadShape, NoThreadRun
<1>4. ReaderIsTold
  <2> DEFINE wanted == AllFrom(1)
  <2>1. GroupsTold(wanted, 0) = <<>>
    <3>1. 1 .. 0 = {}
      OBVIOUS
    <3> QED
      BY <3>1 DEF GroupsTold
  <2>2. wanted \in Seq(Nat)
    <3>1. Len(Thread) \in Nat /\ Len(Thread) <= Len(Thread)
      BY ThreadAssumption
    <3> QED
      BY <1>2, <3>1, StretchIs DEF AllFrom
  <2>3. 0 \in 0 .. Len(wanted)
    BY <2>2
  <2>4. threadTold.from = 1 /\ threadTold.groups = <<>> /\ threadTold.resume = 0 /\ threadTold.answers = {}
    BY <1>1
  <2> HIDE DEF wanted
  <2>5. \E k \in 0 .. Len(wanted) : threadTold.groups = GroupsTold(wanted, k)
    BY <2>1, <2>3, <2>4
  <2>6. ~(threadTold.answers = {"page"}) /\ ~(threadTold.resume > 0)
    BY <2>4
  <2> QED
    BY <2>4, <2>5, <2>6 DEF ReaderIsTold, wanted
<1>5. threadRun.pc = "idle"
  BY <1>1 DEF NoThreadRun
<1> QED
  BY <1>3, <1>4, <1>5 DEF ThreadInv, RunIsNext

\* A command starts where the last one ended.
LEMMA StartsNext ==
  ASSUME ThreadInv, NEW in \in ThreadInputs, StartThread(in)
  PROVE  ThreadInv'
<1> DEFINE run == threadRun'
           first == FirstTurn(run)
<1>1. /\ threadRun.pc = "idle" /\ (threadTold.calls > 0 => threadTold.resume > 0)
      /\ run = [NoThreadRun EXCEPT !.pc = "request", !.in = in, !.cursor = threadTold.resume]
      /\ threadTold' = [threadTold EXCEPT !.calls = @ + 1, !.from = IF threadTold.calls = 0 THEN first ELSE @]
  BY DEF StartThread
<1>2. ThreadShape /\ ReaderIsTold
  BY DEF ThreadInv
<1>3. run.pc = "request" /\ run.in = in /\ run.cursor = threadTold.resume /\ threadTold.resume \in Nat
  BY <1>1, <1>2 DEF NoThreadRun, ThreadShape
<1>4. first \in Nat \ {0}
  BY <1>3, TurnsAre
<1> HIDE DEF first
<1>5. /\ threadTold'.calls = threadTold.calls + 1 /\ threadTold.calls \in Nat
      /\ threadTold'.from = IF threadTold.calls = 0 THEN first ELSE threadTold.from
      /\ threadTold'.groups = threadTold.groups /\ threadTold'.resume = threadTold.resume
      /\ threadTold'.answers = threadTold.answers /\ threadTold.from \in Nat \ {0}
  BY <1>1, <1>2 DEF ThreadShape
<1>6. ThreadShape'
  <2>1. threadTold' \in [calls : Nat, groups : Seq(DatumShapes), resume : Nat,
                          answers : SUBSET {"page", "refused", "cut", "unstated"}, from : Nat \ {0}]
    <3> DEFINE n == threadTold.calls + 1
               f == IF threadTold.calls = 0 THEN first ELSE threadTold.from
    <3>1. threadTold' = [threadTold EXCEPT !.calls = n, !.from = f]
      BY <1>1
    <3>2. n \in Nat /\ f \in Nat \ {0}
      BY <1>4, <1>5
    <3> HIDE DEF n, f
    <3> QED
      BY <1>2, <3>1, <3>2 DEF ThreadShape
  <2>2. run \in [pc : {"idle", "request", "print", "failed"}, in : ThreadInputs \cup {NoThreadRun.in}, cursor : Nat,
                  answer : {"none", "page", "refused", "cut", "stated", "unstated"}]
    BY <1>1, <1>3 DEF NoThreadRun
  <2> QED
    BY <2>1, <2>2 DEF ThreadShape
<1> DEFINE from == threadTold'.from
           wanted == AllFrom(from)
<1>7. CASE threadTold.calls = 0
  <2>1. threadTold.groups = <<>> /\ threadTold.resume = 0 /\ threadTold.answers = {}
    BY <1>2, <1>7 DEF ReaderIsTold
  <2>2. from = first /\ wanted \in Seq(Nat)
    <3>1. from = first
      BY <1>5, <1>7
    <3>2. Len(Thread) \in Nat /\ Len(Thread) <= Len(Thread)
      BY ThreadAssumption
    <3> HIDE DEF from
    <3> QED
      BY <1>4, <3>1, <3>2, StretchIs DEF AllFrom
  <2>3. Behind(first, first) = 0
    <3>1. first \in Int /\ first - 1 \in Int /\ first - 1 < first
      BY <1>4
    <3>2. SubSeq(Thread, first, first - 1) = <<>>
      BY <3>1, SubSeqEmpty
    <3>3. Stretch(first, first - 1) = <<>>
      BY <3>2, FlattenNone DEF Stretch
    <3> QED
      BY <3>3 DEF Behind
  <2> HIDE DEF from, wanted
  <2>4. GroupsTold(wanted, 0) = <<>> /\ 0 \in 0 .. Len(wanted)
    <3>1. 1 .. 0 = {}
      OBVIOUS
    <3> QED
      BY <2>2, <3>1 DEF GroupsTold
  <2>5. \E k \in 0 .. Len(wanted) : threadTold'.groups = GroupsTold(wanted, k)
    BY <1>5, <2>1, <2>4
  <2>6. ~(threadTold'.answers = {"page"}) /\ ~(threadTold'.resume > 0) /\ threadTold'.calls > 0 /\ ~(threadTold'.calls = 0)
    BY <1>5, <2>1
  <2>7. ReaderIsTold'
    BY <2>5, <2>6 DEF ReaderIsTold, wanted, from
  <2>8. threadTold'.groups = GroupsTold(AllFrom(from), Behind(from, first))
    BY <1>5, <2>1, <2>2, <2>3, <2>4 DEF wanted
  <2>9. from <= first /\ first = from
    BY <1>4, <2>2
  <2>10. RunIsNext'
    BY <1>3, <1>5, <2>1, <2>6, <2>8, <2>9 DEF RunIsNext, from, first
  <2> QED
    BY <1>3, <1>6, <2>7, <2>10 DEF ThreadInv
<1>8. CASE ~(threadTold.calls = 0)
  <2>1. threadTold.resume > 0 /\ threadTold.calls > 0
    BY <1>1, <1>5, <1>8
  <2>2. from = threadTold.from /\ wanted = AllFrom(threadTold.from)
    BY <1>5, <1>8
  <2>3. first = threadTold.resume
    BY <1>3, <2>1 DEF FirstTurn, first
  <2>4. ReaderIsTold'
    <3>1. ~(threadTold'.calls = 0)
      BY <1>5, <2>1
    <3> QED
      BY <1>2, <1>5, <2>2, <3>1 DEF ReaderIsTold
  <2>5. /\ from < first /\ first <= Len(Thread)
        /\ threadTold'.groups = GroupsTold(wanted, Behind(from, first))
    BY <1>2, <1>5, <2>1, <2>2, <2>3 DEF ReaderIsTold
  <2>6. from <= first
    BY <1>4, <1>5, <2>2, <2>5
  <2>7. threadTold'.calls > 0 /\ ~(threadTold'.resume = 0)
    BY <1>3, <1>5, <2>1
  <2>8. RunIsNext'
    BY <1>3, <1>5, <2>5, <2>6, <2>7 DEF RunIsNext, first
  <2> QED
    BY <1>3, <1>6, <2>4, <2>8 DEF ThreadInv
<1> QED
  BY <1>7, <1>8

\* What is printed are the next groups, and the cursor after them.
LEMMA PrintsNext ==
  ASSUME ThreadInv, PrintThread
  PROVE  ThreadInv'
<1> DEFINE run == threadRun
           parsed == ParseSSEGroups(stream)
           from == threadTold.from
           wanted == AllFrom(from)
           first == FirstTurn(run)
           b == Behind(from, first)
           groups == TurnGroups(run)
<1>1. /\ ThreadShape /\ ReaderIsTold /\ RunIsNext
      /\ run.pc = "print" /\ AnswerTold(run, run.answer, stream)
      /\ run.answer \in {"page", "refused", "cut", "stated", "unstated"}
  BY DEF ThreadInv, PrintThread
<1>2. /\ run.in \in ThreadInputs /\ run.cursor = threadTold.resume /\ threadTold.calls > 0 /\ threadTold.calls \in Nat
      /\ from <= first /\ (first = from \/ first <= Len(Thread)) /\ from \in Nat \ {0} /\ run.cursor \in Nat
      /\ threadTold.groups = GroupsTold(wanted, b)
      /\ threadTold.answers \in SUBSET {"page", "refused", "cut", "unstated"}
  BY <1>1 DEF RunIsNext, ThreadShape
<1>3. PICK k \in 0 .. Len(groups), next \in Nat, failed \in BOOLEAN :
        /\ parsed = ToldOf(GroupsTold(groups, k), next, failed)
        /\ run.answer = "stated" => failed
        /\ run.answer = "page" => k = Len(groups) /\ next = NextTurn(run)
        /\ run.answer # "page" => next = 0
  BY <1>1 DEF AnswerTold
<1>4. parsed.groups = GroupsTold(groups, k) /\ parsed.next = next /\ parsed.failed = failed
  BY <1>3 DEF ToldOf
<1> HIDE DEF parsed
<1>5. CASE failed
  <2>1. threadRun' = [threadRun EXCEPT !.pc = "failed"] /\ UNCHANGED threadTold
    BY <1>4, <1>5 DEF PrintThread, parsed
  <2>2. ThreadShape' /\ threadRun'.pc = "failed"
    BY <1>1, <2>1 DEF ThreadShape
  <2>3. ReaderIsTold'
    BY <1>1, <2>1 DEF ReaderIsTold
  <2> QED
    BY <2>2, <2>3 DEF ThreadInv, RunIsNext
<1>6. CASE ~failed
  <2>1. /\ threadRun' = NoThreadRun
        /\ threadTold' = [threadTold EXCEPT !.groups = @ \o GroupsTold(groups, k), !.resume = next, !.answers = @ \cup {run.answer}]
    BY <1>4, <1>6 DEF PrintThread, parsed
  <2>2. run.answer \in {"page", "refused", "cut", "unstated"}
    BY <1>1, <1>3, <1>6
  <2>3. /\ b \in Nat /\ wanted \in Seq(Nat) /\ b + Len(groups) \in 0 .. Len(wanted) /\ groups \in Seq(Nat)
        /\ \A i \in 1 .. Len(groups) : wanted[b + i] = groups[i]
        /\ NextTurn(run) > 0 => /\ from < NextTurn(run) /\ NextTurn(run) <= Len(Thread)
                                /\ b + Len(groups) = Behind(from, NextTurn(run))
        /\ NextTurn(run) = 0 => b + Len(groups) = Len(wanted)
    BY <1>2, TurnIsNext, TurnsAre
  <2> HIDE DEF b, wanted, groups, first
  <2>4. /\ GroupsTold(wanted, b) \o GroupsTold(groups, k) = GroupsTold(wanted, b + k)
        /\ b + k \in 0 .. Len(wanted)
        /\ GroupsTold(wanted, b + k) \in Seq(DatumShapes)
    BY <2>3, ToldGrows
  <2> DEFINE shown == GroupsTold(wanted, b + k)
             answers == threadTold.answers \cup {run.answer}
  <2>5. threadTold' = [threadTold EXCEPT !.groups = shown, !.resume = next, !.answers = answers]
    BY <1>2, <2>1, <2>4
  <2>6. shown \in Seq(DatumShapes) /\ answers \in SUBSET {"page", "refused", "cut", "unstated"} /\ answers # {}
    BY <1>2, <2>2, <2>4
  <2>7. answers = {"page"} => run.answer = "page"
    OBVIOUS
  <2> HIDE DEF shown, answers, from
  <2>8. /\ threadTold'.groups = shown /\ threadTold'.resume = next /\ threadTold'.answers = answers
        /\ threadTold'.from = from /\ threadTold'.calls = threadTold.calls
    BY <1>1, <2>5 DEF ThreadShape, from
  <2>9. ThreadShape'
    <3>1. threadTold' \in [calls : Nat, groups : Seq(DatumShapes), resume : Nat,
                            answers : SUBSET {"page", "refused", "cut", "unstated"}, from : Nat \ {0}]
      BY <1>1, <2>5, <2>6 DEF ThreadShape
    <3>2. threadRun' \in [pc : {"idle", "request", "print", "failed"}, in : ThreadInputs \cup {NoThreadRun.in}, cursor : Nat,
                          answer : {"none", "page", "refused", "cut", "stated", "unstated"}]
      BY <2>1 DEF NoThreadRun
    <3> QED
      BY <3>1, <3>2 DEF ThreadShape
  <2>10. \E j \in 0 .. Len(wanted) : shown = GroupsTold(wanted, j)
    BY <2>4 DEF shown
  <2>11. ASSUME next > 0 PROVE from < next /\ next <= Len(Thread) /\ shown = GroupsTold(wanted, Behind(from, next))
    <3>1. run.answer = "page" /\ next = NextTurn(run) /\ k = Len(groups)
      BY <1>3, <2>11
    <3> QED
      BY <2>3, <2>11, <3>1 DEF shown
  <2>12. ASSUME answers = {"page"}, next = 0 PROVE shown = GroupsTold(wanted, Len(wanted))
    <3>1. NextTurn(run) = 0 /\ k = Len(groups)
      BY <1>3, <2>7, <2>12
    <3> QED
      BY <2>3, <3>1 DEF shown
  <2>13. wanted = AllFrom(threadTold'.from) /\ ~(threadTold'.calls = 0)
    BY <1>2, <2>8 DEF wanted
  <2>14. ReaderIsTold'
    BY <2>8, <2>10, <2>11, <2>12, <2>13 DEF ReaderIsTold
  <2>15. threadRun'.pc = "idle"
    BY <2>1 DEF NoThreadRun
  <2> QED
    BY <2>9, <2>14, <2>15 DEF ThreadInv, RunIsNext
<1> QED
  BY <1>5, <1>6

LEMMA ThreadSteps ==
  ASSUME ThreadInv, [ThreadNext]_threadVars
  PROVE  ThreadInv'
<1>1. ASSUME NEW in \in ThreadInputs, StartThread(in) PROVE ThreadInv'
  BY <1>1, StartsNext
<1>2. ASSUME FailThread PROVE ThreadInv'
  <2>1. threadRun' = [threadRun EXCEPT !.pc = "failed"] /\ UNCHANGED threadTold
    BY <1>2 DEF FailThread
  <2>2. ThreadShape' /\ threadRun'.pc = "failed"
    BY <2>1 DEF ThreadInv, ThreadShape
  <2>3. ReaderIsTold'
    BY <2>1 DEF ThreadInv, ReaderIsTold
  <2> QED
    BY <2>2, <2>3 DEF ThreadInv, RunIsNext
<1>3. ASSUME AnswerThread PROVE ThreadInv'
  <2>1. PICK answer \in Answers(threadRun, "data") \cup Answers(threadRun, "unnamed") :
          /\ stream' = answer.lines
          /\ threadRun' = [threadRun EXCEPT !.pc = "print", !.answer = answer.answer]
    BY <1>3 DEF AnswerThread
  <2>2. /\ threadRun.pc = "request" /\ UNCHANGED threadTold
        /\ ThreadShape /\ ReaderIsTold /\ RunIsNext
    BY <1>3 DEF AnswerThread, ThreadInv
  <2>3. threadRun.in \in ThreadInputs /\ threadRun.cursor \in Nat
    BY <2>2 DEF RunIsNext, ThreadShape
  <2>4. AnswerTold(threadRun, answer.answer, answer.lines) /\ answer.answer \in {"page", "refused", "cut", "stated", "unstated"}
    <3>1. CASE answer \in Answers(threadRun, "data")
      <4>1. "data" \in {"data", "unnamed"}
        OBVIOUS
      <4> QED
        BY <2>3, <3>1, <4>1, AnswersAreTold
    <3>2. CASE answer \in Answers(threadRun, "unnamed")
      <4>1. "unnamed" \in {"data", "unnamed"}
        OBVIOUS
      <4> QED
        BY <2>3, <3>2, <4>1, AnswersAreTold
    <3> QED
      BY <3>1, <3>2
  <2>5. /\ threadRun'.pc = "print" /\ threadRun'.in = threadRun.in /\ threadRun'.cursor = threadRun.cursor
        /\ threadRun'.answer = answer.answer
    BY <2>1, <2>2 DEF ThreadShape
  <2>6. ThreadShape'
    BY <2>1, <2>2, <2>4 DEF ThreadShape
  <2>7. ReaderIsTold'
    BY <2>2 DEF ReaderIsTold
  <2>8. FirstTurn(threadRun') = FirstTurn(threadRun)
    BY <2>5 DEF FirstTurn
  <2>9. LastTurn(threadRun') = LastTurn(threadRun)
    BY <2>5, <2>8 DEF LastTurn
  <2>10. RunIsNext'
    BY <2>2, <2>5, <2>8 DEF RunIsNext
  <2>11. TurnGroups(threadRun') = TurnGroups(threadRun) /\ NextTurn(threadRun') = NextTurn(threadRun)
    BY <2>8, <2>9 DEF TurnGroups, NextTurn
  <2>12. AnswerTold(threadRun', answer.answer, answer.lines)
    BY <2>4, <2>11 DEF AnswerTold
  <2>13. AnswerTold(threadRun', threadRun'.answer, stream')
    BY <2>1, <2>5, <2>12
  <2>14. AnswerTold(threadRun, threadRun.answer, stream)'
    BY <2>13
  <2> QED
    BY <2>4, <2>5, <2>6, <2>7, <2>10, <2>14 DEF ThreadInv
<1>4. ASSUME PrintThread PROVE ThreadInv'
  BY <1>4, PrintsNext
<1>5. ASSUME UNCHANGED threadVars PROVE ThreadInv'
  <2>1. threadRun' = threadRun /\ stream' = stream /\ threadTold' = threadTold
    BY <1>5 DEF threadVars
  <2>2. ThreadShape' /\ ReaderIsTold' /\ RunIsNext'
    BY <2>1 DEF ThreadInv, ThreadShape, ReaderIsTold, RunIsNext
  <2>3. threadRun.pc = "print" => AnswerTold(threadRun, threadRun.answer, stream)'
    BY <2>1 DEF ThreadInv
  <2> QED
    BY <2>1, <2>2, <2>3 DEF ThreadInv
<1> QED
  BY <1>1, <1>2, <1>3, <1>4, <1>5 DEF ThreadNext

LEMMA ThreadHolds == ThreadInv => ThreadIsTold
<1> SUFFICES ASSUME ThreadInv PROVE ThreadIsTold
  OBVIOUS
<1> DEFINE groups == threadTold.groups
           wanted == AllFrom(threadTold.from)
           numbers == [i \in DOMAIN groups |-> groups[i].n]
<1>1. threadTold.from \in Nat \ {0} /\ threadTold.answers \in SUBSET {"page", "refused", "cut", "unstated"}
  BY DEF ThreadInv, ThreadShape
<1>2. PICK k \in 0 .. Len(wanted) : groups = GroupsTold(wanted, k)
  BY DEF ThreadInv, ReaderIsTold
<1>3. /\ wanted \in Seq(Nat) /\ wanted = FlattenSeq(SubSeq(Thread, threadTold.from, Len(Thread)))
      /\ \A i, j \in 1 .. Len(wanted) : i < j => wanted[i] < wanted[j]
  <2>1. Len(Thread) \in Nat /\ Len(Thread) <= Len(Thread)
    BY ThreadAssumption
  <2>2. wanted \in Seq(Nat)
    BY <1>1, <2>1, StretchIs DEF AllFrom
  <2>3. \A i, j \in 1 .. Len(wanted) : i < j => wanted[i] < wanted[j]
    BY <1>1, StretchesGrow DEF AllFrom
  <2> QED
    BY <2>2, <2>3 DEF AllFrom, Stretch
<1>4. threadTold.answers = {"page"} /\ threadTold.resume = 0 => groups = GroupsTold(wanted, Len(wanted))
  BY DEF ThreadInv, ReaderIsTold
<1> HIDE DEF wanted
<1>5. ASSUME NEW m \in 0 .. Len(wanted)
      PROVE  /\ GroupsTold(wanted, m) \in Seq(DatumShapes) /\ Len(GroupsTold(wanted, m)) = m
             /\ \A i \in 1 .. m : GroupsTold(wanted, m)[i].n = wanted[i] /\ GroupsTold(wanted, m)[i].is = "group"
  <2>1. m \in Nat /\ \A i \in 1 .. m : wanted[i] \in Nat
    BY <1>3
  <2>2. \A i \in 1 .. m : GroupDatum(wanted, i) \in DatumShapes
    BY <2>1, DataAre DEF GroupDatum
  <2>3. /\ GroupsTold(wanted, m) = [i \in 1 .. m |-> GroupDatum(wanted, i)]
    BY DEF GroupsTold
  <2>4. GroupsTold(wanted, m) \in Seq(DatumShapes) /\ Len(GroupsTold(wanted, m)) = m
    BY <2>1, <2>2, <2>3
  <2>5. \A i \in 1 .. m : GroupsTold(wanted, m)[i] = GroupDatum(wanted, i)
    BY <2>3
  <2> QED
    BY <2>4, <2>5 DEF GroupDatum, Datum
<1>6. /\ groups \in Seq(DatumShapes) /\ Len(groups) = k /\ k \in Nat /\ k <= Len(wanted) /\ Len(wanted) \in Nat
      /\ \A i \in 1 .. k : groups[i].n = wanted[i] /\ groups[i].is = "group"
  <2>1. k \in Nat /\ k <= Len(wanted) /\ Len(wanted) \in Nat
    BY <1>3
  <2> QED
    BY <1>2, <1>5, <2>1
<1>7. DOMAIN groups = 1 .. k
  BY <1>6
<1> HIDE DEF groups
<1>8. \A i \in DOMAIN groups : groups[i].is = "group" /\ (i > 1 => groups[i - 1].n < groups[i].n)
  <2> TAKE i \in DOMAIN groups
  <2>1. groups[i].is = "group" /\ groups[i].n = wanted[i]
    BY <1>6, <1>7
  <2>2. ASSUME i > 1 PROVE groups[i - 1].n < groups[i].n
    <3> DEFINE j == i - 1
    <3>1. j \in 1 .. k /\ i \in 1 .. Len(wanted) /\ j \in 1 .. Len(wanted) /\ j < i
      BY <1>6, <1>7, <2>2
    <3> HIDE DEF j
    <3>2. groups[j].n = wanted[j] /\ wanted[j] < wanted[i]
      BY <1>3, <1>6, <3>1
    <3> QED
      BY <2>1, <3>2 DEF j
  <2> QED
    BY <2>1, <2>2
<1>9. IsPrefix(numbers, wanted)
  <2>1. numbers = [i \in 1 .. k |-> wanted[i]]
    BY <1>6, <1>7
  <2>2. numbers \in Seq(Nat) /\ Len(numbers) = k /\ \A i \in 1 .. k : numbers[i] = wanted[i]
    <3>1. \A i \in 1 .. k : wanted[i] \in Nat
      BY <1>3, <1>6
    <3> HIDE DEF numbers
    <3> QED
      BY <1>6, <2>1, <3>1
  <2> HIDE DEF numbers
  <2>3. SubSeq(numbers, 1, Len(numbers)) = numbers
    BY <2>2, PrefixNone
  <2>4. SubSeq(wanted, 1, k) = numbers
    <3>1. 1 \in Int /\ k \in Int /\ \A i \in 1 .. k : wanted[i] \in Nat
      BY <1>3, <1>6
    <3> DEFINE v == SubSeq(wanted, 1, k)
    <3>2. /\ v \in Seq(Nat) /\ Len(v) = (IF 1 <= k THEN k - 1 + 1 ELSE 0)
          /\ \A i \in 1 .. k - 1 + 1 : v[i] = wanted[1 + i - 1]
      BY <3>1, SubSeqProperties
    <3> HIDE DEF v
    <3>3. Len(v) = k /\ \A i \in 1 .. k : v[i] = wanted[i]
      <4>1. k - 1 + 1 = k /\ \A i \in 1 .. k : 1 + i - 1 = i
        BY <1>6
      <4>2. Len(v) = k
        BY <1>6, <3>2
      <4> QED
        BY <3>2, <4>1, <4>2
    <3>4. DOMAIN v = 1 .. k /\ DOMAIN numbers = 1 .. k /\ v = [i \in DOMAIN v |-> v[i]] /\ numbers = [i \in DOMAIN numbers |-> numbers[i]]
      BY <2>2, <3>2, <3>3
    <3>5. \A i \in 1 .. k : v[i] = numbers[i]
      BY <2>2, <3>3
    <3>6. v = numbers
      BY <3>4, <3>5
    <3> QED
      BY <3>6 DEF v
  <2> QED
    BY <1>6, <2>2, <2>3, <2>4 DEF IsPrefix
<1>10. ASSUME threadTold.answers = {"page"}, threadTold.resume = 0 PROVE Len(groups) = Len(wanted)
  <2>1. groups = GroupsTold(wanted, Len(wanted)) /\ Len(wanted) \in 0 .. Len(wanted)
    BY <1>4, <1>6, <1>10
  <2> QED
    BY <1>5, <2>1
<1>11. "stated" \notin threadTold.answers
  BY <1>1
<1> HIDE DEF numbers
<1>12. threadTold.answers = {"page"} => IsPrefix(numbers, wanted) /\ (threadTold.resume = 0 => Len(groups) = Len(wanted))
  BY <1>9, <1>10
<1> QED
  BY <1>3, <1>8, <1>11, <1>12 DEF ThreadIsTold, groups, numbers

\* However the streams of a thread end, a reader who goes on at each cursor is told
\* its groups only, each once and in their order, and none of those of an answer in
\* which the server states an error; without a stream that ended early, all of them.
THEOREM ThreadsAreTold == ThreadSpec => []ThreadIsTold
<1>1. ThreadInit => ThreadInv
  BY ThreadStarts
<1>2. ThreadInv /\ [ThreadNext]_threadVars => ThreadInv'
  BY ThreadSteps
<1>3. ThreadInv => ThreadIsTold
  BY ThreadHolds
<1> QED
  BY <1>1, <1>2, <1>3, PTL DEF ThreadSpec

-----------------------------------------------------------------------------
\* Traces: their two views, and the pages they come in.


Steps == [role : STRING \cup {"tool"}, tool : STRING \cup {"none"}, chars : {0, 1}]

ToolNames == STRING \cup {"none"}

ToolSteps == {step \in Steps : step.tool # "none"}

\* The names of the tools of some steps.
NamesOf(steps) == [k \in DOMAIN steps |-> steps[k].tool]

\* A step that is said by a human or by the model, and has text.
HasText(step) == step.chars > 0 /\ step.role \in {"human", "ai"}

LEMMA NamesConcat ==
  ASSUME NEW a \in Seq(Steps), NEW b \in Seq(Steps)
  PROVE  NamesOf(a \o b) = NamesOf(a) \o NamesOf(b) /\ NamesOf(a) \in Seq(ToolNames) /\ NamesOf(<<>>) = <<>>
<1>1. ASSUME NEW s \in Seq(Steps)
      PROVE  NamesOf(s) \in Seq(ToolNames) /\ Len(NamesOf(s)) = Len(s) /\ \A i \in 1 .. Len(s) : NamesOf(s)[i] = s[i].tool
  <2>0. DOMAIN s = 1 .. Len(s) /\ Len(s) \in Nat /\ \A i \in 1 .. Len(s) : s[i] \in Steps
    OBVIOUS
  <2>1. \A i \in 1 .. Len(s) : s[i].tool \in ToolNames
    BY <2>0 DEF Steps, ToolNames
  <2> QED
    BY <2>0, <2>1 DEF NamesOf
<1> DEFINE ab == a \o b
           x == NamesOf(a)
           y == NamesOf(b)
           u == NamesOf(ab)
           v == x \o y
<1>2. /\ ab \in Seq(Steps) /\ Len(ab) = Len(a) + Len(b) /\ Len(a) \in Nat /\ Len(b) \in Nat
      /\ \A n \in 1 .. Len(a) : ab[n] = a[n]
      /\ \A n \in 1 .. Len(b) : ab[Len(a) + n] = b[n]
  BY ConcatIs
<1> HIDE DEF ab
<1>3. /\ x \in Seq(ToolNames) /\ Len(x) = Len(a) /\ y \in Seq(ToolNames) /\ Len(y) = Len(b)
      /\ u \in Seq(ToolNames) /\ Len(u) = Len(ab)
      /\ \A i \in 1 .. Len(a) : x[i] = a[i].tool
      /\ \A i \in 1 .. Len(b) : y[i] = b[i].tool
      /\ \A i \in 1 .. Len(ab) : u[i] = ab[i].tool
  BY <1>1, <1>2
<1> HIDE DEF x, y, u
<1>4. /\ v \in Seq(ToolNames) /\ Len(v) = Len(a) + Len(b)
      /\ \A n \in 1 .. Len(a) : v[n] = x[n]
      /\ \A n \in 1 .. Len(b) : v[Len(a) + n] = y[n]
  <2>0. x \in Seq(ToolNames) /\ y \in Seq(ToolNames)
    BY <1>3
  <2>1. Len(x) = Len(a) /\ Len(y) = Len(b)
    BY <1>3
  <2>2. /\ v \in Seq(ToolNames) /\ Len(v) = Len(x) + Len(y)
        /\ \A n \in 1 .. Len(x) : v[n] = x[n]
        /\ \A n \in 1 .. Len(y) : v[Len(x) + n] = y[n]
    BY ONLY <2>0, ConcatIs
  <2> HIDE DEF v
  <2> QED
    BY <2>1, <2>2
<1> HIDE DEF v
<1>5. ASSUME NEW i \in 1 .. Len(a) + Len(b) PROVE u[i] = v[i]
  <2>1. CASE i <= Len(a)
    <3>1. i \in 1 .. Len(a)
      BY <2>1
    <3> QED
      BY <1>2, <1>3, <1>4, <3>1
  <2>2. CASE ~(i <= Len(a))
    <3> DEFINE j == i - Len(a)
    <3>1. j \in 1 .. Len(b) /\ Len(a) + j = i
      BY <1>2, <2>2
    <3> HIDE DEF j
    <3>2. v[Len(a) + j] = y[j] /\ y[j] = b[j].tool /\ ab[Len(a) + j] = b[j]
      BY <1>2, <1>3, <1>4, <3>1
    <3> QED
      BY <1>2, <1>3, <3>1, <3>2
  <2> QED
    BY <2>1, <2>2
<1>6. u = v
  <2>1. Len(u) = Len(v) /\ \A i \in 1 .. Len(u) : u[i] = v[i]
    BY <1>2, <1>3, <1>4, <1>5
  <2> QED
    BY <1>3, <1>4, <2>1, SeqEqual
<1>7. NamesOf(<<>>) = <<>>
  BY DEF NamesOf
<1> QED
  BY <1>3, <1>6, <1>7 DEF ab, u, v, x, y

\* The two views of a group: the names of its tools, and its text.
LEMMA GroupViews ==
  ASSUME NEW g \in Groups
  PROVE  /\ GroupSteps(g) \in Seq(Steps) /\ DigestGroup(g).tools \in Seq(ToolNames)
         /\ NamesOf(Picked(GroupSteps(g), ToolSteps)) = DigestGroup(g).tools
         /\ \A i \in 1 .. Len(GroupSteps(g)) : HasText(GroupSteps(g)[i]) => DigestGroup(g).text
<1> DEFINE first == TrajectoryStep(g.role, "none", MsgChars(g.content))
           one == <<first>>
           rest == [k \in DOMAIN g.calls |-> TrajectoryStep("tool", g.calls[k].name, MsgChars(g.calls[k].result))]
           calls == g.calls
<1>1. \A content : MsgChars(content) \in {0, 1}
  BY DEF MsgChars
<1>2. /\ first \in Steps /\ first \notin ToolSteps /\ (HasText(first) => g.content # "none")
      /\ one \in Seq(Steps) /\ Len(one) = 1 /\ one[1] = first
  <2>1. first \in Steps /\ first.tool = "none" /\ first.chars = MsgChars(g.content)
    BY <1>1 DEF TrajectoryStep, Steps, Groups
  <2>2. g.content = "none" => MsgChars(g.content) = 0
    BY DEF MsgChars
  <2> HIDE DEF first
  <2> QED
    BY <2>1, <2>2 DEF ToolSteps, HasText
<1>3. /\ DOMAIN calls = 1 .. Len(calls) /\ Len(calls) \in Nat
      /\ \A k \in 1 .. Len(calls) : calls[k].name \in STRING \ {"none"}
  <2> DEFINE C == [name : STRING \ {"none"}, result : STRING]
  <2>1. calls \in Seq(C)
    BY DEF Groups
  <2> HIDE DEF calls, C
  <2>2. DOMAIN calls = 1 .. Len(calls) /\ Len(calls) \in Nat /\ \A k \in 1 .. Len(calls) : calls[k] \in C
    BY <2>1
  <2>3. \A c \in C : c.name \in STRING \ {"none"}
    BY DEF C
  <2> QED
    BY <2>2, <2>3
<1>4. ASSUME NEW k \in 1 .. Len(calls)
      PROVE  /\ TrajectoryStep("tool", calls[k].name, MsgChars(calls[k].result)) \in Steps
             /\ TrajectoryStep("tool", calls[k].name, MsgChars(calls[k].result)).tool = calls[k].name
             /\ ~HasText(TrajectoryStep("tool", calls[k].name, MsgChars(calls[k].result)))
             /\ calls[k].name # "none" /\ calls[k].name \in ToolNames
  <2>1. calls[k].name \in STRING \ {"none"} /\ MsgChars(calls[k].result) \in {0, 1}
    BY <1>1, <1>3
  <2> HIDE DEF calls
  <2> QED
    BY <2>1 DEF TrajectoryStep, Steps, HasText, ToolNames
<1> HIDE DEF calls
<1>5. /\ rest \in Seq(Steps) /\ Len(rest) = Len(calls) /\ DOMAIN rest = 1 .. Len(calls)
      /\ \A k \in 1 .. Len(calls) : rest[k] \in ToolSteps /\ rest[k].tool = calls[k].name /\ ~HasText(rest[k])
  <2>1. rest = [k \in 1 .. Len(calls) |-> TrajectoryStep("tool", calls[k].name, MsgChars(calls[k].result))]
    BY <1>3 DEF calls
  <2> HIDE DEF rest
  <2>2. rest \in Seq(Steps) /\ Len(rest) = Len(calls)
    BY <1>3, <1>4, <2>1
  <2>3. \A k \in 1 .. Len(calls) : rest[k] \in ToolSteps /\ rest[k].tool = calls[k].name /\ ~HasText(rest[k])
    BY <1>4, <2>1 DEF ToolSteps
  <2> QED
    BY <2>1, <2>2, <2>3
<1>6. Picked(one, ToolSteps) = <<>>
  <2>1. \A i \in 1 .. Len(one) : one[i] \notin ToolSteps
    BY <1>2
  <2> HIDE DEF one
  <2> QED
    BY <1>2, <2>1, NothingPicked
<1> HIDE DEF first, one, rest
<1>7. NamesOf(<<>>) = <<>>
  BY <1>2, NamesConcat
<1>8. CASE g.type = "message"
  <2>1. GroupSteps(g) = one
    BY <1>8 DEF GroupSteps, one, first
  <2>2. DigestGroup(g).tools = <<>> /\ (g.content # "none" => DigestGroup(g).text)
    BY <1>8 DEF DigestGroup
  <2>3. \A i \in 1 .. Len(one) : HasText(one[i]) => DigestGroup(g).text
    BY <1>2, <2>2
  <2>4. <<>> \in Seq(ToolNames)
    OBVIOUS
  <2> QED
    BY <1>2, <1>6, <1>7, <2>1, <2>2, <2>3, <2>4
<1>9. CASE g.type = "tool_interaction"
  <2>1. GroupSteps(g) = one \o rest
    BY <1>9 DEF GroupSteps, one, first, rest
  <2>2. DigestGroup(g).tools = [k \in DOMAIN g.calls |-> g.calls[k].name] /\ (g.content # "none" => DigestGroup(g).text)
    BY <1>9 DEF DigestGroup
  <2> DEFINE s == one \o rest
  <2>3. /\ s \in Seq(Steps) /\ Len(s) = Len(one) + Len(rest)
        /\ \A n \in 1 .. Len(one) : s[n] = one[n]
        /\ \A n \in 1 .. Len(rest) : s[Len(one) + n] = rest[n]
    <3>1. one \in Seq(Steps) /\ rest \in Seq(Steps)
      BY <1>2, <1>5
    <3> QED
      BY ONLY <3>1, ConcatIs
  <2>4. Picked(s, ToolSteps) = rest
    <3>1. Picked(s, ToolSteps) = Picked(one, ToolSteps) \o Picked(rest, ToolSteps)
      BY <1>2, <1>5, PickedConcat
    <3>2. \A i \in 1 .. Len(rest) : rest[i] \in ToolSteps
      BY <1>5
    <3>3. Picked(rest, ToolSteps) = rest
      BY <1>5, <3>2, AllPicked
    <3>4. <<>> \o rest = rest
      BY <1>5
    <3> QED
      BY <1>6, <3>1, <3>3, <3>4
  <2> HIDE DEF s
  <2>5. NamesOf(rest) = DigestGroup(g).tools
    <3>1. NamesOf(rest) = [k \in 1 .. Len(calls) |-> rest[k].tool]
      BY <1>5 DEF NamesOf
    <3>2. DigestGroup(g).tools = [k \in 1 .. Len(calls) |-> calls[k].name]
      BY <1>3, <2>2 DEF calls
    <3> QED
      BY <1>5, <3>1, <3>2
  <2>6. NamesOf(rest) \in Seq(ToolNames)
    BY <1>5, NamesConcat
  <2>7. \A i \in 1 .. Len(s) : HasText(s[i]) => DigestGroup(g).text
    <3> TAKE i \in 1 .. Len(s)
    <3>1. CASE i = 1
      <4>1. s[i] = first
        BY <1>2, <2>3, <3>1
      <4> QED
        BY <1>2, <2>2, <4>1
    <3>2. CASE i # 1
      <4> DEFINE j == i - 1
      <4>1. j \in 1 .. Len(rest) /\ Len(one) + j = i
        BY <1>2, <1>3, <1>5, <2>3, <3>2
      <4> HIDE DEF j
      <4>2. s[i] = rest[j]
        BY <2>3, <4>1
      <4> QED
        BY <1>5, <4>1, <4>2
    <3> QED
      BY <3>1, <3>2
  <2> QED
    BY <2>1, <2>3, <2>4, <2>5, <2>6, <2>7 DEF s
<1>10. CASE g.type \notin {"message", "tool_interaction"}
  <2>1. GroupSteps(g) = <<>> /\ DigestGroup(g).tools = <<>>
    BY <1>10 DEF GroupSteps, DigestGroup
  <2>2. <<>> \in Seq(ToolNames) /\ <<>> \in Seq(Steps) /\ 1 .. Len(<<>>) = {}
    OBVIOUS
  <2>3. Picked(<<>>, ToolSteps) = <<>>
    BY PickedNone
  <2> QED
    BY <1>7, <2>1, <2>2, <2>3
<1> QED
  BY <1>8, <1>9, <1>10

\* The two views of the first groups.
StepsTo(g, m) == [i \in 1 .. m |-> GroupSteps(g[i])]

ToolsTo(g, m) == [i \in 1 .. m |-> DigestGroup(g[i]).tools]

TextIsListed(steps, g, m) == \A i \in 1 .. Len(steps) : HasText(steps[i]) => \E j \in 1 .. m : DigestGroup(g[j]).text

ViewsGo(g, m) ==
  /\ StepsTo(g, m) \in Seq(Seq(Steps)) /\ ToolsTo(g, m) \in Seq(Seq(ToolNames))
  /\ NamesOf(Picked(FlattenSeq(StepsTo(g, m)), ToolSteps)) = FlattenSeq(ToolsTo(g, m))
  /\ TextIsListed(FlattenSeq(StepsTo(g, m)), g, m)

LEMMA PickedType ==
  ASSUME NEW S, NEW s \in Seq(S), NEW keep
  PROVE  Picked(s, keep) \in Seq(S)
<1> DEFINE places == {i \in DOMAIN s : s[i] \in keep}
<1>1. PICK f : KeepsPlaces(s, places, f, Len(s)) /\ Picked(s, keep) = f[Len(s)]
  BY PickedIsKept
<1> HIDE DEF places
<1> QED
  BY <1>1, KeptOfSequence

\* The views of one group more.
LEMMA ViewsNext ==
  ASSUME NEW g \in Seq(Groups), NEW m \in Nat, NEW n, n = m + 1, n <= Len(g), ViewsGo(g, m)
  PROVE  ViewsGo(g, n)
<1> DEFINE steps == StepsTo(g, m)
           tools == ToolsTo(g, m)
           a == FlattenSeq(steps)
           b == FlattenSeq(tools)
           e == GroupSteps(g[n])
           f == DigestGroup(g[n]).tools
           s == StepsTo(g, n)
           t == ToolsTo(g, n)
<1>1. n \in Nat /\ n \in 1 .. n /\ m < n /\ \A i \in 1 .. n : g[i] \in Groups
  OBVIOUS
<1>2. \A i \in 1 .. n : GroupSteps(g[i]) \in Seq(Steps) /\ DigestGroup(g[i]).tools \in Seq(ToolNames)
  BY <1>1, GroupViews
<1>3. /\ e \in Seq(Steps) /\ f \in Seq(ToolNames) /\ NamesOf(Picked(e, ToolSteps)) = f
      /\ \A i \in 1 .. Len(e) : HasText(e[i]) => DigestGroup(g[n]).text
  BY <1>1, GroupViews
<1>4. /\ steps \in Seq(Seq(Steps)) /\ tools \in Seq(Seq(ToolNames))
      /\ NamesOf(Picked(a, ToolSteps)) = b /\ TextIsListed(a, g, m)
  BY DEF ViewsGo
<1>5. steps = [i \in 1 .. m |-> GroupSteps(g[i])] /\ s = [i \in 1 .. n |-> GroupSteps(g[i])]
  BY DEF StepsTo
<1>6. tools = [i \in 1 .. m |-> DigestGroup(g[i]).tools] /\ t = [i \in 1 .. n |-> DigestGroup(g[i]).tools]
  BY DEF ToolsTo
<1> HIDE DEF steps, tools, s, t, e, f
<1>7. s \in Seq(Seq(Steps)) /\ s = Append(steps, e)
  <2>1. s \in Seq(Seq(Steps)) /\ Len(s) = n /\ \A i \in 1 .. n : s[i] = GroupSteps(g[i])
    BY <1>1, <1>2, <1>5
  <2>2. Len(steps) = m /\ \A i \in 1 .. m : steps[i] = GroupSteps(g[i])
    BY <1>4, <1>5
  <2> DEFINE u == Append(steps, e)
  <2>3. /\ u \in Seq(Seq(Steps)) /\ Len(u) = Len(steps) + 1 /\ \A i \in 1 .. Len(steps) : u[i] = steps[i]
        /\ u[Len(steps) + 1] = e
    BY <1>3, <1>4, AppendIs
  <2> HIDE DEF u
  <2>4. Len(s) = Len(u) /\ \A i \in 1 .. Len(s) : s[i] = u[i]
    <3>1. \A i \in 1 .. n : i \in 1 .. m \/ i = n
      BY <1>1
    <3> QED
      BY <2>1, <2>2, <2>3, <3>1 DEF e
  <2>5. s = u
    BY <2>1, <2>3, <2>4, SeqEqual
  <2> QED
    BY <2>1, <2>5 DEF u
<1>8. t \in Seq(Seq(ToolNames)) /\ t = Append(tools, f)
  <2>1. t \in Seq(Seq(ToolNames)) /\ Len(t) = n /\ \A i \in 1 .. n : t[i] = DigestGroup(g[i]).tools
    BY <1>1, <1>2, <1>6
  <2>2. Len(tools) = m /\ \A i \in 1 .. m : tools[i] = DigestGroup(g[i]).tools
    BY <1>4, <1>6
  <2> DEFINE u == Append(tools, f)
  <2>3. /\ u \in Seq(Seq(ToolNames)) /\ Len(u) = Len(tools) + 1 /\ \A i \in 1 .. Len(tools) : u[i] = tools[i]
        /\ u[Len(tools) + 1] = f
    BY <1>3, <1>4, AppendIs
  <2> HIDE DEF u
  <2>4. Len(t) = Len(u) /\ \A i \in 1 .. Len(t) : t[i] = u[i]
    <3>1. \A i \in 1 .. n : i \in 1 .. m \/ i = n
      BY <1>1
    <3> QED
      BY <2>1, <2>2, <2>3, <3>1 DEF f
  <2>5. t = u
    BY <2>1, <2>3, <2>4, SeqEqual
  <2> QED
    BY <2>1, <2>5 DEF u
<1>9. FlattenSeq(s) = a \o e /\ FlattenSeq(t) = b \o f /\ a \in Seq(Steps) /\ b \in Seq(ToolNames)
  BY <1>3, <1>4, <1>7, <1>8, FlattenNext, FlattenType
<1> HIDE DEF a, b
<1>10. NamesOf(Picked(a \o e, ToolSteps)) = b \o f
  <2>1. Picked(a \o e, ToolSteps) = Picked(a, ToolSteps) \o Picked(e, ToolSteps)
    BY <1>3, <1>9, PickedConcat
  <2>2. Picked(a, ToolSteps) \in Seq(Steps) /\ Picked(e, ToolSteps) \in Seq(Steps)
    BY <1>3, <1>9, PickedType
  <2>3. NamesOf(Picked(a, ToolSteps) \o Picked(e, ToolSteps)) = NamesOf(Picked(a, ToolSteps)) \o NamesOf(Picked(e, ToolSteps))
    BY <2>2, NamesConcat
  <2> QED
    BY <1>3, <1>4, <2>1, <2>3
<1> DEFINE u == a \o e
<1>11. TextIsListed(u, g, n)
  <2>1. /\ Len(u) = Len(a) + Len(e) /\ \A i \in 1 .. Len(a) : u[i] = a[i]
        /\ \A i \in 1 .. Len(e) : u[Len(a) + i] = e[i]
    BY <1>3, <1>9, ConcatIs
  <2>2. Len(a) \in Nat /\ Len(e) \in Nat
    BY <1>3, <1>9
  <2> HIDE DEF u
  <2>3. ASSUME NEW i \in 1 .. Len(u), HasText(u[i]) PROVE \E j \in 1 .. n : DigestGroup(g[j]).text
    <3>1. CASE i <= Len(a)
      <4>1. i \in 1 .. Len(a) /\ u[i] = a[i]
        BY <2>1, <3>1
      <4>2. PICK j \in 1 .. m : DigestGroup(g[j]).text
        BY <1>4, <2>3, <4>1 DEF TextIsListed
      <4>3. j \in 1 .. n
        BY <1>1
      <4> QED
        BY <4>2, <4>3
    <3>2. CASE ~(i <= Len(a))
      <4> DEFINE k == i - Len(a)
      <4>1. k \in 1 .. Len(e) /\ Len(a) + k = i
        BY <2>1, <2>2, <3>2
      <4> HIDE DEF k
      <4>2. u[i] = e[k]
        BY <2>1, <4>1
      <4> QED
        BY <1>1, <1>3, <2>3, <4>1, <4>2
    <3> QED
      BY <3>1, <3>2
  <2> QED
    BY <2>3 DEF TextIsListed
<1> QED
  BY <1>7, <1>8, <1>9, <1>10, <1>11 DEF ViewsGo, s, t, u

LEMMA ViewsAreOne ==
  ASSUME NEW g \in Seq(Groups)
  PROVE  ViewsGo(g, Len(g))
<1> DEFINE T == {n \in 0 .. Len(g) : ~ViewsGo(g, n)}
<1>0. Len(g) \in Nat
  OBVIOUS
<1>1. ViewsGo(g, 0)
  <2>1. StepsTo(g, 0) = <<>> /\ ToolsTo(g, 0) = <<>>
    <3>1. 1 .. 0 = {}
      OBVIOUS
    <3> QED
      BY <3>1 DEF StepsTo, ToolsTo
  <2>2. FlattenSeq(<<>>) = <<>> /\ Picked(<<>>, ToolSteps) = <<>>
    BY FlattenNone, PickedNone
  <2>3. <<>> \in Seq(Steps) /\ <<>> \in Seq(Seq(Steps)) /\ <<>> \in Seq(Seq(ToolNames)) /\ 1 .. Len(<<>>) = {}
    OBVIOUS
  <2>4. NamesOf(<<>>) = <<>>
    BY <2>3, NamesConcat
  <2>5. TextIsListed(<<>>, g, 0)
    BY <2>3 DEF TextIsListed
  <2> QED
    BY <2>1, <2>2, <2>3, <2>4, <2>5 DEF ViewsGo
<1>2. ASSUME NEW n \in T, \A k \in T : n <= k
      PROVE  FALSE
  <2>1. n \in 0 .. Len(g) /\ ~ViewsGo(g, n) /\ n # 0
    BY <1>1
  <2> DEFINE m == n - 1
  <2>2. m \in Nat /\ m \in 0 .. Len(g) /\ n = m + 1 /\ n <= Len(g) /\ ~(n <= m)
    BY <1>0, <2>1
  <2> HIDE DEF m
  <2>3. ViewsGo(g, m)
    BY <1>2, <2>2
  <2> QED
    BY <2>1, <2>2, <2>3, ViewsNext
<1>3. T = {}
  <2>1. T \in SUBSET Nat
    BY <1>0
  <2> HIDE DEF T
  <2> QED
    BY <1>2, <2>1, LeastIsThere
<1>4. Len(g) \in 0 .. Len(g)
  BY <1>0
<1> QED
  BY <1>3, <1>4

\* The two views of a trace agree.
ViewsAgree(steps, index, size) ==
  LET tools  == Picked(steps, {step \in ToSet(steps) : step.tool # "none"})
      listed == FlattenSeq([i \in DOMAIN index |-> index[i].tools])
  IN  /\ [k \in DOMAIN tools |-> tools[k].tool] = listed
      /\ (\E step \in ToSet(steps) : step.chars > 0 /\ step.role \in {"human", "ai"})
           => \E i \in DOMAIN index : index[i].text
      /\ Len(index) = size

LEMMA TraceViews ==
  ASSUME NEW g \in Seq(Groups)
  PROVE  ViewsAgree(BuildTraceTrajectory(g), BuildTraceDigest(g).index, Len(g))
<1> DEFINE steps == BuildTraceTrajectory(g)
           index == BuildTraceDigest(g).index
           n == Len(g)
           keep == {step \in ToSet(steps) : step.tool # "none"}
<1>1. DOMAIN g = 1 .. n /\ n \in Nat
  OBVIOUS
<1>2. ViewsGo(g, n)
  BY ViewsAreOne
<1>3. steps = FlattenSeq(StepsTo(g, n))
  BY <1>1 DEF BuildTraceTrajectory, StepsTo
<1>4. index = [i \in 1 .. n |-> DigestGroup(g[i])]
  BY <1>1 DEF BuildTraceDigest
<1>5. steps \in Seq(Steps)
  BY <1>2, <1>3, FlattenType DEF ViewsGo
<1> HIDE DEF steps, index
<1>6. Picked(steps, keep) = Picked(steps, ToolSteps)
  <2>1. \A i \in 1 .. Len(steps) : steps[i] \in Steps /\ steps[i] \in ToSet(steps)
    BY <1>5 DEF ToSet
  <2>2. \A i \in 1 .. Len(steps) : steps[i] \in keep <=> steps[i] \in ToolSteps
    BY <2>1 DEF ToolSteps
  <2> HIDE DEF keep
  <2> QED
    BY <1>5, <2>2, PickedSame
<1>7. [i \in DOMAIN index |-> index[i].tools] = ToolsTo(g, n)
  BY <1>4 DEF ToolsTo
<1>8. NamesOf(Picked(steps, keep)) = FlattenSeq(ToolsTo(g, n))
  BY <1>2, <1>3, <1>6 DEF ViewsGo
<1>9. ASSUME NEW step \in ToSet(steps), step.chars > 0, step.role \in {"human", "ai"}
      PROVE  \E i \in DOMAIN index : index[i].text
  <2>1. PICK k \in 1 .. Len(steps) : step = steps[k]
    BY <1>5 DEF ToSet
  <2>2. HasText(steps[k])
    BY <1>9, <2>1 DEF HasText
  <2>3. PICK j \in 1 .. n : DigestGroup(g[j]).text
    BY <1>2, <1>3, <2>2 DEF ViewsGo, TextIsListed
  <2> QED
    BY <1>4, <2>3
<1>10. Len(index) = n
  <2>1. \A i \in 1 .. n : DigestGroup(g[i]) \in {DigestGroup(g[j]) : j \in 1 .. n}
    OBVIOUS
  <2>2. index \in Seq({DigestGroup(g[j]) : j \in 1 .. n})
    BY <1>1, <1>4, <2>1
  <2> QED
    BY <1>1, <1>4, <2>2
<1>11. [k \in DOMAIN Picked(steps, keep) |-> Picked(steps, keep)[k].tool] = FlattenSeq([i \in DOMAIN index |-> index[i].tools])
  BY <1>7, <1>8 DEF NamesOf
<1> HIDE DEF n
<1> QED
  BY <1>9, <1>10, <1>11 DEF ViewsAgree, steps, index, n

\* The numbers of some traces that follow each other.
Numbers(from, m) == [i \in 1 .. m |-> from + i]

ToldTraces == {TraceTold(i, previews) : i \in DOMAIN matches, previews \in SUBSET Nat}

MessageShape ==
  /\ matches \in Seq(Seq(Groups))
  /\ messages \in [pc : {"idle", "page", "previews", "print", "failed"}, in : MessageInputs \cup {Resting.in}, cursor : Nat,
                   maxPage : Nat \ {0}, remaining : Nat, got : Seq(Nat), previews : SUBSET Nat]
  /\ told \in [of : {"none", "walk", "page"}, traces : Seq(ToldTraces), limit : Nat, resume : Nat, calls : Nat]

\* What is told are the first traces, in their order.
FirstAreTold(traces) ==
  \A i \in 1 .. Len(traces) :
    /\ i <= Len(matches)
    /\ \E previews \in SUBSET Nat : traces[i] = TraceTold(i, previews)

ListIsTold ==
  LET n == Len(told.traces)
  IN  /\ FirstAreTold(told.traces)
      /\ told.of = "none" => n = 0 /\ told.resume = 0
      /\ told.of = "walk" => n = Min({told.limit, Len(matches)})
      /\ told.of = "page" => IF told.resume = 0 THEN n = Len(matches) ELSE n = told.resume
      /\ told.calls = 0 => told.of = "none"

\* The places a command has come to, from the cursor it began at.
Come(run, from, m) ==
  /\ run.got = Numbers(from, m) /\ from + m <= Len(matches)
  /\ m <= MessageLimit(run.in)
  /\ run.pc = "page" =>
       /\ run.cursor = from + m /\ run.remaining = MessageLimit(run.in) - m
       /\ run.remaining > 0 /\ (run.in.paged => m = 0)
  /\ run.pc # "page" =>
       /\ run.cursor = 0 => from + m = Len(matches)
       /\ run.cursor # 0 => run.cursor = from + m
       /\ run.in.paged \/ m = MessageLimit(run.in) \/ from + m = Len(matches)

RunGoesOn ==
  messages.pc \in {"page", "previews", "print"} =>
    /\ messages.in \in MessageInputs /\ told.of \in {"none", "page"} /\ told.calls > 0
    /\ told.of = "page" => told.resume > 0 /\ messages.in.paged
    /\ \E m \in Nat : Come(messages, told.resume, m)

MessageInv == MessageShape /\ ListIsTold /\ RunGoesOn

LEMMA LimitIs == ASSUME NEW in \in MessageInputs PROVE MessageLimit(in) \in Nat \ {0} /\ in.limit \in Nat /\ in.paged \in BOOLEAN
BY MessageAssumption DEF MessageLimit

LEMMA NumbersAre ==
  ASSUME NEW from \in Nat, NEW m \in Nat
  PROVE  /\ Numbers(from, m) \in Seq(Nat) /\ Len(Numbers(from, m)) = m /\ DOMAIN Numbers(from, m) = 1 .. m
         /\ \A i \in 1 .. m : Numbers(from, m)[i] = from + i
<1>1. \A i \in 1 .. m : from + i \in Nat
  OBVIOUS
<1>2. Numbers(from, m) \in Seq(Nat) /\ Len(Numbers(from, m)) = m
  BY <1>1 DEF Numbers
<1> QED
  BY <1>2 DEF Numbers

LEMMA NumbersGrow ==
  ASSUME NEW from \in Nat, NEW m \in Nat, NEW k \in Nat
  PROVE  Numbers(from, m) \o Numbers(from + m, k) = Numbers(from, m + k)
<1> DEFINE a == Numbers(from, m)
           b == Numbers(from + m, k)
           u == a \o b
           v == Numbers(from, m + k)
<1>1. /\ a \in Seq(Nat) /\ Len(a) = m /\ \A i \in 1 .. m : a[i] = from + i
      /\ b \in Seq(Nat) /\ Len(b) = k /\ \A i \in 1 .. k : b[i] = from + m + i
      /\ v \in Seq(Nat) /\ Len(v) = m + k /\ \A i \in 1 .. m + k : v[i] = from + i
  <2>1. from + m \in Nat /\ m + k \in Nat
    OBVIOUS
  <2>2. a \in Seq(Nat) /\ Len(a) = m /\ \A i \in 1 .. m : a[i] = from + i
    BY NumbersAre
  <2>3. b \in Seq(Nat) /\ Len(b) = k /\ \A i \in 1 .. k : b[i] = from + m + i
    BY <2>1, NumbersAre
  <2>4. v \in Seq(Nat) /\ Len(v) = m + k /\ \A i \in 1 .. m + k : v[i] = from + i
    BY <2>1, NumbersAre
  <2> QED
    BY <2>2, <2>3, <2>4
<1> HIDE DEF a, b, v
<1>2. a \in Seq(Nat) /\ b \in Seq(Nat)
  BY <1>1
<1>3. /\ u \in Seq(Nat) /\ Len(u) = Len(a) + Len(b)
      /\ \A i \in 1 .. Len(a) : u[i] = a[i]
      /\ \A i \in 1 .. Len(b) : u[Len(a) + i] = b[i]
  BY ONLY <1>2, ConcatIs
<1> HIDE DEF u
<1>4. ASSUME NEW i \in 1 .. m + k PROVE u[i] = v[i]
  <2>1. CASE i <= m
    <3>1. i \in 1 .. m
      BY <2>1
    <3> QED
      BY <1>1, <1>3, <3>1
  <2>2. CASE ~(i <= m)
    <3> DEFINE j == i - m
    <3>1. j \in 1 .. k /\ m + j = i /\ from + m + j = from + i
      BY <2>2
    <3> HIDE DEF j
    <3>2. u[m + j] = b[j] /\ b[j] = from + m + j
      BY <1>1, <1>3, <3>1
    <3> QED
      BY <1>1, <3>1, <3>2
  <2> QED
    BY <2>1, <2>2
<1>5. Len(u) = Len(v) /\ \A i \in 1 .. Len(u) : u[i] = v[i]
  BY <1>1, <1>3, <1>4
<1>6. u = v
  BY <1>1, <1>3, <1>5, SeqEqual
<1> QED
  BY <1>6 DEF a, b, u, v

LEMMA MessageStarts == MessageInit => MessageInv
<1> SUFFICES ASSUME MessageInit PROVE MessageInv
  OBVIOUS
<1>1. /\ matches \in Seq(Seq(Groups)) /\ messages = Resting
      /\ told = [of |-> "none", traces |-> <<>>, limit |-> 0, resume |-> 0, calls |-> 0]
  BY ConversationAssumption DEF MessageInit
<1>2. LargePage \in Nat \ {0} /\ 0 \in Nat /\ <<>> \in Seq(Nat) /\ {} \in SUBSET Nat /\ <<>> \in Seq(ToldTraces)
  BY MessageAssumption
<1>3. MessageShape
  BY <1>1, <1>2 DEF MessageShape, Resting
<1>4. ListIsTold
  <2>1. Len(told.traces) = 0 /\ told.of = "none" /\ told.resume = 0
    BY <1>1
  <2>2. FirstAreTold(told.traces)
    BY <2>1 DEF FirstAreTold
  <2> QED
    BY <2>1, <2>2 DEF ListIsTold
<1>5. messages.pc = "idle"
  BY <1>1 DEF Resting
<1> QED
  BY <1>3, <1>4, <1>5 DEF MessageInv, RunGoesOn

\* The traces do not change, and what is told of them is what it was.
LEMMA SameTold ==
  ASSUME matches' = matches
  PROVE  /\ ToldTraces' = ToldTraces
         /\ \A i, previews : TraceTold(i, previews)' = TraceTold(i, previews)
BY DEF ToldTraces, TraceTold

LEMMA StartGoesOn ==
  ASSUME MessageInv, NEW in \in MessageInputs, StartMessages(in)
  PROVE  MessageInv'
<1> DEFINE run == messages'
<1>1. MessageShape /\ ListIsTold
  BY DEF MessageInv
<1>2. /\ messages.pc = "idle" /\ matches' = matches /\ told.calls < MaxMessageCalls
      /\ told.calls > 0 => in.paged /\ told.of = "page" /\ told.resume > 0
      /\ MaxMessageCalls \in Nat /\ told.calls \in Nat
  BY <1>1, MessageAssumption DEF StartMessages, MessageShape
<1>3. CASE RefusesMessages(in)
  <2>1. messages' = messages /\ told' = [told EXCEPT !.calls = MaxMessageCalls]
    BY <1>3 DEF StartMessages
  <2>2. /\ told'.of = told.of /\ told'.traces = told.traces /\ told'.limit = told.limit /\ told'.resume = told.resume
        /\ told'.calls = MaxMessageCalls /\ MaxMessageCalls # 0
    BY <1>1, <1>2, <2>1 DEF MessageShape
  <2>3. MessageShape'
    <3>1. told' \in [of : {"none", "walk", "page"}, traces : Seq(ToldTraces), limit : Nat, resume : Nat, calls : Nat]
      BY <1>1, <1>2, <2>1 DEF MessageShape
    <3> QED
      BY <1>1, <1>2, <2>1, <3>1, SameTold DEF MessageShape
  <2>4. FirstAreTold(told.traces)'
    BY <1>1, <1>2, <2>2, SameTold DEF ListIsTold, FirstAreTold
  <2>5. ListIsTold'
    BY <1>1, <1>2, <2>2, <2>4 DEF ListIsTold
  <2> QED
    BY <1>2, <2>1, <2>3, <2>5 DEF MessageInv, RunGoesOn
<1>4. CASE ~RefusesMessages(in)
  <2>1. /\ messages' = [Resting EXCEPT !.pc = "page", !.in = in, !.remaining = MessageLimit(in),
                                       !.cursor = IF in.paged THEN told.resume ELSE 0]
        /\ told' = [told EXCEPT !.calls = @ + 1]
    BY <1>4 DEF StartMessages
  <2>2. /\ told'.of = told.of /\ told'.traces = told.traces /\ told'.limit = told.limit /\ told'.resume = told.resume
        /\ told'.calls = told.calls + 1 /\ told.calls + 1 \in Nat /\ told.calls + 1 > 0 /\ told.calls + 1 # 0
    BY <1>1, <1>2, <2>1 DEF MessageShape
  <2>3. told.of \in {"none", "page"} /\ (told.of = "page" => told.resume > 0 /\ in.paged) /\ (told.of = "none" => told.resume = 0)
    <3>1. told.calls = 0 => told.of = "none"
      BY <1>1 DEF ListIsTold
    <3>2. told.calls = 0 \/ told.calls > 0
      BY <1>2
    <3>3. told.of = "none" => told.resume = 0
      BY <1>1 DEF ListIsTold
    <3> QED
      BY <1>2, <3>1, <3>2, <3>3
  <2>4. (IF in.paged THEN told.resume ELSE 0) = told.resume
    BY <2>3
  <2>5. messages' = [Resting EXCEPT !.pc = "page", !.in = in, !.remaining = MessageLimit(in), !.cursor = told.resume]
    BY <2>1, <2>4
  <2>6. MessageLimit(in) \in Nat \ {0} /\ told.resume \in Nat /\ LargePage \in Nat \ {0} /\ <<>> \in Seq(Nat)
    BY <1>1, LimitIs, MessageAssumption DEF MessageShape
  <2>7. /\ run.pc = "page" /\ run.in = in /\ run.remaining = MessageLimit(in) /\ run.cursor = told.resume /\ run.got = <<>>
        /\ run \in [pc : {"idle", "page", "previews", "print", "failed"}, in : MessageInputs \cup {Resting.in}, cursor : Nat,
                    maxPage : Nat \ {0}, remaining : Nat, got : Seq(Nat), previews : SUBSET Nat]
    BY <2>5, <2>6 DEF Resting
  <2>8. told' \in [of : {"none", "walk", "page"}, traces : Seq(ToldTraces), limit : Nat, resume : Nat, calls : Nat]
    BY <1>1, <2>1, <2>2 DEF MessageShape
  <2>9. MessageShape'
    BY <1>1, <1>2, <2>7, <2>8, SameTold DEF MessageShape
  <2>10. FirstAreTold(told.traces)'
    BY <1>1, <1>2, <2>2, SameTold DEF ListIsTold, FirstAreTold
  <2>11. ListIsTold'
    BY <1>1, <1>2, <2>2, <2>10 DEF ListIsTold
  <2>12. told.resume <= Len(matches)
    <3>1. \A i \in 1 .. Len(told.traces) : i <= Len(matches)
      BY <1>1 DEF ListIsTold, FirstAreTold
    <3>2. told.traces \in Seq(ToldTraces) /\ Len(matches) \in Nat
      BY <1>1 DEF MessageShape
    <3>3. Len(told.traces) \in Nat
      BY <3>2
    <3>4. told.resume = 0 \/ told.resume = Len(told.traces)
      BY <1>1, <2>3 DEF ListIsTold
    <3> QED
      BY <2>6, <3>1, <3>2, <3>3, <3>4
  <2>13. Come(run, told.resume, 0)
    <3>1. Numbers(told.resume, 0) = <<>>
      <4>1. 1 .. 0 = {}
        OBVIOUS
      <4> QED
        BY <4>1 DEF Numbers
    <3>2. told.resume + 0 = told.resume /\ MessageLimit(in) - 0 = MessageLimit(in) /\ MessageLimit(in) > 0 /\ 0 <= MessageLimit(in)
      BY <2>6
    <3> QED
      BY <2>7, <2>12, <3>1, <3>2 DEF Come
  <2>14. Come(messages, told.resume, 0)'
    BY <1>2, <2>2, <2>13 DEF Come
  <2>15. RunGoesOn'
    BY <2>2, <2>3, <2>7, <2>14 DEF RunGoesOn
  <2> QED
    BY <2>9, <2>11, <2>15 DEF MessageInv
<1> QED
  BY <1>3, <1>4

\* The pages of the server, and what follows them.
LEMMA PageCame ==
  ASSUME MessageShape, messages.in \in MessageInputs, messages.cursor <= Len(matches), messages.remaining > 0,
         NEW size \in 1 .. PageAsked(messages)
  PROVE  LET page == ServerPage(messages, size)
         IN  /\ Len(page) \in Nat /\ DOMAIN page = 1 .. Len(page)
             /\ Len(page) <= messages.remaining /\ messages.cursor + Len(page) <= Len(matches)
             /\ messages.cursor + Len(page) = 0 => Len(matches) = 0
<1> DEFINE len == Len(matches)
           c == messages.cursor
           end == Min({len, c + size})
           page == ServerPage(messages, size)
<1>1. matches \in Seq(Seq(Groups)) /\ c \in Nat /\ messages.remaining \in Nat /\ messages.maxPage \in Nat \ {0}
  BY DEF MessageShape
<1>2. len \in Nat
  BY <1>1
<1>3. size \in Nat \ {0} /\ size <= messages.remaining
  <2>1. Min({messages.maxPage, messages.remaining}) = IF messages.maxPage <= messages.remaining THEN messages.maxPage ELSE messages.remaining
    BY <1>1, MinOfTwo
  <2>2. PageAsked(messages) \in Nat /\ PageAsked(messages) <= messages.remaining
    BY <1>1, <2>1 DEF PageAsked
  <2> QED
    BY <1>1, <2>2
<1>4. end = IF len <= c + size THEN len ELSE c + size
  <2>1. c + size \in Nat
    BY <1>1, <1>3
  <2> QED
    BY <1>2, <2>1, MinOfTwo
<1> HIDE DEF len, end, c
<1>5. c <= len
  BY DEF c, len
<1>6. end \in c .. len
  BY <1>1, <1>2, <1>3, <1>4, <1>5
<1>7. page = SubSeq(matches, c + 1, end)
  BY DEF ServerPage, len, end, c
<1> HIDE DEF page
<1>8. page \in Seq(Seq(Groups)) /\ Len(page) = end - c
  <2>1. \A i \in c + 1 .. end : matches[i] \in Seq(Groups)
    BY <1>1, <1>2, <1>6 DEF len
  <2>2. c + 1 \in Int /\ end \in Int
    BY <1>1, <1>6
  <2>3. page \in Seq(Seq(Groups)) /\ Len(page) = IF c + 1 <= end THEN end - (c + 1) + 1 ELSE 0
    BY <1>7, <2>1, <2>2, SubSeqProperties
  <2>4. (IF c + 1 <= end THEN end - (c + 1) + 1 ELSE 0) = end - c
    BY <1>1, <1>6
  <2> QED
    BY <2>3, <2>4
<1>9. Len(page) \in Nat /\ DOMAIN page = 1 .. Len(page)
  BY <1>8
<1>10. Len(page) <= messages.remaining /\ c + Len(page) <= len
  BY <1>1, <1>2, <1>3, <1>4, <1>6, <1>8
<1>11. c + Len(page) = 0 => len = 0
  BY <1>1, <1>2, <1>3, <1>4, <1>6, <1>8
<1> QED
  BY <1>9, <1>10, <1>11 DEF page, len, c

LEMMA FetchGoesOn ==
  ASSUME MessageInv, FetchBatch
  PROVE  MessageInv'
<1> DEFINE run == messages'
           from == told.resume
           len == Len(matches)
<1>1. MessageShape /\ ListIsTold /\ messages.pc = "page" /\ matches' = matches /\ told' = told
  BY DEF MessageInv, FetchBatch
<1>2. PICK m \in Nat : Come(messages, from, m)
  BY <1>1 DEF MessageInv, RunGoesOn
<1>3. /\ messages.in \in MessageInputs /\ told.of \in {"none", "page"} /\ told.calls > 0
      /\ told.of = "page" => told.resume > 0 /\ messages.in.paged
  BY <1>1 DEF MessageInv, RunGoesOn
<1>4. /\ messages.got = Numbers(from, m) /\ from + m <= len /\ m <= MessageLimit(messages.in)
      /\ messages.cursor = from + m /\ messages.remaining = MessageLimit(messages.in) - m
      /\ messages.remaining > 0 /\ (messages.in.paged => m = 0)
  BY <1>1, <1>2 DEF Come
<1>5. from \in Nat /\ len \in Nat /\ MessageLimit(messages.in) \in Nat \ {0} /\ messages.remaining \in Nat
  BY <1>1, <1>3, LimitIs DEF MessageShape
<1>6. PICK size \in 1 .. PageAsked(messages) :
        LET page == ServerPage(messages, size)
            seen == messages.cursor + Len(page)
            next == IF seen < Len(matches) THEN seen ELSE 0
        IN  messages' = AfterBatch(messages, [i \in DOMAIN page |-> messages.cursor + i], next)
  BY DEF FetchBatch
<1> DEFINE page == ServerPage(messages, size)
           k == Len(page)
           seen == messages.cursor + k
           next == IF seen < len THEN seen ELSE 0
           more == [i \in DOMAIN page |-> messages.cursor + i]
           left == messages.remaining - k
           ends == messages.in.paged \/ next = 0 \/ left <= 0
<1>7. /\ k \in Nat /\ DOMAIN page = 1 .. k /\ k <= messages.remaining /\ messages.cursor + k <= len
      /\ messages.cursor + k = 0 => len = 0
  BY <1>1, <1>3, <1>4, PageCame
<1>8. messages' = AfterBatch(messages, more, next)
  BY <1>6
<1> HIDE DEF page, k
<1>9. more = Numbers(from + m, k)
  BY <1>4, <1>7 DEF Numbers
<1>10. Len(more) = k
  <2>1. from + m \in Nat
    BY <1>5
  <2> HIDE DEF more
  <2> QED
    BY <1>7, <1>9, <2>1, NumbersAre
<1> HIDE DEF more
<1> DEFINE got == Numbers(from, m + k)
<1>11. messages.got \o more = got /\ got \in Seq(Nat) /\ m + k \in Nat
  <2>1. m + k \in Nat
    BY <1>7
  <2> QED
    <3>1. Numbers(from, m) \o Numbers(from + m, k) = got
      BY <1>5, <1>7, NumbersGrow
    <3>2. got \in Seq(Nat)
      BY <1>5, <2>1, NumbersAre
    <3> HIDE DEF got
    <3> QED
      BY <1>4, <1>9, <2>1, <3>1, <3>2
<1> HIDE DEF got
<1>12. messages' = [messages EXCEPT !.got = got, !.remaining = left, !.cursor = next,
                                    !.pc = IF ends THEN "previews" ELSE "page"]
  BY <1>8, <1>10, <1>11 DEF AfterBatch
<1>13. /\ left \in Nat /\ next \in Nat /\ left = MessageLimit(messages.in) - (m + k)
       /\ seen = from + (m + k) /\ from + (m + k) <= len /\ m + k <= MessageLimit(messages.in)
       /\ (next = 0 <=> seen = len) /\ (next # 0 => next = seen)
  <2>1. seen \in Nat /\ seen <= len /\ (seen = 0 => len = 0) /\ seen = from + (m + k)
    BY ONLY <1>4, <1>5, <1>7, m \in Nat
  <2>2. left \in Nat /\ left = MessageLimit(messages.in) - (m + k) /\ m + k <= MessageLimit(messages.in)
    BY ONLY <1>4, <1>5, <1>7, m \in Nat
  <2> HIDE DEF seen, left
  <2> QED
    BY <1>5, <2>1, <2>2
<1> DEFINE pc == IF ends THEN "previews" ELSE "page"
<1>14. pc \in {"page", "previews"} /\ (pc = "previews" <=> ends)
  OBVIOUS
<1>15. messages' = [messages EXCEPT !.got = got, !.remaining = left, !.cursor = next, !.pc = pc]
  BY <1>12
<1> HIDE DEF left, next, pc, ends
<1>16. /\ run.pc = pc /\ run.in = messages.in /\ run.cursor = next /\ run.remaining = left /\ run.got = got
       /\ run \in [pc : {"idle", "page", "previews", "print", "failed"}, in : MessageInputs \cup {Resting.in}, cursor : Nat,
                   maxPage : Nat \ {0}, remaining : Nat, got : Seq(Nat), previews : SUBSET Nat]
  BY <1>1, <1>11, <1>13, <1>14, <1>15 DEF MessageShape
<1>17. Come(run, from, m + k)
  <2>1. ASSUME pc = "page" PROVE run.cursor = from + (m + k) /\ run.remaining > 0 /\ ~run.in.paged
    <3>1. ~messages.in.paged /\ next # 0 /\ ~(left <= 0)
      BY <1>14, <2>1 DEF ends
    <3> QED
      BY <1>13, <1>16, <3>1
  <2>2. ASSUME pc # "page"
        PROVE  /\ run.cursor = 0 => from + (m + k) = Len(matches)
               /\ run.cursor # 0 => run.cursor = from + (m + k)
               /\ run.in.paged \/ m + k = MessageLimit(run.in) \/ from + (m + k) = Len(matches)
    <3>1. ends
      BY <1>14, <2>2
    <3>2. messages.in.paged \/ next = 0 \/ left = 0
      BY <1>13, <3>1 DEF ends
    <3>3. left = 0 => m + k = MessageLimit(messages.in)
      BY <1>5, <1>7, <1>13
    <3> QED
      BY <1>13, <1>16, <3>2, <3>3
  <2> QED
    BY <1>13, <1>16, <2>1, <2>2 DEF Come, got
<1>18. PICK n \in Nat : Come(run, from, n)
  BY <1>11, <1>17
<1>19. Come(messages, told.resume, n)'
  BY <1>1, <1>18 DEF Come
<1>20. RunGoesOn'
  BY <1>1, <1>3, <1>16, <1>19 DEF RunGoesOn
<1>21. MessageShape'
  BY <1>1, <1>16, SameTold DEF MessageShape
<1>22. ListIsTold'
  BY <1>1, SameTold DEF ListIsTold, FirstAreTold
<1> QED
  BY <1>20, <1>21, <1>22 DEF MessageInv

\* The other steps of a command do not change how far it has come.
LEMMA OthersGoOn ==
  ASSUME MessageInv, RefusedBatch \/ FailBatch \/ FetchRootPreviews
  PROVE  MessageInv'
<1> DEFINE run == messages'
<1>1. MessageShape /\ ListIsTold /\ matches' = matches /\ told' = told
  BY DEF MessageInv, RefusedBatch, FailBatch, FetchRootPreviews
<1>2. ListIsTold'
  BY <1>1, SameTold DEF ListIsTold, FirstAreTold
<1>3. SmallPage \in Nat \ {0}
  BY MessageAssumption
<1>4. CASE messages' = [messages EXCEPT !.pc = "failed"]
  <2>1. MessageShape' /\ messages'.pc = "failed"
    BY <1>1, <1>4, SameTold DEF MessageShape
  <2> QED
    BY <1>2, <2>1 DEF MessageInv, RunGoesOn
<1>5. CASE messages.pc = "page" /\ messages' = [messages EXCEPT !.maxPage = SmallPage]
  <2>1. /\ run.pc = messages.pc /\ run.in = messages.in /\ run.cursor = messages.cursor
        /\ run.remaining = messages.remaining /\ run.got = messages.got
    BY <1>1, <1>5 DEF MessageShape
  <2>2. MessageShape'
    BY <1>1, <1>3, <1>5, SameTold DEF MessageShape
  <2>3. RunGoesOn'
    BY <1>1, <2>1 DEF MessageInv, RunGoesOn, Come
  <2> QED
    BY <1>2, <2>2, <2>3 DEF MessageInv
<1>6. CASE messages.pc = "previews" /\ \E previews \in SUBSET Nat : messages' = [messages EXCEPT !.pc = "print", !.previews = previews]
  <2>0. PICK previews \in SUBSET Nat : messages' = [messages EXCEPT !.pc = "print", !.previews = previews]
    BY <1>6
  <2>1. /\ run.pc = "print" /\ run.in = messages.in /\ run.cursor = messages.cursor
        /\ run.remaining = messages.remaining /\ run.got = messages.got
    BY <1>1, <2>0 DEF MessageShape
  <2>2. MessageShape'
    BY <1>1, <2>0, SameTold DEF MessageShape
  <2>3. PICK m \in Nat : Come(messages, told.resume, m)
    BY <1>6 DEF MessageInv, RunGoesOn
  <2>4. Come(messages, told.resume, m)'
    BY <1>1, <1>6, <2>1, <2>3 DEF Come
  <2>5. RunGoesOn'
    BY <1>1, <1>6, <2>1, <2>4 DEF MessageInv, RunGoesOn
  <2> QED
    BY <1>2, <2>2, <2>5 DEF MessageInv
<1>7. FetchRootPreviews => messages.pc = "previews" /\ \E previews \in SUBSET Nat : messages' = [messages EXCEPT !.pc = "print", !.previews = previews]
  <2> SUFFICES ASSUME FetchRootPreviews
               PROVE  messages.pc = "previews" /\ \E previews \in SUBSET Nat : messages' = [messages EXCEPT !.pc = "print", !.previews = previews]
    OBVIOUS
  <2>1. PICK missed : messages' = [messages EXCEPT !.pc = "print", !.previews = ToSet(messages.got) \ ToSet(missed)]
    BY DEF FetchRootPreviews
  <2>2. ToSet(messages.got) \ ToSet(missed) \in SUBSET Nat
    <3>1. messages.got \in Seq(Nat)
      BY <1>1 DEF MessageShape
    <3>2. ToSet(messages.got) \subseteq Nat
      BY <3>1 DEF ToSet
    <3> QED
      BY <3>2
  <2> QED
    BY <2>1, <2>2 DEF FetchRootPreviews
<1>8. RefusedBatch => messages.pc = "page" /\ (messages' = [messages EXCEPT !.pc = "failed"] \/ messages' = [messages EXCEPT !.maxPage = SmallPage])
  BY DEF RefusedBatch
<1>9. FailBatch => messages' = [messages EXCEPT !.pc = "failed"]
  BY DEF FailBatch
<1> QED
  BY <1>4, <1>5, <1>6, <1>7, <1>8, <1>9

\* What is printed are the next traces of the list.
LEMMA PrintGoesOn ==
  ASSUME MessageInv, PrintMessages
  PROVE  MessageInv'
<1> DEFINE from == told.resume
           limit == MessageLimit(messages.in)
           len == Len(matches)
           traces == told.traces
           paged == messages.in.paged
<1>1. /\ MessageShape /\ ListIsTold /\ messages.pc = "print" /\ matches' = matches /\ messages' = Resting
      /\ messages.in \in MessageInputs /\ told.of \in {"none", "page"} /\ told.calls > 0
      /\ told.of = "page" => told.resume > 0 /\ paged
  BY DEF MessageInv, PrintMessages, RunGoesOn
<1>2. PICK m \in Nat : Come(messages, from, m)
  BY <1>1 DEF MessageInv, RunGoesOn
<1>3. /\ messages.got = Numbers(from, m) /\ from + m <= len /\ m <= limit
      /\ messages.cursor = 0 => from + m = len
      /\ messages.cursor # 0 => messages.cursor = from + m
      /\ paged \/ m = limit \/ from + m = len
  BY <1>1, <1>2 DEF Come
<1>4. /\ from \in Nat /\ len \in Nat /\ limit \in Nat \ {0} /\ paged \in BOOLEAN /\ messages.cursor \in Nat
      /\ messages.previews \in SUBSET Nat /\ traces \in Seq(ToldTraces) /\ Len(traces) \in Nat
  BY <1>1, LimitIs DEF MessageShape
<1>5. Len(traces) = from
  BY <1>1, <1>4 DEF ListIsTold
<1> DEFINE got == messages.got
           kept == SubSeq(got, 1, Min({limit, Len(got)}))
           out == [i \in DOMAIN kept |-> TraceTold(kept[i], messages.previews)]
           now == traces \o out
<1>6. told' = [told EXCEPT !.of = IF paged THEN "page" ELSE "walk", !.traces = now,
                           !.limit = limit, !.resume = IF paged THEN messages.cursor ELSE 0]
  BY DEF PrintMessages
<1>7. got \in Seq(Nat) /\ Len(got) = m /\ DOMAIN got = 1 .. m /\ \A i \in 1 .. m : got[i] = from + i
  <2>1. /\ Numbers(from, m) \in Seq(Nat) /\ Len(Numbers(from, m)) = m /\ DOMAIN Numbers(from, m) = 1 .. m
        /\ \A i \in 1 .. m : Numbers(from, m)[i] = from + i
    BY <1>4, NumbersAre
  <2>2. got = Numbers(from, m)
    BY <1>3
  <2> HIDE DEF got
  <2> QED
    BY <2>1, <2>2
<1> HIDE DEF got
<1>8. kept = got
  <2>1. Min({limit, Len(got)}) = Len(got)
    <3>1. Min({limit, m}) = IF limit <= m THEN limit ELSE m
      BY <1>4, MinOfTwo
    <3> QED
      BY <1>3, <1>4, <1>7, <3>1
  <2>2. SubSeq(got, 1, Len(got)) = got
    BY <1>7, PrefixNone
  <2> QED
    BY <2>1, <2>2
<1> HIDE DEF kept
<1>9. /\ out \in Seq(ToldTraces) /\ Len(out) = m
      /\ \A i \in 1 .. m : out[i] = TraceTold(from + i, messages.previews)
  <2>1. out = [i \in 1 .. m |-> TraceTold(from + i, messages.previews)]
    BY <1>7, <1>8
  <2>2. \A i \in 1 .. m : from + i \in DOMAIN matches
    <3>1. DOMAIN matches = 1 .. len
      BY <1>1 DEF MessageShape
    <3> QED
      BY <1>3, <1>4, <3>1
  <2>3. \A i \in 1 .. m : TraceTold(from + i, messages.previews) \in ToldTraces
    BY <1>4, <2>2 DEF ToldTraces
  <2> HIDE DEF out
  <2> QED
    BY <2>1, <2>3
<1> HIDE DEF out
<1>10. /\ now \in Seq(ToldTraces) /\ Len(now) = from + m
       /\ \A i \in 1 .. from : now[i] = traces[i]
       /\ \A i \in 1 .. m : now[from + i] = TraceTold(from + i, messages.previews)
  <2>1. traces \in Seq(ToldTraces) /\ out \in Seq(ToldTraces)
    BY <1>4, <1>9
  <2> HIDE DEF traces
  <2>2. /\ now \in Seq(ToldTraces) /\ Len(now) = Len(traces) + Len(out)
        /\ \A i \in 1 .. Len(traces) : now[i] = traces[i]
        /\ \A i \in 1 .. Len(out) : now[Len(traces) + i] = out[i]
    BY ONLY <2>1, ConcatIs
  <2> HIDE DEF now
  <2>3. Len(traces) = from
    BY <1>5 DEF traces
  <2> QED
    BY <1>9, <2>2, <2>3
<1> HIDE DEF now
<1>11. FirstAreTold(now)
  <2>1. ASSUME NEW i \in 1 .. from + m PROVE i <= len /\ \E previews \in SUBSET Nat : now[i] = TraceTold(i, previews)
    <3>1. CASE i <= from
      <4>1. i \in 1 .. from
        BY <3>1
      <4>2. now[i] = traces[i]
        BY <1>10, <4>1
      <4>3. i \in 1 .. Len(traces)
        BY <1>5, <4>1
      <4>4. FirstAreTold(traces)
        BY <1>1 DEF ListIsTold
      <4> QED
        BY <4>2, <4>3, <4>4 DEF FirstAreTold
    <3>2. CASE ~(i <= from)
      <4> DEFINE j == i - from
      <4>1. j \in 1 .. m /\ from + j = i
        BY <1>4, <3>2
      <4> HIDE DEF j
      <4>2. now[i] = TraceTold(i, messages.previews)
        BY <1>10, <4>1
      <4> QED
        BY <1>3, <1>4, <4>2
    <3> QED
      BY <3>1, <3>2
  <2> QED
    BY <1>10, <2>1 DEF FirstAreTold, len
<1> DEFINE of == IF paged THEN "page" ELSE "walk"
           resume == IF paged THEN messages.cursor ELSE 0
<1>12. told' = [told EXCEPT !.of = of, !.traces = now, !.limit = limit, !.resume = resume]
  BY <1>6
<1>13. of \in {"page", "walk"} /\ resume \in Nat
  BY <1>4
<1>14. of = "page" => IF resume = 0 THEN Len(now) = len ELSE Len(now) = resume
  <2>1. of = "page" => paged /\ resume = messages.cursor
    OBVIOUS
  <2> QED
    BY <1>3, <1>10, <2>1
<1>15. of = "walk" => Len(now) = Min({limit, len})
  <2>1. of = "walk" => ~paged
    OBVIOUS
  <2>2. ~paged => told.of = "none"
    BY <1>1
  <2>3. told.of = "none" => from = 0
    BY <1>1 DEF ListIsTold
  <2>4. Min({limit, len}) = IF limit <= len THEN limit ELSE len
    BY <1>4, MinOfTwo
  <2> HIDE DEF of, paged, limit, from, len
  <2>5. ASSUME ~paged PROVE m = IF limit <= len THEN limit ELSE len
    <3>1. from = 0 /\ (m = limit \/ from + m = len)
      BY <1>3, <2>2, <2>3, <2>5
    <3> QED
      BY <1>3, <1>4, <3>1
  <2>6. ~paged => Len(now) = m
    BY <1>4, <1>10, <2>2, <2>3
  <2> QED
    BY <2>1, <2>4, <2>5, <2>6
<1> HIDE DEF of, resume
<1>16. /\ told'.of = of /\ told'.traces = now /\ told'.resume = resume /\ told'.limit = limit /\ told'.calls = told.calls
       /\ told.calls \in Nat
  BY <1>1, <1>12 DEF MessageShape
<1>17. MessageShape'
  <2>1. told' \in [of : {"none", "walk", "page"}, traces : Seq(ToldTraces), limit : Nat, resume : Nat, calls : Nat]
    BY <1>1, <1>4, <1>10, <1>12, <1>13 DEF MessageShape
  <2>2. LargePage \in Nat \ {0} /\ 0 \in Nat /\ <<>> \in Seq(Nat) /\ {} \in SUBSET Nat
    BY MessageAssumption
  <2>3. Resting \in [pc : {"idle", "page", "previews", "print", "failed"}, in : MessageInputs \cup {Resting.in}, cursor : Nat,
                     maxPage : Nat \ {0}, remaining : Nat, got : Seq(Nat), previews : SUBSET Nat]
    BY <2>2 DEF Resting
  <2> QED
    BY <1>1, <2>1, <2>3, SameTold DEF MessageShape
<1>18. ListIsTold'
  <2>1. FirstAreTold(told.traces)'
    BY <1>1, <1>11, <1>16, SameTold DEF FirstAreTold
  <2>2. ~(of = "none") /\ ~(told'.calls = 0)
    BY <1>1, <1>13, <1>16
  <2>3. of = "walk" => Len(told'.traces) = Min({told'.limit, Len(matches')})
    BY <1>1, <1>15, <1>16
  <2>4. of = "page" => IF told'.resume = 0 THEN Len(told'.traces) = Len(matches') ELSE Len(told'.traces) = told'.resume
    BY <1>1, <1>14, <1>16
  <2> HIDE DEF limit, len
  <2> QED
    BY <1>16, <2>1, <2>2, <2>3, <2>4 DEF ListIsTold
<1>19. messages'.pc = "idle"
  BY <1>1 DEF Resting
<1> QED
  BY <1>17, <1>18, <1>19 DEF MessageInv, RunGoesOn

LEMMA MessageSteps ==
  ASSUME MessageInv, [MessageNext]_messageVars
  PROVE  MessageInv'
<1>1. ASSUME NEW in \in MessageInputs, StartMessages(in) PROVE MessageInv'
  BY <1>1, StartGoesOn
<1>2. ASSUME FetchBatch PROVE MessageInv'
  BY <1>2, FetchGoesOn
<1>3. ASSUME RefusedBatch \/ FailBatch \/ FetchRootPreviews PROVE MessageInv'
  BY <1>3, OthersGoOn
<1>4. ASSUME PrintMessages PROVE MessageInv'
  BY <1>4, PrintGoesOn
<1>5. ASSUME UNCHANGED messageVars PROVE MessageInv'
  <2>1. matches' = matches /\ messages' = messages /\ told' = told
    BY <1>5 DEF messageVars
  <2>2. MessageShape'
    BY <2>1, SameTold DEF MessageInv, MessageShape
  <2>3. ListIsTold'
    BY <2>1, SameTold DEF MessageInv, ListIsTold, FirstAreTold
  <2>4. RunGoesOn'
    BY <2>1 DEF MessageInv, RunGoesOn, Come
  <2> QED
    BY <2>2, <2>3, <2>4 DEF MessageInv
<1> QED
  BY <1>1, <1>2, <1>3, <1>4, <1>5 DEF MessageNext

LEMMA MessagesHold == MessageInv => TracesAreTold
<1> SUFFICES ASSUME MessageInv PROVE TracesAreTold
  OBVIOUS
<1> DEFINE traces == told.traces
           numbers == [i \in DOMAIN traces |-> traces[i].trace]
           n == Len(traces)
<1>1. /\ traces \in Seq(ToldTraces) /\ n \in Nat /\ DOMAIN traces = 1 .. n /\ matches \in Seq(Seq(Groups))
  BY DEF MessageInv, MessageShape
<1>2. /\ FirstAreTold(traces)
      /\ told.of = "walk" => n = Min({told.limit, Len(matches)})
      /\ told.of = "page" /\ told.resume = 0 => n = Len(matches)
  BY DEF MessageInv, ListIsTold
<1> HIDE DEF traces
<1>3. ASSUME NEW i \in 1 .. n
      PROVE  /\ i \in 1 .. Len(matches) /\ traces[i].trace = i
             /\ traces[i].trajectory = BuildTraceTrajectory(matches[i])
             /\ traces[i].digest = BuildTraceDigest(matches[i])
  <2>1. PICK previews \in SUBSET Nat : traces[i] = TraceTold(i, previews)
    BY <1>2 DEF FirstAreTold
  <2>2. i <= Len(matches)
    BY <1>2 DEF FirstAreTold
  <2> QED
    BY <1>1, <2>1, <2>2 DEF TraceTold
<1>4. numbers = [i \in 1 .. n |-> i]
  BY <1>1, <1>3
<1>5. Len(numbers) = n
  <2>1. [i \in 1 .. n |-> i] \in Seq(Nat) /\ Len([i \in 1 .. n |-> i]) = n
    BY <1>1
  <2> QED
    BY <1>4, <2>1
<1>6. ASSUME NEW t \in ToSet(traces)
      PROVE  ViewsAgree(t.trajectory, t.digest.index, Len(matches[t.trace]))
  <2>1. PICK i \in 1 .. n : t = traces[i]
    BY <1>1 DEF ToSet
  <2>2. matches[i] \in Seq(Groups)
    BY <1>1, <1>3
  <2>3. ViewsAgree(BuildTraceTrajectory(matches[i]), BuildTraceDigest(matches[i]).index, Len(matches[i]))
    BY <2>2, TraceViews
  <2> QED
    BY <1>3, <2>1, <2>3
<1> HIDE DEF numbers, n
<1>7. /\ numbers = [i \in 1 .. Len(numbers) |-> i]
      /\ told.of = "walk" => Len(numbers) = Min({told.limit, Len(matches)})
      /\ told.of = "page" /\ told.resume = 0 => Len(numbers) = Len(matches)
  BY <1>2, <1>4, <1>5
<1>8. \A t \in ToSet(told.traces) : ViewsAgree(t.trajectory, t.digest.index, Len(matches[t.trace]))
  BY <1>6 DEF traces
<1> QED
  BY <1>7, <1>8 DEF TracesAreTold, ViewsAgree, numbers, traces

\* However pages are cut short and whenever a server makes a walk take smaller ones,
\* a walk tells the latest traces that match, as many as its limit, and pages that
\* follow each other's cursor a prefix of the list; and the two views of each trace
\* agree.
THEOREM MessagesAreTold == MessageSpec => []TracesAreTold
<1>1. MessageInit => MessageInv
  BY MessageStarts
<1>2. MessageInv /\ [MessageNext]_messageVars => MessageInv'
  BY MessageSteps
<1>3. MessageInv => TracesAreTold
  BY MessagesHold
<1> QED
  BY <1>1, <1>2, <1>3, PTL DEF MessageSpec

\* The conversations of many traces and those of a thread, read side by side, are
\* told as they were.
THEOREM ConversationsAreTrue == MessageSpec /\ ThreadSpec => []ConversationsAreTold
<1>1. TracesAreTold /\ ThreadIsTold => ConversationsAreTold
  BY DEF ConversationsAreTold
<1> QED
  BY <1>1, MessagesAreTold, ThreadsAreTold, PTL
=============================================================================
