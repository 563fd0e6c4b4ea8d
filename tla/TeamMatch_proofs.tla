-------------------------- MODULE TeamMatch_proofs --------------------------
(***************************************************************************)
(* What holds of TeamMatch for every team, plan and reply of the language  *)
(* model, and however often accounts and allocations change meanwhile.     *)
(*                                                                         *)
(* The loops of the code that append what they keep, and FlattenSeq, are   *)
(* recursive functions over the length of a sequence.  What they return is *)
(* proved by induction: the lengths for which a claim holds are a set, and *)
(* a set that has 0 and with every number the next has all of them.        *)
(***************************************************************************)
EXTENDS TeamMatch, TLAPS, FiniteSetTheorems, WellFoundedInduction

-----------------------------------------------------------------------------
(***************************************************************************)
(* Least elements, for induction: a claim that fails for some number fails *)
(* for a least one.                                                        *)
(***************************************************************************)
LEMMA LeastExists ==
  ASSUME NEW S, S \subseteq Nat, S # {}
  PROVE  \E i \in S : \A j \in S : i <= j
<1>1. PICK i \in S : \A j \in S : ~ (<<j, i>> \in OpToRel(<, Nat))
  BY NatLessThanWellFounded, WFMin, Zenon
<1>2. \A j \in S : ~ (j < i)
  BY <1>1 DEF OpToRel
<1> QED
  BY <1>2

\* A set of naturals that has 0 and, with every number below N, the next one.
LEMMA Climb ==
  ASSUME NEW N \in Nat, NEW S, 0 \in S, \A n \in 0 .. N - 1 : n \in S => n + 1 \in S
  PROVE  0 .. N \subseteq S
<1> SUFFICES ASSUME 0 .. N \ S # {} PROVE FALSE
  OBVIOUS
<1> DEFINE T == 0 .. N \ S
<1>0. T \subseteq Nat /\ T # {}
  OBVIOUS
<1> HIDE DEF T
<1>1. PICK n \in T : \A m \in T : n <= m
  BY <1>0, LeastExists
<1> USE DEF T
<1>2. n # 0 /\ n - 1 \in 0 .. N - 1 /\ n - 1 \in S
  BY <1>1
<1> QED
  BY <1>1, <1>2

-----------------------------------------------------------------------------
(***************************************************************************)
(* The elements of a sequence that a loop keeps.                           *)
(***************************************************************************)

\* kept[i] is what is kept of the first i elements.
ArePrefixes(kept, s, K, N) ==
  kept = [i \in 0 .. N |-> IF i = 0 THEN << >>
                           ELSE IF i \in K THEN Append(kept[i - 1], s[i])
                           ELSE kept[i - 1]]

KeptPrefixes(s, K, N) == CHOOSE kept : ArePrefixes(kept, s, K, N)

LEMMA UnfoldPrefixes ==
  ASSUME NEW f, NEW s, NEW K, NEW N \in Nat, ArePrefixes(f, s, K, N)
  PROVE  /\ DOMAIN f = 0 .. N
         /\ f[0] = << >>
         /\ \A i \in 1 .. N : f[i] = IF i \in K THEN Append(f[i - 1], s[i]) ELSE f[i - 1]
<1> DEFINE g == [i \in 0 .. N |-> IF i = 0 THEN << >>
                                  ELSE IF i \in K THEN Append(f[i - 1], s[i])
                                  ELSE f[i - 1]]
<1>1. /\ DOMAIN g = 0 .. N
      /\ g[0] = << >>
      /\ \A i \in 1 .. N : g[i] = IF i \in K THEN Append(f[i - 1], s[i]) ELSE f[i - 1]
  OBVIOUS
<1>2. f = g
  BY DEF ArePrefixes
<1> HIDE DEF g
<1> QED
  BY <1>1, <1>2

LEMMA PrefixesExist ==
  ASSUME NEW s, NEW K, NEW N \in Nat
  PROVE  LET f == KeptPrefixes(s, K, N)
         IN  /\ DOMAIN f = 0 .. N
             /\ f[0] = << >>
             /\ \A i \in 1 .. N : f[i] = IF i \in K THEN Append(f[i - 1], s[i]) ELSE f[i - 1]
<1> DEFINE S == {n \in Nat : \E f : ArePrefixes(f, s, K, n)}
<1>1. 0 \in S
  <2> DEFINE f == [i \in 0 .. 0 |-> << >>]
  <2>1. ArePrefixes(f, s, K, 0)
    BY DEF ArePrefixes
  <2> QED
    BY <2>1
<1>2. ASSUME NEW n \in 0 .. N - 1, n \in S PROVE n + 1 \in S
  <2>1. PICK f : ArePrefixes(f, s, K, n)
    BY <1>2
  <2>2. \A i \in 1 .. n : f[i] = IF i \in K THEN Append(f[i - 1], s[i]) ELSE f[i - 1]
    BY <2>1, UnfoldPrefixes
  <2> DEFINE g == [i \in 0 .. n + 1 |->
                     IF i <= n THEN f[i]
                     ELSE IF i \in K THEN Append(f[n], s[i]) ELSE f[n]]
             h == [i \in 0 .. n + 1 |-> IF i = 0 THEN << >>
                                        ELSE IF i \in K THEN Append(g[i - 1], s[i])
                                        ELSE g[i - 1]]
  <2>3. ASSUME NEW i \in 0 .. n + 1 PROVE g[i] = h[i]
    <3>1. CASE i = n + 1
      BY <3>1
    <3>2. CASE i = 0
      BY <2>1, <3>2, UnfoldPrefixes
    <3>3. CASE i \in 1 .. n
      <4>1. g[i] = f[i] /\ g[i - 1] = f[i - 1]
        BY <3>3
      <4>2. f[i] = IF i \in K THEN Append(f[i - 1], s[i]) ELSE f[i - 1]
        BY <2>2, <3>3
      <4>3. h[i] = IF i \in K THEN Append(g[i - 1], s[i]) ELSE g[i - 1]
        BY <3>3
      <4> QED
        BY <4>1, <4>2, <4>3
    <3> QED
      BY <3>1, <3>2, <3>3
  <2>4. g = h
    BY <2>3
  <2>5. n + 1 \in Nat /\ ArePrefixes(g, s, K, n + 1)
    BY <2>4 DEF ArePrefixes
  <2> QED
    BY <2>5
<1> HIDE DEF S
<1>3. N \in S
  BY <1>1, <1>2, Climb
<1> USE DEF S
<1>4. PICK f : ArePrefixes(f, s, K, N)
  BY <1>3
<1>5. ArePrefixes(KeptPrefixes(s, K, N), s, K, N)
  BY <1>4 DEF KeptPrefixes
<1> QED
  BY <1>5, UnfoldPrefixes

LEMMA KeptIsLastPrefix ==
  ASSUME NEW s, NEW K
  PROVE  Kept(s, K) = KeptPrefixes(s, K, Len(s))[Len(s)]
BY DEF Kept, KeptPrefixes, ArePrefixes

\* What is kept are elements from the places in K, and nothing else.
LEMMA KeptElements ==
  ASSUME NEW S, NEW s \in Seq(S), NEW K
  PROVE  /\ Kept(s, K) \in Seq(S)
         /\ \A m \in DOMAIN Kept(s, K) : \E i \in K \cap DOMAIN s : Kept(s, K)[m] = s[i]
<1> DEFINE N == Len(s)
           f == KeptPrefixes(s, K, N)
           Fine(q) == /\ q \in Seq(S)
                      /\ \A m \in DOMAIN q : \E i \in K \cap DOMAIN s : q[m] = s[i]
           T == {i \in Nat : Fine(f[i])}
<1>1. N \in Nat /\ DOMAIN s = 1 .. N
  OBVIOUS
<1>2. /\ f[0] = << >>
      /\ \A i \in 1 .. N : f[i] = IF i \in K THEN Append(f[i - 1], s[i]) ELSE f[i - 1]
  BY <1>1, PrefixesExist
<1> HIDE DEF f
<1>3. 0 \in T
  <2>1. << >> \in Seq(S) /\ DOMAIN << >> = {}
    OBVIOUS
  <2>2. Fine(f[0])
    BY <1>2, <2>1
  <2> QED
    BY <2>2
<1>4. ASSUME NEW n \in 0 .. N - 1, n \in T PROVE n + 1 \in T
  <2>1. n + 1 \in 1 .. N /\ (n + 1) - 1 = n /\ Fine(f[n])
    BY <1>1, <1>4
  <2>2. PICK q : q = f[n]
    OBVIOUS
  <2>3. s[n + 1] \in S /\ n + 1 \in DOMAIN s
    BY <1>1, <2>1
  <2>4. ASSUME n + 1 \in K PROVE Fine(Append(q, s[n + 1]))
    <3>1. Append(q, s[n + 1]) \in Seq(S)
      BY <2>1, <2>2, <2>3
    <3>2. ASSUME NEW m \in DOMAIN Append(q, s[n + 1])
          PROVE  \E i \in K \cap DOMAIN s : Append(q, s[n + 1])[m] = s[i]
      <4>1. Append(q, s[n + 1])[m] = IF m \in DOMAIN q THEN q[m] ELSE s[n + 1]
        BY <2>1, <2>2, <2>3
      <4>2. m \in DOMAIN q => \E i \in K \cap DOMAIN s : q[m] = s[i]
        BY <2>1, <2>2
      <4> QED
        BY <2>3, <2>4, <4>1, <4>2
    <3> QED
      BY <3>1, <3>2
  <2>5. f[n + 1] = IF n + 1 \in K THEN Append(q, s[n + 1]) ELSE q
    BY <1>2, <2>1, <2>2
  <2> HIDE DEF Fine
  <2>6. Fine(f[n + 1])
    BY <2>1, <2>2, <2>4, <2>5
  <2> QED
    BY <2>1, <2>6
<1> HIDE DEF T, N
<1>5. N \in T
  BY <1>1, <1>3, <1>4, Climb
<1>6. Kept(s, K) = f[N]
  BY KeptIsLastPrefix DEF f, N
<1> QED
  BY <1>5, <1>6 DEF T

\* If every place is in exactly one of K and L, nothing is lost and nothing doubled.
LEMMA KeptLengths ==
  ASSUME NEW S, NEW s \in Seq(S), NEW K, NEW L, \A i \in DOMAIN s : i \in K <=> i \notin L
  PROVE  Len(Kept(s, K)) + Len(Kept(s, L)) = Len(s)
<1> DEFINE N == Len(s)
           f == KeptPrefixes(s, K, N)
           g == KeptPrefixes(s, L, N)
           Split(p, q, i) == p \in Seq(S) /\ q \in Seq(S) /\ Len(p) + Len(q) = i
           T == {i \in Nat : Split(f[i], g[i], i)}
<1>1. N \in Nat /\ DOMAIN s = 1 .. N
  OBVIOUS
<1>2. /\ f[0] = << >>
      /\ \A i \in 1 .. N : f[i] = IF i \in K THEN Append(f[i - 1], s[i]) ELSE f[i - 1]
  BY <1>1, PrefixesExist
<1>3. /\ g[0] = << >>
      /\ \A i \in 1 .. N : g[i] = IF i \in L THEN Append(g[i - 1], s[i]) ELSE g[i - 1]
  BY <1>1, PrefixesExist
<1> HIDE DEF f, g
<1>4. 0 \in T
  <2>1. << >> \in Seq(S) /\ Len(<< >>) = 0
    OBVIOUS
  <2>2. Split(f[0], g[0], 0)
    BY <1>2, <1>3, <2>1
  <2> HIDE DEF Split
  <2> QED
    BY <2>2
<1>5. ASSUME NEW n \in 0 .. N - 1, n \in T PROVE n + 1 \in T
  <2>1. n \in Nat /\ n + 1 \in 1 .. N /\ (n + 1) - 1 = n
    BY <1>1
  <2>2. PICK p, q : p = f[n] /\ q = g[n]
    OBVIOUS
  <2>3. p \in Seq(S) /\ q \in Seq(S) /\ Len(p) + Len(q) = n
    BY <1>5, <2>2
  <2>4. s[n + 1] \in S /\ n + 1 \in DOMAIN s
    BY <1>1, <2>1
  <2>5. /\ f[n + 1] = IF n + 1 \in K THEN Append(p, s[n + 1]) ELSE p
        /\ g[n + 1] = IF n + 1 \in L THEN Append(q, s[n + 1]) ELSE q
    BY <1>2, <1>3, <2>1, <2>2
  <2>6. ASSUME NEW e \in S
        PROVE  Split(Append(p, e), q, n + 1) /\ Split(p, Append(q, e), n + 1)
    <3>1. /\ Append(p, e) \in Seq(S) /\ Len(Append(p, e)) = Len(p) + 1
          /\ Append(q, e) \in Seq(S) /\ Len(Append(q, e)) = Len(q) + 1
      BY <2>3
    <3>2. Len(p) \in Nat /\ Len(q) \in Nat
      BY <2>3
    <3> QED
      BY <2>1, <2>3, <3>1, <3>2
  <2> HIDE DEF Split
  <2>7. Split(f[n + 1], g[n + 1], n + 1)
    BY <2>4, <2>5, <2>6
  <2> QED
    BY <2>1, <2>7
<1> HIDE DEF T, N
<1>6. N \in T
  BY <1>1, <1>4, <1>5, Climb
<1>7. Kept(s, K) = f[N] /\ Kept(s, L) = g[N]
  BY KeptIsLastPrefix DEF f, g, N
<1>8. Len(Kept(s, K)) + Len(Kept(s, L)) = N
  BY <1>6, <1>7 DEF T
<1> QED
  BY <1>8 DEF N

-----------------------------------------------------------------------------
(***************************************************************************)
(* A sequence of sequences, put end to end.                                *)
(***************************************************************************)

\* flat[i] is the first i sequences put end to end.
AreJoined(flat, ss, N) ==
  flat = [i \in 1 .. N |-> IF i = 1 THEN ss[i] ELSE flat[i - 1] \o ss[i]]

Joined(ss, N) == CHOOSE flat : AreJoined(flat, ss, N)

LEMMA UnfoldJoined ==
  ASSUME NEW f, NEW ss, NEW N \in Nat \ {0}, AreJoined(f, ss, N)
  PROVE  f[1] = ss[1] /\ \A i \in 2 .. N : f[i] = f[i - 1] \o ss[i]
<1> DEFINE g == [i \in 1 .. N |-> IF i = 1 THEN ss[i] ELSE f[i - 1] \o ss[i]]
<1>1. g[1] = ss[1] /\ \A i \in 2 .. N : g[i] = f[i - 1] \o ss[i]
  <2>1. \A i \in 2 .. N : i \in 1 .. N /\ i # 1
    OBVIOUS
  <2>2. 1 \in 1 .. N
    OBVIOUS
  <2> QED
    BY <2>1, <2>2
<1>2. f = g
  BY DEF AreJoined
<1> HIDE DEF g
<1> QED
  BY <1>1, <1>2

LEMMA JoinedExist ==
  ASSUME NEW ss, NEW N \in Nat \ {0}
  PROVE  LET f == Joined(ss, N)
         IN  f[1] = ss[1] /\ \A i \in 2 .. N : f[i] = f[i - 1] \o ss[i]
<1> DEFINE S == {n \in Nat : \E f : AreJoined(f, ss, n + 1)}
<1>1. 0 \in S
  <2> DEFINE f == [i \in 1 .. 1 |-> ss[i]]
  <2>1. AreJoined(f, ss, 0 + 1)
    BY DEF AreJoined
  <2> QED
    BY <2>1
<1>2. ASSUME NEW n \in 0 .. (N - 1) - 1, n \in S PROVE n + 1 \in S
  <2>1. PICK f : AreJoined(f, ss, n + 1)
    BY <1>2
  <2>2. f[1] = ss[1] /\ \A i \in 2 .. n + 1 : f[i] = f[i - 1] \o ss[i]
    <3>1. n + 1 \in Nat \ {0}
      OBVIOUS
    <3> QED
      BY <2>1, <3>1, UnfoldJoined
  <2> DEFINE g == [i \in 1 .. (n + 1) + 1 |-> IF i <= n + 1 THEN f[i] ELSE f[n + 1] \o ss[i]]
             h == [i \in 1 .. (n + 1) + 1 |-> IF i = 1 THEN ss[i] ELSE g[i - 1] \o ss[i]]
  <2>3. ASSUME NEW i \in 1 .. (n + 1) + 1 PROVE g[i] = h[i]
    <3>0. n \in Nat
      OBVIOUS
    <3>1. CASE i = n + 2
      <4>1. /\ i \in 1 .. (n + 1) + 1 /\ ~ (i <= n + 1) /\ i # 1
            /\ i - 1 = n + 1 /\ n + 1 \in 1 .. (n + 1) + 1 /\ n + 1 <= n + 1
        BY <3>0, <3>1
      <4>2. g[i] = f[n + 1] \o ss[i] /\ g[n + 1] = f[n + 1]
        BY <4>1
      <4>3. h[i] = g[i - 1] \o ss[i]
        BY <4>1
      <4> QED
        BY <4>1, <4>2, <4>3
    <3>2. CASE i = 1
      BY <2>2, <3>2
    <3>3. CASE i \in 2 .. n + 1
      <4>1. g[i] = f[i] /\ g[i - 1] = f[i - 1]
        BY <3>3
      <4>2. f[i] = f[i - 1] \o ss[i]
        BY <2>2, <3>3
      <4>3. h[i] = g[i - 1] \o ss[i]
        <5>1. i \in 1 .. (n + 1) + 1 /\ i # 1
          BY <3>3
        <5> QED
          BY <5>1
      <4> QED
        BY <4>1, <4>2, <4>3
    <3> QED
      BY <3>1, <3>2, <3>3
  <2>4. g = h
    BY <2>3
  <2>5. n + 1 \in Nat /\ AreJoined(g, ss, (n + 1) + 1)
    <3>1. n + 1 \in Nat
      OBVIOUS
    <3> QED
      BY <2>4, <3>1 DEF AreJoined
  <2> QED
    BY <2>5
<1>3. N - 1 \in Nat /\ (N - 1) + 1 = N
  OBVIOUS
<1> HIDE DEF S
<1>4. N - 1 \in S
  BY <1>1, <1>2, <1>3, Climb
<1> USE DEF S
<1>5. PICK f : AreJoined(f, ss, N)
  BY <1>3, <1>4
<1>6. AreJoined(Joined(ss, N), ss, N)
  BY <1>5 DEF Joined
<1> QED
  BY <1>6, UnfoldJoined

LEMMA FlattenType ==
  ASSUME NEW S, NEW ss \in Seq(Seq(S))
  PROVE  FlattenSeq(ss) \in Seq(S)
<1> DEFINE N == Len(ss)
           f == Joined(ss, N)
           T == {i \in Nat : f[i + 1] \in Seq(S)}
<1>1. N \in Nat /\ \A i \in 1 .. N : ss[i] \in Seq(S)
  OBVIOUS
<1>2. CASE N = 0
  <2>1. ss = << >> /\ FlattenSeq(ss) = ss
    BY <1>2 DEF FlattenSeq
  <2>2. << >> \in Seq(S)
    OBVIOUS
  <2> QED
    BY <2>1, <2>2
<1>3. CASE N # 0
  <2>1. f[1] = ss[1] /\ \A i \in 2 .. N : f[i] = f[i - 1] \o ss[i]
    BY <1>1, <1>3, JoinedExist
  <2>2. FlattenSeq(ss) = f[N]
    BY <1>3 DEF FlattenSeq, Joined, AreJoined
  <2> HIDE DEF f
  <2>3. 0 \in T
    BY <1>1, <1>3, <2>1
  <2>4. ASSUME NEW n \in 0 .. (N - 1) - 1, n \in T PROVE n + 1 \in T
    <3>1. n + 2 \in 2 .. N /\ n \in Nat /\ (n + 2) - 1 = n + 1 /\ (n + 1) + 1 = n + 2
      BY <1>1
    <3>2. f[n + 1] \in Seq(S) /\ ss[n + 2] \in Seq(S)
      BY <1>1, <2>4, <3>1
    <3>4. f[n + 2] = f[n + 1] \o ss[n + 2]
      BY <2>1, <3>1
    <3>3. f[n + 2] \in Seq(S)
      BY <3>2, <3>4
    <3> QED
      BY <3>1, <3>3
  <2> HIDE DEF T, N
  <2>5. PICK M \in Nat : M = N - 1 /\ M + 1 = N
    BY <1>1, <1>3
  <2>6. \A n \in 0 .. M - 1 : n \in T => n + 1 \in T
    BY <2>4, <2>5
  <2>7. 0 .. M \subseteq T
    BY <2>3, <2>6, Climb
  <2> QED
    BY <2>2, <2>5, <2>7 DEF T
<1> QED
  BY <1>2, <1>3
-----------------------------------------------------------------------------
(***************************************************************************)
(* The inductive invariant.                                                *)
(***************************************************************************)

IsSequence(s) == \E S : s \in Seq(S)

IsSlot(slot) ==
  /\ slot.headcount \in Nat \ {0}
  /\ DOMAIN slot.filters = FilterFields
  /\ slot.filters.min_free_hours \in (Nat \ {0}) \cup {Null}
  /\ \A tag \in Range(slot.filters.activity_tags) : IsTag(tag)

AnswerFields == {"slot", "position", "kind", "user", "percent", "reason"}

IsAnswer(answer) ==
  /\ answer = [f \in AnswerFields |-> answer[f]]
  /\ answer.slot \in DOMAIN plan
  /\ answer.kind \in {"ASSIGNED"} \cup Gaps

\* What each phase may rely on: the plan is there, its slots are counted, a seat is open.
Phases ==
  /\ phase \in {"idle", "parsing", "ranking"} => plan = << >>
  /\ phase \in {"idle", "parsing", "parsed"} => counts = << >>
  /\ phase \in {"idle", "parsing", "parsed", "counting"} => answers = << >>
  /\ phase \in {"idle", "ranking"} => matches = << >>
  /\ phase = "parsed" => plan # << >>
  /\ phase = "counting" => Len(counts) < Len(plan)
  /\ phase \in {"filling", "gap"} => Len(counts) = Len(plan) /\ OpenSlots # {}
  /\ phase \in {"explaining", "done"} => OpenSlots = {}

TypeInv ==
  /\ project \in [owner : Managers, open : BOOLEAN]
  /\ staff \in [Engineers -> [manager : Managers, active : BOOLEAN,
                              utilisation : Utilisations]]
  /\ phase \in Final \cup {"idle", "parsing", "parsed", "counting", "filling", "gap",
                           "explaining", "ranking"}
  /\ IsSequence(plan) /\ \A i \in DOMAIN plan : IsSlot(plan[i])
  /\ counts \in Seq(Nat) /\ Len(counts) <= Len(plan)
  /\ IsSequence(answers) /\ \A n \in DOMAIN answers : IsAnswer(answers[n])
  /\ IsSequence(matches)
  /\ requested \in Nat \cup {Null}
  /\ candidates \subseteq Engineers
  /\ changes \in 0 .. MaxChanges

\* The answers of a slot stand at the positions 1, 2, ..., each once, and are no more
\* than its seats.
Numbered ==
  /\ \A i \in DOMAIN plan :
       /\ Cardinality(Answered(i)) <= plan[i].headcount
       /\ {answers[n].position : n \in Answered(i)} = 1 .. Cardinality(Answered(i))
  /\ \A n, m \in DOMAIN answers :
       answers[n].slot = answers[m].slot /\ answers[n].position = answers[m].position
         => n = m

\* The gap was honest when it was entered, and nobody who fits is left over since.
HonestGap(n) ==
  LET filters == plan[answers[n].slot].filters
      skilled == {e \in Team : Matches(WithoutCapacity(filters), e)}
  IN  /\ Search(filters, Assigned) = {}
      /\ answers[n].kind = "SKILL_GAP" <=> skilled = {}

Honest ==
  changes = 0 =>
    /\ phase = "gap" => Search(plan[NextSlot].filters, Assigned) = {}
    /\ \A n \in DOMAIN answers \ Filled : HonestGap(n)

Ranked ==
  /\ changes = 0 => candidates \subseteq Qualified(requested)
  /\ \A n \in DOMAIN matches : matches[n].user \in candidates

Inv == TypeInv /\ Phases /\ Numbered /\ PickedOnce /\ Honest /\ Ranked

-----------------------------------------------------------------------------
(***************************************************************************)
(* Slots and answers.                                                      *)
(***************************************************************************)
LEMMA AppendLaw ==
  ASSUME NEW s, IsSequence(s), NEW e
  PROVE  /\ IsSequence(Append(s, e))
         /\ DOMAIN Append(s, e) = DOMAIN s \cup {Len(s) + 1}
         /\ Len(s) + 1 \notin DOMAIN s
         /\ Append(s, e)[Len(s) + 1] = e
         /\ \A n \in DOMAIN s : Append(s, e)[n] = s[n]
<1>1. PICK S : s \in Seq(S)
  BY DEF IsSequence
<1>2. s \in Seq(S \cup {e}) /\ e \in S \cup {e}
  BY <1>1
<1>3. Append(s, e) \in Seq(S \cup {e})
  BY <1>2
<1> QED
  BY <1>2, <1>3 DEF IsSequence

\* A search finds finitely many engineers.
LEMMA SearchIsFinite ==
  ASSUME NEW filters, NEW excluded
  PROVE  Cardinality(Search(filters, excluded)) \in Nat
<1>1. Search(filters, excluded) \subseteq Engineers
  BY DEF Search, Team
<1> QED
  BY <1>1, EngineersAssumption, FS_Subset, FS_CardinalityType

\* While a seat is open, the slot that is filled next is one of the open ones.
LEMMA NextSlotIsOpen ==
  ASSUME TypeInv, OpenSlots # {}, Len(counts) = Len(plan)
  PROVE  NextSlot \in OpenSlots /\ NextSlot \in DOMAIN plan
<1> DEFINE C == {counts[i] : i \in OpenSlots}
<1>1. OpenSlots \subseteq Nat /\ \A i \in OpenSlots : counts[i] \in Nat
  <2>1. PICK S : plan \in Seq(S)
    BY DEF TypeInv, IsSequence
  <2>2. DOMAIN plan = 1 .. Len(plan) /\ Len(plan) \in Nat
    BY <2>1
  <2>3. OpenSlots \subseteq 1 .. Len(plan)
    BY <2>2 DEF OpenSlots
  <2>4. \A i \in 1 .. Len(counts) : counts[i] \in Nat
    BY DEF TypeInv
  <2> QED
    BY <2>2, <2>3, <2>4
<1>2. C \subseteq Nat /\ C # {}
  BY <1>1
<1>3. PICK c \in C : \A d \in C : c <= d
  BY <1>2, LeastExists
<1> DEFINE I == {i \in OpenSlots : counts[i] = c}
<1>4. I \subseteq Nat /\ I # {}
  BY <1>1, <1>3
<1>5. PICK i \in I : \A j \in I : i <= j
  BY <1>4, LeastExists
<1>6. ASSUME NEW j \in OpenSlots \ {i}
      PROVE  counts[i] < counts[j] \/ (counts[i] = counts[j] /\ i < j)
  <2>1. counts[i] = c /\ c <= counts[j] /\ i \in Nat /\ j \in Nat /\ c \in Nat
        /\ counts[j] \in Nat
    BY <1>1, <1>2, <1>3, <1>5
  <2>2. counts[j] = c => i <= j
    BY <1>5
  <2> QED
    BY <2>1, <2>2
<1>7. NextSlot \in OpenSlots
  <2>1. i \in OpenSlots
    OBVIOUS
  <2> HIDE DEF C, I
  <2> QED
    BY <1>6, <2>1, Zenon DEF NextSlot
<1> QED
  BY <1>7 DEF OpenSlots

\* The answers of a slot are finitely many.
LEMMA AnsweredIsFinite ==
  ASSUME IsSequence(answers), NEW i
  PROVE  /\ IsFiniteSet(Answered(i)) /\ Cardinality(Answered(i)) \in Nat
         /\ Cardinality(Answered(i)) = 0 <=> Answered(i) = {}
<1>1. PICK S : answers \in Seq(S)
  BY DEF IsSequence
<1>2. Answered(i) \subseteq 1 .. Len(answers) /\ Len(answers) \in Nat
  BY <1>1 DEF Answered
<1>3. IsFiniteSet(1 .. Len(answers))
  BY <1>2, FS_Interval
<1>4. IsFiniteSet(Answered(i))
  BY <1>2, <1>3, FS_Subset
<1> QED
  BY <1>4, FS_CardinalityType, FS_EmptySet

-----------------------------------------------------------------------------
(***************************************************************************)
(* The steps of the request.                                               *)
(***************************************************************************)

\* Searches see the staff and nothing else that changes.
LEMMA SameStaff ==
  ASSUME UNCHANGED staff
  PROVE  /\ Team' = Team
         /\ \A e : FreeHours(e)' = FreeHours(e)
         /\ \A filters, e : Matches(filters, e)' = Matches(filters, e)
         /\ \A filters, excluded : Search(filters, excluded)' = Search(filters, excluded)
         /\ \A hours : Qualified(hours)' = Qualified(hours)
<1>1. Team' = Team
  BY DEF Team
<1>2. ASSUME NEW e PROVE FreeHours(e)' = FreeHours(e) /\ WorkStatus(e)' = WorkStatus(e)
  BY DEF FreeHours, WorkStatus
<1>3. ASSUME NEW filters, NEW e PROVE Matches(filters, e)' = Matches(filters, e)
  BY <1>2 DEF Matches, TagOverlap, RecentLabels
<1> QED
  BY <1>1, <1>2, <1>3 DEF Search, Qualified

LEMMA SameAnswers ==
  ASSUME Inv, UNCHANGED <<plan, answers>>
  PROVE  Numbered' /\ PickedOnce'
<1>1. ASSUME NEW i PROVE Answered(i)' = Answered(i)
  BY DEF Answered
<1>2. Filled' = Filled
  BY DEF Filled
<1>3. Numbered'
  BY <1>1 DEF Inv, Numbered
<1> QED
  BY <1>2, <1>3 DEF Inv, PickedOnce

\* A step that leaves the plan, the answers and the matches as they are.
LEMMA PhaseKeeps ==
  ASSUME Inv, UNCHANGED <<project, staff, plan, answers, matches, requested, candidates>>,
         counts' \in Seq(Nat), Len(counts') <= Len(plan), Phases',
         changes' \in 0 .. MaxChanges, changes' = 0 => changes = 0,
         phase' \in Final \cup {"idle", "parsing", "parsed", "counting", "filling", "gap",
                                "explaining", "ranking"},
         changes = 0 /\ phase' = "gap" => Search(plan[NextSlot'].filters, Assigned) = {}
  PROVE  Inv'
<1>1. TypeInv'
  BY DEF Inv, TypeInv, IsSlot, IsAnswer
<1>2. Numbered' /\ PickedOnce'
  BY SameAnswers
<1>3. Filled' = Filled /\ Assigned' = Assigned
  BY DEF Filled, Assigned
<1>4. Ranked'
  BY SameStaff DEF Inv, Ranked
<1>5. \A n : HonestGap(n)' = HonestGap(n)
  BY <1>3, SameStaff DEF HonestGap
<1>6. Honest'
  BY <1>3, <1>5, SameStaff DEF Inv, Honest
<1> QED
  BY <1>1, <1>2, <1>4, <1>6 DEF Inv

LEMMA WaitingKeeps ==
  ASSUME Inv, (\E blank \in BOOLEAN : SubmitTeamMatch(blank)) \/ LlmUnavailable
                \/ AssertOwnerAgain \/ NobodyEligible
  PROVE  Inv'
<1>1. UNCHANGED <<project, staff, changes, plan, counts, answers, requested, candidates,
                  matches>>
  BY DEF SubmitTeamMatch, LlmUnavailable, AssertOwnerAgain, NobodyEligible, Enter
<1>2. OpenSlots' = OpenSlots /\ NextSlot' = NextSlot /\ Assigned' = Assigned
  <2>1. OpenSlots' = OpenSlots
    BY <1>1 DEF OpenSlots, Answered
  <2> QED
    BY <1>1, <2>1 DEF NextSlot, Assigned, Filled
<1>3. /\ phase = "idle" => phase' \in {"parsing", "rejected"}
      /\ phase \in {"parsing", "ranking"} => phase' = "failed"
      /\ phase = "parsed" => phase' \in {"counting", "rejected"}
      /\ phase = "filling" => phase' = "gap" /\ Search(plan[NextSlot].filters, Assigned) = {}
      /\ phase \in {"idle", "parsing", "ranking", "parsed", "filling"}
  BY DEF SubmitTeamMatch, LlmUnavailable, AssertOwnerAgain, NobodyEligible, Enter
<1>4. phase = "parsed" => Len(counts) < Len(plan)
  <2> SUFFICES ASSUME phase = "parsed" PROVE Len(counts) < Len(plan)
    OBVIOUS
  <2>1. counts = << >> /\ plan # << >> /\ IsSequence(plan)
    BY DEF Inv, Phases, TypeInv
  <2>2. PICK S : plan \in Seq(S)
    BY <2>1 DEF IsSequence
  <2> QED
    BY <2>1, <2>2
<1>5. Phases'
  BY <1>1, <1>2, <1>3, <1>4 DEF Inv, Phases
<1>6. phase' \in Final \cup {"idle", "parsing", "parsed", "counting", "filling", "gap",
                             "explaining", "ranking"}
  BY <1>3 DEF Final
<1>7. phase' = "gap" => Search(plan[NextSlot'].filters, Assigned) = {}
  BY <1>2, <1>3
<1> QED
  BY <1>1, <1>5, <1>6, <1>7, PhaseKeeps DEF Inv, TypeInv

LEMMA CountKeeps ==
  ASSUME Inv, CountSlot
  PROVE  Inv'
<1> DEFINE found == Cardinality(Search(plan[Len(counts) + 1].filters, {}))
<1>1. /\ phase = "counting" /\ answers = << >> /\ Len(counts) < Len(plan)
      /\ counts \in Seq(Nat) /\ IsSequence(plan)
  BY DEF CountSlot, Inv, Phases, TypeInv
<1>2. PICK S : plan \in Seq(S)
  BY <1>1 DEF IsSequence
<1>3. UNCHANGED <<project, staff, changes, plan, answers, requested, candidates, matches>>
  BY DEF CountSlot, Enter
<1>4. found \in Nat
  BY SearchIsFinite
<1>5. /\ counts' = Append(counts, found)
      /\ phase' = IF Len(counts') = Len(plan) THEN "filling" ELSE "counting"
  BY DEF CountSlot, Enter
<1> HIDE DEF found
<1>6. counts' \in Seq(Nat) /\ Len(counts') = Len(counts) + 1 /\ Len(counts') <= Len(plan)
  BY <1>1, <1>2, <1>4, <1>5
<1>7. OpenSlots' # {}
  <2>1. 1 \in DOMAIN plan
    BY <1>1, <1>2
  <2>2. Answered(1)' = {}
    BY <1>1, <1>3 DEF Answered
  <2>3. plan[1].headcount > 0 /\ plan[1].headcount \in Nat
    BY <2>1 DEF Inv, TypeInv, IsSlot
  <2>4. Cardinality({}) = 0
    BY FS_EmptySet
  <2>5. 1 \in OpenSlots'
    BY <1>3, <2>1, <2>2, <2>3, <2>4 DEF OpenSlots
  <2> QED
    BY <2>5
<1>8. Phases'
  BY <1>1, <1>2, <1>3, <1>5, <1>6, <1>7 DEF Inv, Phases
<1> QED
  BY <1>3, <1>5, <1>6, <1>8, PhaseKeeps DEF Inv, TypeInv

\* What others commit: nobody asks afterwards whether the gaps were honest.
LEMMA OthersKeep ==
  ASSUME Inv, (\E e \in Engineers : ChangeStaff(e)) \/ ChangeProject
  PROVE  Inv'
<1>1. UNCHANGED request /\ changes' = changes + 1 /\ changes < MaxChanges
  BY DEF ChangeStaff, ChangeProject
<1>2. /\ project' \in [owner : Managers, open : BOOLEAN]
      /\ staff' \in [Engineers -> [manager : Managers, active : BOOLEAN,
                                   utilisation : Utilisations]]
  BY DEF ChangeStaff, ChangeProject, Inv, TypeInv
<1>3. changes' \in 0 .. MaxChanges /\ changes' # 0
  BY <1>1, ChangesAssumption DEF Inv, TypeInv
<1>4. TypeInv'
  BY <1>1, <1>2, <1>3 DEF Inv, TypeInv, request, IsSlot, IsAnswer
<1>5. OpenSlots' = OpenSlots
  BY <1>1 DEF OpenSlots, Answered, request
<1>6. Phases'
  BY <1>1, <1>5 DEF Inv, Phases, request
<1>7. Numbered' /\ PickedOnce'
  BY <1>1, SameAnswers DEF request
<1>8. Honest' /\ Ranked'
  BY <1>1, <1>3 DEF Inv, Honest, Ranked, request
<1> QED
  BY <1>4, <1>6, <1>7, <1>8 DEF Inv

\* A parsed plan has slots with a seat, whose filters ask for hours or for none.
LEMMA ParsedPlanIsUsable ==
  ASSUME NEW reply \in Replies
  PROVE  /\ IsSequence(ParsedPlan(reply))
         /\ \A i \in DOMAIN ParsedPlan(reply) : IsSlot(ParsedPlan(reply)[i])
<1> DEFINE K == {n \in DOMAIN reply : UsableSlot(reply[n])}
           usable == Kept(reply, K)
           slot(i) == [usable[i] EXCEPT !.filters = Cleaned(@)]
<1>1. reply \in Seq(Range(reply)) /\ \A n \in DOMAIN reply : IsItem(reply[n])
  BY RepliesAssumption DEF Range
<1>2. ParsedPlan(reply) = [i \in DOMAIN usable |-> slot(i)]
  BY DEF ParsedPlan
<1> HIDE DEF K
<1>3. /\ usable \in Seq(Range(reply))
      /\ \A i \in DOMAIN usable : \E n \in K \cap DOMAIN reply : usable[i] = reply[n]
  BY <1>1, KeptElements
<1> HIDE DEF usable
<1> USE DEF K
<1>4. ASSUME NEW i \in DOMAIN usable PROVE IsSlot(slot(i))
  <2>1. PICK item : item = usable[i] /\ IsItem(item) /\ UsableSlot(item)
    BY <1>1, <1>3
  <2>2. slot(i).headcount = item.headcount /\ slot(i).filters = Cleaned(item.filters)
    BY <2>1 DEF IsItem
  <2> HIDE DEF slot, K
  <2>3. PICK filters : filters = item.filters
    OBVIOUS
  <2>4. DOMAIN filters = FilterFields /\ filters.min_free_hours \in Int \cup {Null}
    BY <2>1, <2>3 DEF IsItem, UsableSlot
  <2>5. /\ DOMAIN Cleaned(filters) = FilterFields
        /\ Cleaned(filters).min_free_hours \in (Nat \ {0}) \cup {Null}
    BY <2>4 DEF Cleaned, WithoutCapacity, FilterFields
  <2>6. \A tag \in Range(Cleaned(filters).activity_tags) : IsTag(tag)
    <3>1. Cleaned(filters).activity_tags = filters.activity_tags
      BY <2>4 DEF Cleaned, WithoutCapacity, FilterFields
    <3> QED
      BY <2>1, <2>3, <3>1 DEF IsItem, UsableSlot
  <2>7. item.headcount \in Nat \ {0}
    <3>1. item.headcount \in Int /\ item.headcount > 0
      BY <2>1 DEF IsItem, UsableSlot
    <3> QED
      BY <3>1
  <2> QED
    BY <2>2, <2>3, <2>5, <2>6, <2>7 DEF IsSlot
<1>5. IsSequence(ParsedPlan(reply))
  <2>1. DOMAIN usable = 1 .. Len(usable) /\ Len(usable) \in Nat
    BY <1>3
  <2>2. [i \in 1 .. Len(usable) |-> slot(i)] \in Seq({slot(i) : i \in DOMAIN usable})
    BY <2>1
  <2> QED
    BY <1>2, <2>1, <2>2 DEF IsSequence
<1> QED
  BY <1>2, <1>4, <1>5

LEMMA ParseKeeps ==
  ASSUME Inv, NEW reply \in Replies, ParsePlan(reply)
  PROVE  Inv'
<1>1. /\ phase = "parsing" /\ phase' = "parsed" /\ plan' = ParsedPlan(reply) /\ plan' # << >>
      /\ UNCHANGED <<project, staff, changes, counts, answers, requested, candidates, matches>>
  BY DEF ParsePlan, Enter
<1>2. counts = << >> /\ answers = << >>
  BY <1>1 DEF Inv, Phases
<1>3. /\ IsSequence(plan') /\ \A i \in DOMAIN plan' : IsSlot(plan'[i])
      /\ Len(counts') <= Len(plan')
  <2>1. IsSequence(plan') /\ \A i \in DOMAIN plan' : IsSlot(plan'[i])
    BY <1>1, ParsedPlanIsUsable
  <2>2. PICK S : plan' \in Seq(S)
    BY <2>1 DEF IsSequence
  <2>3. Len(plan') \in Nat /\ Len(counts') = 0
    BY <1>1, <1>2, <2>2
  <2> QED
    BY <2>1, <2>3
<1>4. TypeInv'
  BY <1>1, <1>2, <1>3 DEF Inv, TypeInv, IsSlot, IsAnswer
<1>5. Phases'
  BY <1>1 DEF Inv, Phases
<1>6. \A i \in DOMAIN plan' : Answered(i)' = {}
  BY <1>1, <1>2 DEF Answered
<1>7. Numbered'
  <2>1. \A i \in DOMAIN plan' : plan'[i].headcount \in Nat
    BY <1>3 DEF IsSlot
  <2>2. Cardinality({}) = 0 /\ 1 .. 0 = {}
    BY FS_EmptySet
  <2>3. DOMAIN answers' = {}
    BY <1>1, <1>2
  <2>4. ASSUME NEW i \in DOMAIN plan'
        PROVE  /\ Cardinality(Answered(i)') <= plan'[i].headcount
               /\ {answers'[n].position : n \in Answered(i)'} = 1 .. Cardinality(Answered(i)')
    BY <1>6, <2>1, <2>2
  <2> QED
    BY <2>3, <2>4 DEF Numbered
<1>8. PickedOnce' /\ Honest'
  BY <1>1, <1>2 DEF PickedOnce, Honest, Filled
<1>9. Ranked'
  BY <1>1, SameStaff DEF Inv, Ranked
<1> QED
  BY <1>4, <1>5, <1>7, <1>8, <1>9 DEF Inv

LEMMA SkillMatchKeeps ==
  ASSUME Inv, NEW hours \in RequestedHours, NEW blank \in BOOLEAN,
         SubmitSkillMatch(hours, blank)
  PROVE  Inv'
<1> DEFINE parsed == IF hours = 0 THEN Null ELSE hours
<1>1. /\ phase = "idle" /\ requested' = parsed
      /\ candidates' \in {{}, Qualified(parsed)}
      /\ phase' \in {"rejected", "done", "ranking"}
      /\ UNCHANGED <<project, staff, changes, plan, counts, answers, matches>>
  BY DEF SubmitSkillMatch, Enter
<1>2. requested' \in Nat \cup {Null}
  BY <1>1, RequestedAssumption
<1> HIDE DEF parsed
<1>3. Qualified(parsed) \subseteq Engineers
  BY DEF Qualified, Team
<1>4. TypeInv'
  BY <1>1, <1>2, <1>3 DEF Inv, TypeInv, IsSlot, IsAnswer, Final
<1>5. plan = << >> /\ counts = << >> /\ answers = << >> /\ matches = << >>
  BY <1>1 DEF Inv, Phases
<1>6. OpenSlots' = {}
  BY <1>1, <1>5 DEF OpenSlots
<1>7. Phases'
  BY <1>1, <1>5, <1>6 DEF Phases
<1>8. Numbered' /\ PickedOnce'
  BY <1>1, SameAnswers
<1>9. Honest'
  BY <1>1, <1>5 DEF Honest
<1>10. Ranked'
  <2>1. Qualified(parsed)' = Qualified(parsed)
    BY <1>1, SameStaff DEF parsed
  <2>2. Qualified(requested)' = Qualified(parsed)
    BY <1>1, <2>1 DEF Qualified, parsed
  <2> QED
    BY <1>1, <1>5, <2>2 DEF Ranked
<1> QED
  BY <1>4, <1>7, <1>8, <1>9, <1>10 DEF Inv

LEMMA RankKeeps ==
  ASSUME Inv, NEW ranking \in Rankings, RankCandidates(ranking)
  PROVE  Inv'
<1> DEFINE K == {n \in DOMAIN ranking : ranking[n].user \in candidates /\ ranking[n].complete}
<1>1. /\ phase = "ranking" /\ phase' = "done" /\ matches' = Kept(ranking, K)
      /\ UNCHANGED <<project, staff, changes, plan, counts, answers, requested, candidates>>
  BY DEF RankCandidates, UsableMatches, Enter
<1> HIDE DEF K
<1>2. /\ matches' \in Seq(Range(ranking))
      /\ \A n \in DOMAIN matches' :
           \E i \in K \cap DOMAIN ranking : matches'[n] = ranking[i]
  BY <1>1, RankingsAssumption, KeptElements
<1>3. \A n \in DOMAIN matches' : matches'[n].user \in candidates
  BY <1>2 DEF K
<1>4. IsSequence(matches')
  BY <1>2 DEF IsSequence
<1>5. TypeInv'
  BY <1>1, <1>4 DEF Inv, TypeInv, IsSlot, IsAnswer, Final
<1>6. plan = << >> /\ answers = << >>
  <2>1. plan = << >>
    BY <1>1 DEF Inv, Phases
  <2>2. DOMAIN plan = {} /\ \A n \in DOMAIN answers : answers[n].slot \in DOMAIN plan
    BY <2>1 DEF Inv, TypeInv, IsAnswer
  <2>3. PICK S : answers \in Seq(S)
    BY DEF Inv, TypeInv, IsSequence
  <2>4. DOMAIN answers = 1 .. Len(answers) /\ Len(answers) \in Nat
    BY <2>3
  <2>5. Len(answers) = 0
    BY <2>2, <2>4
  <2> QED
    BY <2>1, <2>3, <2>5
<1>7. OpenSlots' = {}
  BY <1>1, <1>6 DEF OpenSlots
<1>8. Phases'
  BY <1>1, <1>7 DEF Inv, Phases
<1>9. Numbered' /\ PickedOnce'
  BY <1>1, SameAnswers
<1>10. Honest'
  BY <1>1, <1>6 DEF Honest
<1>11. Ranked'
  BY <1>1, <1>3, SameStaff DEF Inv, Ranked
<1> QED
  BY <1>5, <1>8, <1>9, <1>10, <1>11 DEF Inv

\* A reason replaces a reason, and nothing else of an answer.
LEMMA ExplainKeeps ==
  ASSUME Inv, NEW keys, Explain(keys)
  PROVE  Inv'
<1>1. /\ phase = "explaining" /\ phase' = "done"
      /\ DOMAIN answers' = DOMAIN answers
      /\ \A n \in DOMAIN answers :
           answers'[n] = answers[n] \/ answers'[n] = [answers[n] EXCEPT !.reason = "llm"]
      /\ UNCHANGED <<project, staff, changes, plan, counts, requested, candidates, matches>>
  BY DEF Explain, Enter
<1>2. \A n \in DOMAIN answers : /\ answers'[n].slot = answers[n].slot
                                /\ answers'[n].position = answers[n].position
                                /\ answers'[n].kind = answers[n].kind
                                /\ answers'[n].user = answers[n].user
                                /\ IsAnswer(answers[n])'
  <2>1. SUFFICES ASSUME NEW n \in DOMAIN answers
                 PROVE  /\ answers'[n].slot = answers[n].slot
                        /\ answers'[n].position = answers[n].position
                        /\ answers'[n].kind = answers[n].kind
                        /\ answers'[n].user = answers[n].user
                        /\ IsAnswer(answers[n])'
    OBVIOUS
  <2>2. IsAnswer(answers[n])
    BY DEF Inv, TypeInv
  <2>3. PICK old, new : old = answers[n] /\ new = answers'[n]
    OBVIOUS
  <2>4. old = [f \in AnswerFields |-> old[f]] /\ (new = old \/ new = [old EXCEPT !.reason = "llm"])
    BY <1>1, <2>2, <2>3 DEF IsAnswer
  <2>5. /\ new = [f \in AnswerFields |-> new[f]]
        /\ new.slot = old.slot /\ new.position = old.position
        /\ new.kind = old.kind /\ new.user = old.user
    BY <2>4 DEF AnswerFields
  <2> QED
    BY <1>1, <2>2, <2>3, <2>5 DEF IsAnswer
<1>3. IsSequence(answers')
  <2>1. PICK S : answers \in Seq(S)
    BY DEF Inv, TypeInv, IsSequence
  <2>2. answers' \in Seq(S \cup {[answers[n] EXCEPT !.reason = "llm"] : n \in DOMAIN answers})
    <3>1. answers' = [n \in 1 .. Len(answers) |-> answers'[n]] /\ Len(answers) \in Nat
      BY <2>1 DEF Explain
    <3> QED
      BY <1>1, <2>1, <3>1
  <2> QED
    BY <2>2 DEF IsSequence
<1>4. Filled' = Filled /\ Assigned' = Assigned
  <2>1. Filled' = Filled
    BY <1>1, <1>2 DEF Filled
  <2> QED
    BY <1>2, <2>1 DEF Assigned, Filled
<1>5. ASSUME NEW i PROVE Answered(i)' = Answered(i)
  BY <1>1, <1>2 DEF Answered
<1>6. TypeInv'
  BY <1>1, <1>2, <1>3 DEF Inv, TypeInv, IsSlot, Final
<1>7. OpenSlots' = OpenSlots
  BY <1>1, <1>5 DEF OpenSlots
<1>8. Phases'
  BY <1>1, <1>7 DEF Inv, Phases
<1>9. Numbered'
  <2>1. ASSUME NEW i
        PROVE  {answers'[n].position : n \in Answered(i)} = {answers[n].position : n \in Answered(i)}
    BY <1>2 DEF Answered
  <2>2. \A n, m \in DOMAIN answers' :
          answers'[n].slot = answers'[m].slot /\ answers'[n].position = answers'[m].position
            => n = m
    BY <1>1, <1>2 DEF Inv, Numbered
  <2>3. ASSUME NEW i \in DOMAIN plan'
        PROVE  /\ Cardinality(Answered(i)') <= plan'[i].headcount
               /\ {answers'[n].position : n \in Answered(i)'} = 1 .. Cardinality(Answered(i)')
    BY <1>1, <1>5, <2>1 DEF Inv, Numbered
  <2> QED
    BY <2>2, <2>3 DEF Numbered
<1>10. PickedOnce'
  BY <1>1, <1>2, <1>4 DEF Inv, PickedOnce, Filled
<1>11. Honest'
  <2>1. ASSUME NEW n \in DOMAIN answers PROVE HonestGap(n)' = HonestGap(n)
    BY <1>1, <1>2, <1>4, SameStaff DEF HonestGap
  <2> QED
    BY <1>1, <1>4, <2>1 DEF Inv, Honest
<1>12. Ranked'
  BY <1>1, SameStaff DEF Inv, Ranked
<1> QED
  BY <1>6, <1>8, <1>9, <1>10, <1>11, <1>12 DEF Inv

\* An answer takes the next position of a slot with an open seat.  It names somebody who
\* is not assigned yet, or is an honest gap.
LEMMA AnswerKeeps ==
  ASSUME Inv, phase \in {"filling", "gap"}, NEW kind \in {"ASSIGNED"} \cup Gaps, NEW e,
         NEW percent, Answer(kind, e, percent),
         kind = "ASSIGNED" => e \notin Assigned,
         kind # "ASSIGNED" /\ changes = 0 =>
           LET filters == plan[NextSlot].filters
               skilled == {x \in Team : Matches(WithoutCapacity(filters), x)}
           IN  Search(filters, Assigned) = {} /\ (kind = "SKILL_GAP" <=> skilled = {})
  PROVE  Inv'
<1> DEFINE s == NextSlot
           c == Cardinality(Answered(s))
           N == Len(answers) + 1
           answer == [slot |-> s, position |-> c + 1, kind |-> kind, user |-> e,
                      percent |-> percent, reason |-> "template"]
<1>1. /\ answers' = Append(answers, answer)
      /\ UNCHANGED <<project, staff, changes, plan, counts, requested, candidates, matches>>
      /\ phase' = IF OpenSlots' # {} THEN "filling"
                  ELSE IF Filled' # {} THEN "explaining" ELSE "done"
  BY DEF Answer, Enter
<1>2. s \in OpenSlots /\ s \in DOMAIN plan
  BY NextSlotIsOpen DEF Inv, Phases
<1>3. c \in Nat /\ c < plan[s].headcount /\ plan[s].headcount \in Nat
      /\ IsFiniteSet(Answered(s))
  BY <1>2, AnsweredIsFinite DEF Inv, TypeInv, OpenSlots, IsSlot
<1>4. /\ answer.slot = s /\ answer.position = c + 1 /\ answer.kind = kind /\ answer.user = e
      /\ answer = [f \in AnswerFields |-> answer[f]]
  BY DEF AnswerFields
<1> HIDE DEF answer
<1>5. /\ IsSequence(answers')
      /\ DOMAIN answers' = DOMAIN answers \cup {N} /\ N \notin DOMAIN answers
      /\ answers'[N] = answer
      /\ \A n \in DOMAIN answers : answers'[n] = answers[n]
  BY <1>1, AppendLaw DEF Inv, TypeInv
<1> HIDE DEF N
<1>6. \A n \in DOMAIN answers : answers[n].slot \in DOMAIN plan
  BY DEF Inv, TypeInv, IsAnswer
<1>7. ASSUME NEW i PROVE Answered(i)' = IF i = s THEN Answered(i) \cup {N} ELSE Answered(i)
  BY <1>4, <1>5 DEF Answered
<1>8. N \notin Answered(s) /\ Cardinality(Answered(s) \cup {N}) = c + 1
  <2>1. N \notin Answered(s)
    BY <1>5 DEF Answered
  <2> QED
    BY <1>3, <2>1, FS_AddElement
<1> HIDE DEF s, c
<1>9. TypeInv'
  <2>1. ASSUME NEW n \in DOMAIN answers' PROVE IsAnswer(answers[n])'
    <3>1. CASE n = N
      BY <1>1, <1>2, <1>4, <1>5, <3>1 DEF IsAnswer
    <3>2. CASE n \in DOMAIN answers
      BY <1>1, <1>5, <3>2 DEF Inv, TypeInv, IsAnswer
    <3> QED
      BY <1>5, <3>1, <3>2
  <2> QED
    BY <1>1, <1>5, <2>1 DEF Inv, TypeInv, IsSlot, Final
<1>10. Phases'
  BY <1>1 DEF Inv, Phases
<1>11. Numbered'
  <2>1. ASSUME NEW n \in DOMAIN answers', NEW m \in DOMAIN answers',
               answers'[n].slot = answers'[m].slot, answers'[n].position = answers'[m].position
        PROVE  n = m
    <3>1. \A k \in DOMAIN answers : answers[k].slot = s => answers[k].position # c + 1
      <4>1. SUFFICES ASSUME NEW k \in DOMAIN answers, answers[k].slot = s
                     PROVE  answers[k].position # c + 1
        OBVIOUS
      <4>2. answers[k].position \in 1 .. c
        <5>1. k \in Answered(s)
          BY <4>1 DEF Answered
        <5>2. {answers[j].position : j \in Answered(s)} = 1 .. c
          BY <1>2 DEF Inv, Numbered, c
        <5> QED
          BY <5>1, <5>2
      <4> QED
        BY <1>3, <4>2
    <3> QED
      BY <1>4, <1>5, <2>1, <3>1 DEF Inv, Numbered
  <2>2. ASSUME NEW i \in DOMAIN plan
        PROVE  /\ Cardinality(Answered(i)') <= plan[i].headcount
               /\ {answers'[n].position : n \in Answered(i)'} = 1 .. Cardinality(Answered(i)')
    <3>1. CASE i = s
      <4>1. Answered(i)' = Answered(s) \cup {N}
        BY <1>7, <3>1
      <4>2. {answers[n].position : n \in Answered(s)} = 1 .. c
        BY <1>2 DEF Inv, Numbered, c
      <4>3. \A n \in Answered(s) : answers'[n] = answers[n]
        BY <1>5 DEF Answered
      <4>4. {answers'[n].position : n \in Answered(s) \cup {N}} = 1 .. c \cup {c + 1}
        BY <1>4, <1>5, <4>2, <4>3
      <4>5. 1 .. c \cup {c + 1} = 1 .. c + 1
        BY <1>3
      <4> QED
        <5>1. Cardinality(Answered(i)') = c + 1
          BY <1>8, <4>1
        <5>2. {answers'[n].position : n \in Answered(i)'} = 1 .. c + 1
          BY <4>1, <4>4, <4>5
        <5>3. c + 1 <= plan[i].headcount
          BY <1>3, <3>1
        <5> QED
          BY <5>1, <5>2, <5>3
    <3>2. CASE i # s
      <4>1. Answered(i)' = Answered(i)
        BY <1>7, <3>2
      <4>2. \A n \in Answered(i) : answers'[n] = answers[n]
        BY <1>5 DEF Answered
      <4> QED
        BY <4>1, <4>2 DEF Inv, Numbered
    <3> QED
      BY <3>1, <3>2
  <2> QED
    BY <1>1, <2>1, <2>2 DEF Numbered
<1>12. /\ \A n \in Filled' : \/ n \in Filled /\ answers'[n].user = answers[n].user
                             \/ n = N /\ kind = "ASSIGNED" /\ answers'[n].user = e
       /\ \A n \in Filled : n \in Filled' /\ answers'[n].user = answers[n].user
  BY <1>4, <1>5 DEF Filled
<1>13. PickedOnce'
  <2>1. \A n \in Filled : kind = "ASSIGNED" => answers[n].user # e
    BY DEF Assigned
  <2> QED
    BY <1>12, <2>1 DEF Inv, PickedOnce
<1>14. Assigned \subseteq Assigned' /\ (kind # "ASSIGNED" => Assigned' = Assigned)
  BY <1>12 DEF Assigned
<1>15. ASSUME changes' = 0 PROVE \A n \in DOMAIN answers' \ Filled' : HonestGap(n)'
  <2>1. SUFFICES ASSUME NEW n \in DOMAIN answers' \ Filled' PROVE HonestGap(n)'
    OBVIOUS
  <2>2. CASE n = N
    <3>1. kind # "ASSIGNED"
      BY <1>4, <1>5, <2>1, <2>2 DEF Filled
    <3> QED
      BY <1>1, <1>4, <1>5, <1>14, <1>15, <2>2, <3>1, SameStaff DEF HonestGap, s
  <2>3. CASE n \in DOMAIN answers
    <3>1. HonestGap(n)
      BY <1>1, <1>5, <1>15, <2>1, <2>3 DEF Inv, Honest, Filled
    <3>2. \A filters : Search(filters, Assigned) = {} => Search(filters, Assigned') = {}
      BY <1>14 DEF Search
    <3> QED
      BY <1>1, <1>5, <2>3, <3>1, <3>2, SameStaff DEF HonestGap
  <2> QED
    BY <1>5, <2>1, <2>2, <2>3
<1>16. Honest'
  BY <1>1, <1>15 DEF Honest
<1>17. Ranked'
  BY <1>1, SameStaff DEF Inv, Ranked
<1> QED
  BY <1>9, <1>10, <1>11, <1>13, <1>16, <1>17 DEF Inv

-----------------------------------------------------------------------------
(***************************************************************************)
(* The theorems.                                                           *)
(***************************************************************************)
LEMMA InvInit == Init => Inv
<1> SUFFICES ASSUME Init PROVE Inv
  OBVIOUS
<1>1. /\ phase = "idle" /\ plan = << >> /\ counts = << >> /\ answers = << >> /\ matches = << >>
      /\ requested = Null /\ candidates = {} /\ changes = 0
      /\ project \in [owner : Managers, open : BOOLEAN]
      /\ staff \in [Engineers -> [manager : Managers, active : BOOLEAN,
                                  utilisation : Utilisations]]
  BY DEF Init
<1>2. << >> \in Seq({}) /\ << >> \in Seq(Nat) /\ DOMAIN << >> = {}
  OBVIOUS
<1>3. TypeInv
  BY <1>1, <1>2, ChangesAssumption DEF TypeInv, IsSequence
<1>4. Phases
  BY <1>1 DEF Phases
<1>5. Numbered /\ PickedOnce /\ Honest /\ Ranked
  BY <1>1, <1>2 DEF Numbered, PickedOnce, Honest, Ranked, Filled
<1> QED
  BY <1>3, <1>4, <1>5 DEF Inv

LEMMA FillKeeps ==
  ASSUME Inv, FillSeat
  PROVE  Inv'
<1>1. PICK best \in Best(plan[NextSlot].filters, Search(plan[NextSlot].filters, Assigned)) :
        Answer("ASSIGNED", best, SuggestedPercent(plan[NextSlot].filters, best))
  BY DEF FillSeat
<1>2. best \notin Assigned
  BY DEF Best, Search
<1>3. phase = "filling"
  BY DEF FillSeat
<1> QED
  BY <1>1, <1>2, <1>3, AnswerKeeps

LEMMA GapKeeps ==
  ASSUME Inv, BuildGap
  PROVE  Inv'
<1> DEFINE filters == plan[NextSlot].filters
           skilled == {x \in Team : Matches(WithoutCapacity(filters), x)}
<1>1. phase = "gap"
  BY DEF BuildGap
<1>2. PICK kind : /\ kind = IF Search(WithoutCapacity(filters), {}) = {}
                            THEN "SKILL_GAP" ELSE "AVAILABILITY_GAP"
                  /\ Answer(kind, Null, 0)
  BY DEF BuildGap
<1>3. Search(WithoutCapacity(filters), {}) = skilled
  BY DEF Search
<1>4. kind \in Gaps /\ kind # "ASSIGNED" /\ (kind = "SKILL_GAP" <=> skilled = {})
  BY <1>2, <1>3 DEF Gaps
<1>5. changes = 0 => Search(filters, Assigned) = {}
  BY <1>1 DEF Inv, Honest
<1> HIDE DEF skilled
<1> QED
  BY <1>1, <1>2, <1>4, <1>5, AnswerKeeps DEF skilled

LEMMA InvNext == Inv /\ [Next]_vars => Inv'
<1> SUFFICES ASSUME Inv, [Next]_vars PROVE Inv'
  OBVIOUS
<1>1. CASE UNCHANGED vars
  <2>1. /\ UNCHANGED <<project, staff, plan, counts, answers, matches, requested, candidates,
                       phase, changes>>
    BY <1>1 DEF vars, request
  <2>2. OpenSlots' = OpenSlots
    BY <2>1 DEF OpenSlots, Answered
  <2>3. NextSlot' = NextSlot
    BY <2>1, <2>2 DEF NextSlot
  <2>4. Phases'
    BY <2>1, <2>2 DEF Inv, Phases
  <2> QED
    BY <2>1, <2>3, <2>4, PhaseKeeps DEF Inv, TypeInv, Honest
<1>2. CASE Step
  BY <1>2, WaitingKeeps, ParseKeeps, CountKeeps, FillKeeps, GapKeeps, ExplainKeeps,
     SkillMatchKeeps, RankKeeps DEF Step
<1>3. CASE (\E e \in Engineers : ChangeStaff(e)) \/ ChangeProject
  BY <1>3, OthersKeep
<1> QED
  BY <1>1, <1>2, <1>3 DEF Next

LEMMA Invariance == Spec => []Inv
BY InvInit, InvNext, PTL DEF Spec

\* The variables have values of their types, and no slot has more answers than seats.
THEOREM TypeCorrectness == Spec => []TypeOK
<1>1. Inv => TypeOK
  BY DEF Inv, TypeInv, Numbered, TypeOK
<1> QED
  BY <1>1, Invariance, PTL

\* Whatever the language model planned and whatever others committed between two
\* searches, nobody is picked for two seats.
THEOREM NobodyPickedTwice == Spec => []PickedOnce
<1>1. Inv => PickedOnce
  BY DEF Inv
<1> QED
  BY <1>1, Invariance, PTL

\* A seat of a finished match has one answer, and one row in the result: whatever the
\* order in which the slots were filled, persons and gaps together are as many as seats.
THEOREM SeatsAreListed == Spec => []EverySeatListed
<1>1. Inv => EverySeatListed
  <2> SUFFICES ASSUME Inv, phase = "done",
                      \A i, j \in DOMAIN plan : plan[i].slot_id = plan[j].slot_id => i = j
               PROVE  Len(Listed({"ASSIGNED"})) + Len(Listed(Gaps)) = Len(Seats)
    BY DEF EverySeatListed
  <2> DEFINE Pairs == {x \in (DOMAIN plan) \X Nat : x[2] \in 1 .. plan[x[1]].headcount}
             Under(kinds, seat) == {n \in DOMAIN answers :
                                      /\ answers[n].kind \in kinds
                                      /\ answers[n].position = seat[2]
                                      /\ plan[answers[n].slot].slot_id = plan[seat[1]].slot_id}
             Places(kinds) == {k \in DOMAIN Seats : Under(kinds, Seats[k]) # {}}
  <2>1. Seats \in Seq(Pairs)
    <3>1. PICK S : plan \in Seq(S)
      BY DEF Inv, TypeInv, IsSequence
    <3>2. \A i \in DOMAIN plan : plan[i].headcount \in Nat
      BY DEF Inv, TypeInv, IsSlot
    <3>3. \A i \in DOMAIN plan : [p \in 1 .. plan[i].headcount |-> <<i, p>>] \in Seq(Pairs)
      BY <3>2
    <3> HIDE DEF Pairs
    <3>4. DOMAIN plan = 1 .. Len(plan) /\ Len(plan) \in Nat
      BY <3>1
    <3>5. [i \in DOMAIN plan |-> [p \in 1 .. plan[i].headcount |-> <<i, p>>]] \in Seq(Seq(Pairs))
      BY <3>3, <3>4
    <3> QED
      BY <3>5, FlattenType DEF Seats
  <2>2. ASSUME NEW seat \in Pairs
        PROVE  Under({"ASSIGNED"}, seat) # {} <=> Under(Gaps, seat) = {}
    <3>1. PICK i \in DOMAIN plan : \E p \in 1 .. plan[i].headcount : seat = <<i, p>>
      OBVIOUS
    <3>2. PICK p \in 1 .. plan[i].headcount : seat = <<i, p>>
      BY <3>1
    <3>3. Cardinality(Answered(i)) = plan[i].headcount
      <4>1. i \notin OpenSlots
        BY DEF Inv, Phases
      <4>2. Cardinality(Answered(i)) \in Nat /\ plan[i].headcount \in Nat
        BY AnsweredIsFinite DEF Inv, TypeInv, IsSlot
      <4>3. Cardinality(Answered(i)) <= plan[i].headcount
        BY DEF Inv, Numbered
      <4> QED
        BY <4>1, <4>2, <4>3 DEF OpenSlots
    <3>4. p \in {answers[n].position : n \in Answered(i)}
      BY <3>3 DEF Inv, Numbered
    <3>5. PICK n \in Answered(i) : answers[n].position = p
      BY <3>4
    <3>6. n \in DOMAIN answers /\ answers[n].slot = i /\ answers[n].kind \in {"ASSIGNED"} \cup Gaps
      BY <3>5 DEF Answered, Inv, TypeInv, IsAnswer
    <3>7. \A m \in DOMAIN answers :
            answers[m].position = p /\ plan[answers[m].slot].slot_id = plan[i].slot_id => m = n
      BY <3>5, <3>6 DEF Inv, TypeInv, IsAnswer, Numbered
    <3>8. \A kinds : Under(kinds, seat) # {} <=> answers[n].kind \in kinds
      BY <3>2, <3>5, <3>6, <3>7
    <3>9. "ASSIGNED" \notin Gaps
      BY DEF Gaps
    <3> HIDE DEF Under
    <3> QED
      BY <3>6, <3>8, <3>9
  <2> HIDE DEF Under, Pairs
  <2>3. \A k \in DOMAIN Seats : k \in Places({"ASSIGNED"}) <=> k \notin Places(Gaps)
    BY <2>1, <2>2
  <2> HIDE DEF Places
  <2>4. ASSUME NEW kinds PROVE Len(Listed(kinds)) = Len(Kept(Seats, Places(kinds)))
    <3> DEFINE rows == Kept(Seats, Places(kinds))
               row(k) == answers[Max(Under(kinds, rows[k]))]
    <3>1. Listed(kinds) = [k \in DOMAIN rows |-> row(k)]
      BY DEF Listed, Under, Places
    <3>2. rows \in Seq(Pairs)
      BY <2>1, KeptElements
    <3> HIDE DEF rows
    <3>3. DOMAIN rows = 1 .. Len(rows) /\ Len(rows) \in Nat
      BY <3>2
    <3>4. Len([k \in 1 .. Len(rows) |-> row(k)]) = Len(rows)
      BY <3>3
    <3>5. Len(Listed(kinds)) = Len(rows)
      BY <3>1, <3>3, <3>4
    <3> QED
      BY <3>5 DEF rows
  <2> QED
    BY <2>1, <2>3, <2>4, KeptLengths
<1> QED
  BY <1>1, Invariance, PTL

LEMMA TextLaw ==
  ASSUME NEW tag, NEW mark, NEW l \in Nat \ {0}, Len(tag) = l
  PROVE  /\ DOMAIN Text(tag, mark) = 1 .. 2 * l - 1
         /\ Text(tag, mark)[1] = tag[1]
         /\ l > 1 => Text(tag, mark)[2] = mark
<1> DEFINE at(n) == IF n % 2 = 1 THEN tag[(n + 1) \div 2] ELSE mark
<1>1. Text(tag, mark) = [n \in 1 .. 2 * l - 1 |-> at(n)]
  BY DEF Text
<1>2. at(1) = tag[1]
  <2>1. 1 % 2 = 1 /\ (1 + 1) \div 2 = 1
    OBVIOUS
  <2> QED
    BY <2>1
<1>3. at(2) = mark
  <2>1. 2 % 2 # 1
    OBVIOUS
  <2> QED
    BY <2>1
<1>4. 1 \in 1 .. 2 * l - 1 /\ (l > 1 => 2 \in 1 .. 2 * l - 1)
  OBVIOUS
<1> HIDE DEF at
<1> QED
  BY <1>1, <1>2, <1>3, <1>4

\* The value of a tag is the label of a tag only if both are one and the same word.
LEMMA OneWord ==
  ASSUME NEW a, NEW b, IsTag(a), IsTag(b)
  PROVE  Value(a) = Label(b) <=> a = b /\ Len(a) = 1
<1>1. /\ Len(a) \in Nat \ {0} /\ a = [i \in 1 .. Len(a) |-> a[i]]
      /\ Len(b) \in Nat \ {0} /\ b = [i \in 1 .. Len(b) |-> b[i]]
  BY DEF IsTag
<1> DEFINE textA == Text(a, "_")
           textB == Text(b, " ")
<1>2. DOMAIN textA = 1 .. 2 * Len(a) - 1 /\ DOMAIN textB = 1 .. 2 * Len(b) - 1
  BY <1>1, TextLaw
<1>3. textA[1] = a[1] /\ textB[1] = b[1]
  BY <1>1, TextLaw
<1>4. (Len(a) > 1 => textA[2] = "_") /\ (Len(b) > 1 => textB[2] = " ")
  <2>1. \A l \in Nat \ {0} : (Len(a) = l /\ l > 1) => textA[2] = "_"
    BY TextLaw
  <2>2. \A l \in Nat \ {0} : (Len(b) = l /\ l > 1) => textB[2] = " "
    BY TextLaw
  <2> HIDE DEF textA, textB
  <2> QED
    BY <1>1, <2>1, <2>2
<1>5. ASSUME Len(a) = 1 PROVE textA = <<a[1]>>
  <2>1. 2 * Len(a) - 1 = 1
    BY <1>5
  <2>2. textA = [n \in 1 .. 1 |-> IF n % 2 = 1 THEN a[(n + 1) \div 2] ELSE "_"]
    BY <2>1 DEF Text
  <2> HIDE DEF textA
  <2>3. DOMAIN textA = 1 .. 1 /\ textA[1] = a[1]
    BY <2>2
  <2> QED
    BY <2>2, <2>3
<1>6. ASSUME Len(b) = 1 PROVE textB = <<b[1]>>
  <2>1. 2 * Len(b) - 1 = 1
    BY <1>6
  <2>2. textB = [n \in 1 .. 1 |-> IF n % 2 = 1 THEN b[(n + 1) \div 2] ELSE " "]
    BY <2>1 DEF Text
  <2> HIDE DEF textB
  <2>3. DOMAIN textB = 1 .. 1 /\ textB[1] = b[1]
    BY <2>2
  <2> QED
    BY <2>2, <2>3
<1>7. Value(a) = textA /\ Label(b) = textB
  BY DEF Value, Label
<1> HIDE DEF textA, textB
<1>8. ASSUME textA = textB PROVE a = b /\ Len(a) = 1
  <2>1. PICK l, m : l = 2 * Len(a) - 1 /\ m = 2 * Len(b) - 1
    OBVIOUS
  <2>2. l \in Nat \ {0} /\ m \in Nat \ {0} /\ 1 .. l = 1 .. m
    <3>1. l \in Nat \ {0} /\ m \in Nat \ {0}
      BY <2>1, <1>1
    <3>2. 1 .. l = 1 .. m
      BY <2>1, <1>2, <1>8, Zenon
    <3> QED
      BY <3>1, <3>2
  <2>3. l = m
    <3>1. l \in 1 .. l /\ m \in 1 .. m
      BY <2>2
    <3>2. l \in 1 .. m /\ m \in 1 .. l
      BY <2>2, <3>1
    <3>3. l <= m /\ m <= l
      BY <2>2, <3>2
    <3> QED
      BY <2>2, <3>3
  <2>4. Len(a) = Len(b)
    <3>1. \A x, y \in Nat : 2 * x - 1 = 2 * y - 1 => x = y
      OBVIOUS
    <3>2. Len(a) \in Nat /\ Len(b) \in Nat
      BY <1>1
    <3>3. 2 * Len(a) - 1 = 2 * Len(b) - 1
      BY <2>1, <2>3, Zenon
    <3> QED
      BY <3>1, <3>2, <3>3, Zenon
  <2>5. ~ (Len(a) > 1)
    BY <2>4, <1>4, <1>8
  <2>6. Len(a) = 1 /\ Len(b) = 1 /\ a[1] = b[1]
    BY <2>4, <2>5, <1>1, <1>3, <1>8
  <2>7. a = [i \in 1 .. 1 |-> a[i]] /\ b = [i \in 1 .. 1 |-> b[i]]
    BY <2>6, <1>1
  <2>8. [i \in 1 .. 1 |-> a[i]] = [i \in 1 .. 1 |-> b[i]]
    BY <2>6
  <2> QED
    BY <2>6, <2>7, <2>8
<1> QED
  BY <1>5, <1>6, <1>7, <1>8

\* A search without hours finds whoever fits but for the hours.
LEMMA SearchFindsSkilled ==
  ASSUME NEW filters, DOMAIN filters = FilterFields,
         \A tag \in Range(filters.activity_tags) : IsTag(tag), NEW e \in Engineers
  PROVE  Matches(WithoutCapacity(filters), e) <=> Skilled(filters, e)
<1> DEFINE other == WithoutCapacity(filters)
<1>1. /\ \A f \in FilterFields \ {"min_free_hours"} : other[f] = filters[f]
      /\ other.min_free_hours = Null
  BY DEF WithoutCapacity, FilterFields
<1>2. /\ other.department = filters.department /\ other.designation = filters.designation
      /\ other.work_status = filters.work_status
      /\ other.activity_tags = filters.activity_tags
      /\ other.skill_name = filters.skill_name
      /\ other.skill_category = filters.skill_category
      /\ other.min_proficiency = filters.min_proficiency
  BY <1>1 DEF FilterFields
<1> HIDE DEF other
<1>3. \A skill : NamedSkill(other, skill) <=> NamedSkill(filters, skill)
  BY <1>2 DEF NamedSkill
<1>4. SkillMatches(other, e) <=> SkillMatches(filters, e)
  BY <1>2, <1>3 DEF SkillMatches
<1>5. TagOverlap(other, e) # {} <=>
        \E tag \in Range(filters.activity_tags) \cap Profile[e].tags : Len(tag) = 1
  <2>1. TagOverlap(other, e) # {} <=>
          \E n \in DOMAIN filters.activity_tags, tag \in Profile[e].tags :
            Value(filters.activity_tags[n]) = Label(tag)
    BY <1>2 DEF TagOverlap, RecentLabels
  <2>2. ASSUME NEW n \in DOMAIN filters.activity_tags, NEW tag \in Profile[e].tags
        PROVE  Value(filters.activity_tags[n]) = Label(tag) <=>
                 filters.activity_tags[n] = tag /\ Len(filters.activity_tags[n]) = 1
    <3>1. IsTag(filters.activity_tags[n]) /\ IsTag(tag)
      BY ProfileAssumption DEF Range
    <3> QED
      BY <3>1, OneWord
  <2> QED
    BY <2>1, <2>2 DEF Range
<1> QED
  BY <1>1, <1>2, <1>4, <1>5 DEF Matches, Skilled, other

\* The filters ask for hours apart from everything else that they ask for.
LEMMA CapacityAside ==
  ASSUME NEW filters, DOMAIN filters = FilterFields, NEW e,
         Matches(WithoutCapacity(filters), e),
         filters.min_free_hours # Null => FreeHours(e) >= filters.min_free_hours
  PROVE  Matches(filters, e)
<1> DEFINE other == WithoutCapacity(filters)
<1>1. \A f \in FilterFields \ {"min_free_hours"} : other[f] = filters[f]
  BY DEF WithoutCapacity
<1>2. /\ other.department = filters.department /\ other.designation = filters.designation
      /\ other.work_status = filters.work_status
      /\ other.activity_tags = filters.activity_tags
      /\ other.skill_name = filters.skill_name
      /\ other.skill_category = filters.skill_category
      /\ other.min_proficiency = filters.min_proficiency
  BY <1>1 DEF FilterFields
<1> HIDE DEF other
<1>3. \A skill : NamedSkill(other, skill) <=> NamedSkill(filters, skill)
  BY <1>2 DEF NamedSkill
<1>4. SkillMatches(other, e) <=> SkillMatches(filters, e)
  BY <1>2, <1>3 DEF SkillMatches
<1>5. TagOverlap(other, e) = TagOverlap(filters, e)
  BY <1>2 DEF TagOverlap
<1> QED
  BY <1>2, <1>4, <1>5 DEF Matches, other

\* With nobody else changing anything, the reasons given for the gaps still hold at the
\* end, when more engineers are assigned than when the gap was found: a skill gap if and
\* only if nobody on the team fits but for the hours, of the tags those of one word.
THEOREM GapsAreAlwaysHonest == Spec => []GapsAreHonest
<1>1. Inv => GapsAreHonest
  <2> SUFFICES ASSUME Inv, changes = 0, NEW n \in DOMAIN answers \ Filled
               PROVE  LET filters == plan[answers[n].slot].filters
                          skilled == {e \in Team : Skilled(filters, e)}
                      IN  /\ answers[n].kind = "SKILL_GAP" <=> skilled = {}
                          /\ \A e \in skilled \ Assigned : ~HasCapacity(filters, e)
    BY DEF GapsAreHonest
  <2>1. PICK filters : filters = plan[answers[n].slot].filters
    OBVIOUS
  <2>2. /\ DOMAIN filters = FilterFields
        /\ \A tag \in Range(filters.activity_tags) : IsTag(tag)
    <3>1. answers[n].slot \in DOMAIN plan
      BY DEF Inv, TypeInv, IsAnswer
    <3> QED
      BY <2>1, <3>1 DEF Inv, TypeInv, IsSlot
  <2> DEFINE skilled == {e \in Team : Matches(WithoutCapacity(filters), e)}
  <2>3. Search(filters, Assigned) = {} /\ (answers[n].kind = "SKILL_GAP" <=> skilled = {})
    BY <2>1 DEF Inv, Honest, HonestGap
  <2>4. ASSUME NEW e \in skilled \ Assigned PROVE ~HasCapacity(filters, e)
    <3>1. ~Matches(filters, e)
      BY <2>3 DEF Search
    <3>2. filters.min_free_hours # Null /\ ~ (FreeHours(e) >= filters.min_free_hours)
      BY <2>2, <3>1, CapacityAside
    <3> QED
      BY <3>2 DEF HasCapacity
  <2>5. skilled = {e \in Team : Skilled(filters, e)}
    BY <2>2, SearchFindsSkilled DEF Team
  <2> HIDE DEF skilled
  <2> QED
    BY <2>1, <2>3, <2>4, <2>5
<1> QED
  BY <1>1, Invariance, PTL

LEMMA MaxOfTwo ==
  ASSUME NEW a \in Int, NEW b \in Int
  PROVE  Max({a, b}) \in Int /\ Max({a, b}) = IF a >= b THEN a ELSE b
<1>1. PICK m : m = IF a >= b THEN a ELSE b
  OBVIOUS
<1>2. m \in {a, b} /\ \A y \in {a, b} : m >= y
  BY <1>1
<1>3. \A x \in {a, b} : (\A y \in {a, b} : x >= y) => x = m
  BY <1>1
<1>4. Max({a, b}) = m
  BY <1>2, <1>3 DEF Max
<1> QED
  BY <1>1, <1>4

LEMMA MinOfTwo ==
  ASSUME NEW a \in Int, NEW b \in Int
  PROVE  Min({a, b}) \in Int /\ Min({a, b}) = IF a <= b THEN a ELSE b
<1>1. PICK m : m = IF a <= b THEN a ELSE b
  OBVIOUS
<1>2. m \in {a, b} /\ \A y \in {a, b} : m <= y
  BY <1>1
<1>3. \A x \in {a, b} : (\A y \in {a, b} : x <= y) => x = m
  BY <1>1
<1>4. Min({a, b}) = m
  BY <1>2, <1>3 DEF Min
<1> QED
  BY <1>1, <1>4

\* An engineer with free hours has something left of the week.
LEMMA FreeHoursLaw ==
  ASSUME TypeInv, NEW e \in Engineers
  PROVE  /\ FreeHours(e) \in Nat
         /\ MaxUtilisationPercent - staff[e].utilisation \in Int
         /\ FreeHours(e) > 0 => MaxUtilisationPercent - staff[e].utilisation > 0
<1>1. PICK left : left = MaxUtilisationPercent - staff[e].utilisation
  OBVIOUS
<1>2. staff[e].utilisation \in Nat
  BY HoursAssumption DEF TypeInv
<1>3. left \in Int
  BY <1>1, <1>2 DEF MaxUtilisationPercent
<1>4. PICK free : free = Max({0, left})
  OBVIOUS
<1>5. free \in Nat /\ (left <= 0 => free = 0)
  BY <1>3, <1>4, MaxOfTwo
<1>6. PICK points : points = free * MaxWeeklyHours
  OBVIOUS
<1>7. points \in Nat /\ (free = 0 => points = 0)
  BY <1>5, <1>6, HoursAssumption
<1>8. FreeHours(e) = points \div 100
  BY <1>1, <1>4, <1>6 DEF FreeHours, MaxUtilisationPercent
<1>9. points \div 100 \in Nat /\ (points = 0 => points \div 100 = 0)
  BY <1>7
<1> QED
  BY <1>1, <1>3, <1>5, <1>7, <1>8, <1>9

\* As long as nobody else changes anything, everybody who is shown as a match is on the
\* team and has the hours asked for, whatever ids the language model returned.
THEOREM MatchesAlwaysHaveTime == Spec => []MatchesHaveTime
<1>1. Inv => MatchesHaveTime
  <2> SUFFICES ASSUME Inv, changes = 0, NEW n \in DOMAIN matches
               PROVE  /\ matches[n].user \in Team
                      /\ FreeHours(matches[n].user) >= IF requested = Null THEN 1 ELSE requested
    BY DEF MatchesHaveTime
  <2>1. PICK e : e = matches[n].user
    OBVIOUS
  <2>2. e \in Qualified(requested)
    BY <2>1 DEF Inv, Ranked
  <2>3. e \in Team /\ (IF requested # Null THEN FreeHours(e) >= requested ELSE FreeHours(e) > 0)
    BY <2>2 DEF Qualified
  <2>4. e \in Engineers
    BY <2>3 DEF Team
  <2>5. FreeHours(e) \in Nat
    BY <2>4, FreeHoursLaw DEF Inv
  <2>6. FreeHours(e) >= IF requested = Null THEN 1 ELSE requested
    BY <2>3, <2>5
  <2> QED
    BY <2>1, <2>3, <2>6
<1> QED
  BY <1>1, Invariance, PTL

\* What the code suggests for a pick who has the hours the filters ask for.
LEMMA SuggestionFits ==
  ASSUME TypeInv, NEW filters, filters.min_free_hours \in (Nat \ {0}) \cup {Null},
         NEW e \in Engineers,
         filters.min_free_hours # Null => FreeHours(e) >= filters.min_free_hours
  PROVE  LET left == MaxUtilisationPercent - staff[e].utilisation
         IN  /\ SuggestedPercent(filters, e) >= 1
             /\ left > 0 => SuggestedPercent(filters, e) <= left
<1> DEFINE left == MaxUtilisationPercent - staff[e].utilisation
           Percent(hours) == (hours * MaxUtilisationPercent) \div MaxWeeklyHours
<1>1. left \in Int /\ FreeHours(e) \in Nat /\ (FreeHours(e) > 0 => left > 0)
  BY FreeHoursLaw
<1>2. ASSUME NEW h \in Nat PROVE Percent(h) \in Nat
  <2>1. h * MaxUtilisationPercent \in Nat
    BY DEF MaxUtilisationPercent
  <2> HIDE DEF MaxUtilisationPercent
  <2> QED
    BY <2>1, HoursAssumption
<1>3. SuggestedPercent(filters, e) =
        IF filters.min_free_hours # Null
        THEN Min({left, Max({1, Percent(filters.min_free_hours)})})
        ELSE IF FreeHours(e) >= MaxWeeklyHours THEN Min({left, 50})
             ELSE Max({1, Min({Percent(FreeHours(e)), left})})
  BY DEF SuggestedPercent
<1> HIDE DEF left, Percent
<1>4. CASE filters.min_free_hours # Null
  <2>1. PICK h \in Nat \ {0} : h = filters.min_free_hours
    BY <1>4
  <2>2. Percent(h) \in Nat /\ FreeHours(e) >= h
    BY <1>2, <1>4, <2>1
  <2>3. PICK most \in Int : most = Max({1, Percent(h)}) /\ most >= 1
    BY <2>2, MaxOfTwo
  <2>4. left > 0
    BY <1>1, <2>1, <2>2
  <2>5. SuggestedPercent(filters, e) = Min({left, most})
    BY <1>3, <1>4, <2>1, <2>3
  <2>6. Min({left, most}) >= 1 /\ Min({left, most}) <= left
    BY <1>1, <2>3, <2>4, MinOfTwo
  <2> QED
    BY <2>5, <2>6 DEF left
<1>5. CASE filters.min_free_hours = Null /\ FreeHours(e) >= MaxWeeklyHours
  <2>1. left > 0
    BY <1>1, <1>5, HoursAssumption
  <2>2. SuggestedPercent(filters, e) = Min({left, 50})
    BY <1>3, <1>5
  <2>3. Min({left, 50}) >= 1 /\ Min({left, 50}) <= left
    BY <1>1, <2>1, MinOfTwo
  <2> QED
    BY <2>2, <2>3 DEF left
<1>6. CASE filters.min_free_hours = Null /\ ~ (FreeHours(e) >= MaxWeeklyHours)
  <2>1. PICK p \in Nat : p = Percent(FreeHours(e))
    BY <1>1, <1>2
  <2>2. PICK least \in Int : least = Min({p, left}) /\ least <= left
    BY <1>1, <2>1, MinOfTwo
  <2>3. SuggestedPercent(filters, e) = Max({1, least})
    BY <1>3, <1>6, <2>1, <2>2
  <2>4. Max({1, least}) >= 1 /\ (left > 0 => Max({1, least}) <= left)
    BY <1>1, <2>2, MaxOfTwo
  <2> QED
    BY <2>3, <2>4 DEF left
<1> QED
  BY <1>4, <1>5, <1>6

\* A level suggested for a new pick can be allocated when it is suggested.
THEOREM SuggestionsAlwaysFit == Spec => SuggestionsFit
<1> DEFINE Fits == \A n \in Filled' \ Filled :
                     LET left == MaxUtilisationPercent - staff[answers'[n].user].utilisation
                     IN  answers'[n].percent >= 1 /\ (left > 0 => answers'[n].percent <= left)
<1>1. Inv /\ [Next]_vars => [Fits]_vars
  <2> SUFFICES ASSUME Inv, Next PROVE Fits
    OBVIOUS
  <2>1. CASE UNCHANGED answers
    BY <2>1 DEF Filled
  <2>2. ASSUME NEW kind, NEW e, NEW percent, Answer(kind, e, percent)
        PROVE  \A n \in Filled' \ Filled : /\ kind = "ASSIGNED"
                                           /\ answers'[n].user = e
                                           /\ answers'[n].percent = percent
    <3> DEFINE answer == [slot |-> NextSlot, position |-> Cardinality(Answered(NextSlot)) + 1,
                          kind |-> kind, user |-> e, percent |-> percent,
                          reason |-> "template"]
    <3>1. answers' = Append(answers, answer) /\ answer.kind = kind /\ answer.user = e
          /\ answer.percent = percent
      BY <2>2 DEF Answer
    <3> HIDE DEF answer
    <3>2. /\ DOMAIN answers' = DOMAIN answers \cup {Len(answers) + 1}
          /\ answers'[Len(answers) + 1] = answer
          /\ \A n \in DOMAIN answers : answers'[n] = answers[n]
      BY <3>1, AppendLaw DEF Inv, TypeInv
    <3> QED
      BY <3>1, <3>2 DEF Filled
  <2>3. CASE FillSeat
    <3>1. PICK filters : filters = plan[NextSlot].filters
      OBVIOUS
    <3>2. PICK best \in Best(filters, Search(filters, Assigned)) :
            Answer("ASSIGNED", best, SuggestedPercent(filters, best))
      BY <2>3, <3>1 DEF FillSeat
    <3>3. best \in Engineers /\ Matches(filters, best)
      BY <3>2 DEF Best, Search, Team
    <3>4. filters.min_free_hours # Null => FreeHours(best) >= filters.min_free_hours
      BY <3>3 DEF Matches
    <3>5. filters.min_free_hours \in (Nat \ {0}) \cup {Null}
      <4>1. NextSlot \in DOMAIN plan
        BY <2>3, NextSlotIsOpen DEF FillSeat, Inv, Phases
      <4> QED
        BY <3>1, <4>1 DEF Inv, TypeInv, IsSlot
    <3>6. LET left == MaxUtilisationPercent - staff[best].utilisation
          IN  /\ SuggestedPercent(filters, best) >= 1
              /\ left > 0 => SuggestedPercent(filters, best) <= left
      BY <3>3, <3>4, <3>5, SuggestionFits DEF Inv
    <3> QED
      BY <2>2, <3>2, <3>6
  <2>4. CASE BuildGap
    <3>1. PICK kind : Answer(kind, Null, 0) /\ kind # "ASSIGNED"
      BY <2>4 DEF BuildGap
    <3> QED
      BY <2>2, <3>1
  <2>5. ASSUME NEW keys, Explain(keys) PROVE Filled' = Filled
    <3>1. /\ DOMAIN answers' = DOMAIN answers
          /\ \A n \in DOMAIN answers :
               answers'[n] = answers[n] \/ answers'[n] = [answers[n] EXCEPT !.reason = "llm"]
      BY <2>5 DEF Explain
    <3>2. \A n \in DOMAIN answers : answers'[n].kind = answers[n].kind
      BY <3>1 DEF Inv, TypeInv, IsAnswer, AnswerFields
    <3> QED
      BY <3>1, <3>2 DEF Filled
  <2>6. CASE \/ \E blank \in BOOLEAN : SubmitTeamMatch(blank)
             \/ \E reply \in Replies : ParsePlan(reply)
             \/ LlmUnavailable \/ AssertOwnerAgain \/ CountSlot \/ NobodyEligible
    BY <2>1, <2>6 DEF SubmitTeamMatch, ParsePlan, LlmUnavailable, AssertOwnerAgain, CountSlot,
                      NobodyEligible
  <2>7. CASE \/ \E hours \in RequestedHours, blank \in BOOLEAN : SubmitSkillMatch(hours, blank)
             \/ \E ranking \in Rankings : RankCandidates(ranking)
    BY <2>1, <2>7 DEF SubmitSkillMatch, RankCandidates
  <2>8. CASE (\E e \in Engineers : ChangeStaff(e)) \/ ChangeProject
    BY <2>1, <2>8 DEF ChangeStaff, ChangeProject, request
  <2> QED
    BY <2>3, <2>4, <2>5, <2>6, <2>7, <2>8 DEF Next, Step
<1> HIDE DEF Fits
<1>2. Spec => [][Fits]_vars
  BY <1>1, Invariance, PTL DEF Spec
<1> QED
  BY <1>2 DEF Fits, SuggestionsFit
=============================================================================
