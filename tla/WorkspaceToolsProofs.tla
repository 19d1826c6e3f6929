------------------------ MODULE WorkspaceToolsProofs ------------------------
(***************************************************************************)
(* The tools' threads and their processes, for any calls, files and number   *)
(* of threads: ApplyHunks computes what its hunks say, a shell command that  *)
(* was stopped is never reported as done, no edit writes outside the jail,   *)
(* and one that no other disturbs leaves exactly the file it should.         *)
(*                                                                         *)
(* ApplyHunks comes first.  What a loop or a sort computes is shown by least *)
(* counterexample; the loop goes from the bottom up, so the lines that the   *)
(* hunks still to come name are those of the file (LoopInv).                 *)
(*                                                                         *)
(* ShellOkMeansFinished is about a call that was answered.  It is carried    *)
(* there by what each place in RunProc says of the process and of timedOut   *)
(* (ThreadOK): by the time the answer is chosen the process has ended or     *)
(* was killed, and a killed one has set timedOut.                            *)
(***************************************************************************)
EXTENDS WorkspaceTools, SequenceTheorems, WellFoundedInduction, TLAPS

-----------------------------------------------------------------------------
(* Induction: what fails of some number fails of a least one.               *)

LEMMA LeastNatural ==
    ASSUME NEW T \in SUBSET Nat, T # {}
    PROVE  \E x \in T : \A y \in T : x <= y
<1> DEFINE R == {p \in Nat \X Nat : p[1] < p[2]}
<1>1. IsWellFoundedOn(R, Nat)
  BY NatLessThanWellFounded DEF OpToRel
<1> HIDE DEF R
<1>2. PICK x \in T : \A y \in T : <<y, x>> \notin R
  BY <1>1, WFMin
<1>3. \A y \in T : ~(y < x)
  BY <1>2 DEF R
<1> QED
  BY <1>3

LEMMA Induction ==
    ASSUME NEW T \in SUBSET Nat, 0 \in T, \A n \in T : n + 1 \in T
    PROVE  T = Nat
<1> SUFFICES ASSUME Nat \ T # {} PROVE FALSE
  OBVIOUS
<1>1. PICK x \in Nat \ T : \A y \in Nat \ T : x <= y
  BY LeastNatural
<1>2. x - 1 \in Nat /\ x - 1 \in T
  BY <1>1
<1> QED
  BY <1>1, <1>2

\* f starts at base and goes on by step.
Iterates(f, S, n, base, step) ==
    /\ f \in [0 .. n -> S]
    /\ f[0] = base /\ \A k \in 1 .. n : f[k] = step[k][f[k - 1]]

\* A recursion over 0 .. n defines a function.
LEMMA Recursion ==
    ASSUME NEW S, NEW n \in Nat, NEW base \in S, NEW step \in [1 .. n -> [S -> S]]
    PROVE  \E f : Iterates(f, S, n, base, step)
<1> DEFINE Upto(k, f) == f[0] = base /\ \A i \in 1 .. k : f[i] = step[i][f[i - 1]]
           T == {k \in Nat : k <= n => \E f \in [0 .. k -> S] : Upto(k, f)}
<1>1. 0 \in T
  <2>1. [i \in 0 .. 0 |-> base] \in [0 .. 0 -> S] /\ Upto(0, [i \in 0 .. 0 |-> base])
    OBVIOUS
  <2> QED
    BY <2>1
<1>2. ASSUME NEW k \in Nat, k \in T PROVE k + 1 \in T
  <2> SUFFICES ASSUME k + 1 <= n PROVE \E f \in [0 .. k + 1 -> S] : Upto(k + 1, f)
    OBVIOUS
  <2>1. PICK f \in [0 .. k -> S] : Upto(k, f)
    BY <1>2
  <2> DEFINE g == [i \in 0 .. k + 1 |-> IF i = k + 1 THEN step[k + 1][f[k]] ELSE f[i]]
  <2>2. f[k] \in S /\ step[k + 1] \in [S -> S]
    OBVIOUS
  <2>3. g \in [0 .. k + 1 -> S]
    BY <2>2
  <2>4. \A i \in 0 .. k : g[i] = f[i]
    OBVIOUS
  <2>5. Upto(k + 1, g)
    BY <2>1, <2>4
  <2> QED
    BY <2>3, <2>5
<1>3. n \in T
  <2> HIDE DEF T
  <2> T = Nat
    <3> T \in SUBSET Nat
      BY DEF T
    <3> QED
      BY <1>1, <1>2, Induction
  <2> QED OBVIOUS
<1> QED
  BY <1>3 DEF Iterates

\* p numbers 1 .. n anew, each number once.
Renumbers(p, n) ==
    /\ p \in [1 .. n -> 1 .. n]
    /\ \A i, j \in 1 .. n : p[i] = p[j] => i = j
    /\ \A i \in 1 .. n : \E j \in 1 .. n : p[j] = i

LEMMA RenumbersIsBijection ==
    ASSUME NEW n \in Nat, NEW p
    PROVE  Renumbers(p, n) <=> p \in Bijection(1 .. n, 1 .. n)
  BY DEF Renumbers, Bijection, Injection, Surjection, IsInjective

\* Numbers can be sorted: put the least one first and sort the others.
LEMMA AscendingOrder ==
    \A n \in Nat : \A key \in [1 .. n -> Nat] :
        \E p : Renumbers(p, n) /\ \A i, j \in 1 .. n : i < j => key[p[i]] <= key[p[j]]
<1> DEFINE Ascends(n, key, p) == \A i, j \in 1 .. n : i < j => key[p[i]] <= key[p[j]]
           T == {n \in Nat : \A key \in [1 .. n -> Nat] :
                                 \E p : Renumbers(p, n) /\ Ascends(n, key, p)}
<1>1. 0 \in T
  <2>1. ASSUME NEW key \in [1 .. 0 -> Nat]
        PROVE  Renumbers(<<>>, 0) /\ Ascends(0, key, <<>>)
    BY DEF Renumbers
  <2> QED
    BY <2>1
<1>2. ASSUME NEW n \in Nat, n \in T PROVE n + 1 \in T
  <2> SUFFICES ASSUME NEW key \in [1 .. n + 1 -> Nat]
               PROVE  \E p : Renumbers(p, n + 1) /\ Ascends(n + 1, key, p)
    OBVIOUS
  <2>1. PICK m \in 1 .. n + 1 : \A i \in 1 .. n + 1 : key[m] <= key[i]
    <3> DEFINE V == {key[i] : i \in 1 .. n + 1}
    <3>1. V \in SUBSET Nat /\ key[1] \in V
      OBVIOUS
    <3>2. PICK v \in V : \A w \in V : v <= w
      BY <3>1, LeastNatural
    <3> QED
      BY <3>2
  <2> DEFINE skip == [i \in 1 .. n |-> IF i < m THEN i ELSE i + 1]
             rest == [i \in 1 .. n |-> key[skip[i]]]
  <2>2. /\ skip \in [1 .. n -> 1 .. n + 1]
        /\ \A i \in 1 .. n : skip[i] # m
        /\ \A i, j \in 1 .. n : skip[i] = skip[j] => i = j
        /\ \A k \in 1 .. n + 1 : k # m => \E i \in 1 .. n : skip[i] = k
    <3>1. ASSUME NEW k \in 1 .. n + 1, k # m
          PROVE  \E i \in 1 .. n : skip[i] = k
      <4>1. CASE k < m
        BY <4>1
      <4>2. CASE k > m
        <5>1. k - 1 \in 1 .. n /\ skip[k - 1] = k
          BY <4>2
        <5> QED
          BY <5>1
      <4> QED
        BY <3>1, <4>1, <4>2
    <3> QED
      BY <3>1
  <2> HIDE DEF skip
  <2>3. rest \in [1 .. n -> Nat]
    BY <2>2
  <2>4. PICK q : Renumbers(q, n) /\ Ascends(n, rest, q)
    BY <1>2, <2>3
  <2>5. /\ q \in [1 .. n -> 1 .. n] /\ \A i \in 1 .. n : q[i] \in 1 .. n
        /\ \A i, j \in 1 .. n : q[i] = q[j] => i = j
        /\ \A i \in 1 .. n : \E j \in 1 .. n : q[j] = i
    BY <2>4 DEF Renumbers
  <2> DEFINE p == [i \in 1 .. n + 1 |-> IF i = 1 THEN m ELSE skip[q[i - 1]]]
  <2>6. /\ p[1] = m
        /\ \A i \in 2 .. n + 1 : i - 1 \in 1 .. n /\ p[i] = skip[q[i - 1]]
        /\ \A i \in 1 .. n + 1 : i = 1 \/ i \in 2 .. n + 1
    OBVIOUS
  <2>7. p \in [1 .. n + 1 -> 1 .. n + 1]
    <3>1. \A i \in 1 .. n + 1 : (IF i = 1 THEN m ELSE skip[q[i - 1]]) \in 1 .. n + 1
      BY <2>2, <2>5, <2>6
    <3> QED
      BY <3>1
  <2> HIDE DEF p, rest
  <2>8. ASSUME NEW i \in 1 .. n + 1, NEW j \in 1 .. n + 1, p[i] = p[j]
        PROVE  i = j
    <3>1. ASSUME NEW k \in 2 .. n + 1
          PROVE  p[k] # m
      <4>2. k - 1 \in 1 .. n /\ p[k] = skip[q[k - 1]]
        BY <2>6, Zenon
      <4>1. q[k - 1] \in 1 .. n /\ p[k] = skip[q[k - 1]]
        BY <2>5, <4>2
      <4> QED
        BY <2>2, <4>1, SMTT(30)
    <3>2. CASE i = 1 \/ j = 1
      BY <2>6, <2>8, <3>1, <3>2
    <3>3. CASE i # 1 /\ j # 1
      <4>1. i - 1 \in 1 .. n /\ j - 1 \in 1 .. n
        BY <3>3
      <4>2. skip[q[i - 1]] = skip[q[j - 1]]
        BY <2>6, <2>8, <3>3
      <4>3. q[i - 1] \in 1 .. n /\ q[j - 1] \in 1 .. n
        BY <2>5, <4>1
      <4>4. \A a, b \in 1 .. n : skip[a] = skip[b] => a = b
        BY <2>2
      <4>5. q[i - 1] = q[j - 1]
        BY <4>2, <4>3, <4>4
      <4>6. \A a, b \in 1 .. n : q[a] = q[b] => a = b
        BY <2>5
      <4>7. i - 1 = j - 1
        BY <4>1, <4>5, <4>6
      <4> QED
        BY <4>7
    <3> QED
      BY <3>2, <3>3
  <2>9. ASSUME NEW k \in 1 .. n + 1
        PROVE  \E i \in 1 .. n + 1 : p[i] = k
    <3>1. CASE k = m
      BY <2>6, <3>1
    <3>2. CASE k # m
      <4>1. PICK i \in 1 .. n : skip[q[i]] = k
        BY <2>2, <2>5, <3>2, SMTT(30)
      <4>2. i + 1 \in 2 .. n + 1 /\ (i + 1) - 1 = i
        OBVIOUS
      <4>3. p[i + 1] = k
        BY <2>6, <4>1, <4>2
      <4> QED
        BY <4>2, <4>3
    <3> QED
      BY <3>1, <3>2
  <2>10. ASSUME NEW i \in 1 .. n + 1, NEW j \in 1 .. n + 1, i < j
         PROVE  key[p[i]] <= key[p[j]]
    <3>1. CASE i = 1
      BY <2>1, <2>6, <2>7, <3>1
    <3>2. CASE i # 1
      <4>1. i - 1 \in 1 .. n /\ j - 1 \in 1 .. n /\ i - 1 < j - 1
        BY <2>10, <3>2
      <4>2. p[i] = skip[q[i - 1]] /\ p[j] = skip[q[j - 1]]
        BY <2>6, <2>10, <3>2
      <4>3. rest[q[i - 1]] <= rest[q[j - 1]]
        BY <2>4, <4>1
      <4>4. rest[q[i - 1]] = key[p[i]] /\ rest[q[j - 1]] = key[p[j]]
        BY <2>5, <4>1, <4>2 DEF rest
      <4> QED
        BY <4>3, <4>4
    <3> QED
      BY <3>1, <3>2
  <2>11. Renumbers(p, n + 1)
    BY <2>7, <2>8, <2>9 DEF Renumbers
  <2> QED
    BY <2>10, <2>11
<1>3. T = Nat
  <2>1. T \in SUBSET Nat
    OBVIOUS
  <2> HIDE DEF T
  <2> QED
    BY <1>1, <1>2, <2>1, Induction
<1> QED
  BY <1>3

\* Hunks can be ordered by where they start.
LEMMA HunksAscend ==
    ASSUME NEW hunks \in Seq(Hunk)
    PROVE  /\ \A i \in 1 .. Len(hunks) : hunks[i].startLine \in Nat
           /\ \E p : /\ Renumbers(p, Len(hunks))
                     /\ \A i, j \in 1 .. Len(hunks) :
                           i < j => hunks[p[i]].startLine <= hunks[p[j]].startLine
<1> DEFINE n == Len(hunks)
           key == [i \in 1 .. n |-> hunks[i].startLine]
<1>1. n \in Nat /\ \A i \in 1 .. n : hunks[i] \in Hunk
  OBVIOUS
<1>2. \A i \in 1 .. n : hunks[i].startLine \in Nat
  BY <1>1 DEF Hunk
<1>3. key \in [1 .. n -> Nat]
  BY <1>2
<1>4. PICK p : Renumbers(p, n) /\ \A i, j \in 1 .. n : i < j => key[p[i]] <= key[p[j]]
  BY <1>1, <1>3, AscendingOrder
<1>5. \A i \in 1 .. n : p[i] \in 1 .. n
  BY <1>4 DEF Renumbers
<1>6. \A i \in 1 .. n : key[p[i]] = hunks[p[i]].startLine
  BY <1>5
<1> HIDE DEF key
<1>7. \A i, j \in 1 .. n : i < j => hunks[p[i]].startLine <= hunks[p[j]].startLine
  BY <1>4, <1>6
<1> QED
  BY <1>2, <1>4, <1>7

\* std::sort on the hunks: the same hunks, each once, from the top.
LEMMA FromTopSorts ==
    ASSUME NEW hunks \in Seq(Hunk)
    PROVE  \E p : /\ Renumbers(p, Len(hunks))
                  /\ FromTop(hunks) = [i \in 1 .. Len(hunks) |-> hunks[p[i]]]
                  /\ \A i, j \in 1 .. Len(hunks) :
                        i < j => hunks[p[i]].startLine <= hunks[p[j]].startLine
<1> DEFINE n == Len(hunks)
           Good(p) == \A i, j \in 1 .. n :
                          i < j => ~(hunks[p[j]].startLine < hunks[p[i]].startLine)
<1>1. n \in Nat /\ DOMAIN hunks = 1 .. n
  OBVIOUS
<1>2. ASSUME NEW p, Renumbers(p, n)
      PROVE  Good(p) <=> \A i, j \in 1 .. n :
                             i < j => hunks[p[i]].startLine <= hunks[p[j]].startLine
  <2>1. \A i \in 1 .. n : p[i] \in 1 .. n
    BY <1>2 DEF Renumbers
  <2>2. \A i \in 1 .. n : hunks[p[i]].startLine \in Nat
    BY <2>1, HunksAscend
  <2> QED
    BY <2>2
<1>3. \E p \in Bijection(1 .. n, 1 .. n) : Good(p)
  BY <1>1, <1>2, HunksAscend, RenumbersIsBijection
<1> DEFINE order == CHOOSE p \in Bijection(1 .. n, 1 .. n) : Good(p)
<1>4. order \in Bijection(1 .. n, 1 .. n) /\ Good(order)
  BY <1>3
<1>5. FromTop(hunks) = [i \in 1 .. n |-> hunks[order[i]]]
  BY <1>1 DEF FromTop, Sorted
<1> HIDE DEF order, Good
<1>6. Renumbers(order, n)
  BY <1>1, <1>4, RenumbersIsBijection
<1> QED
  BY <1>2, <1>4, <1>5, <1>6

\* And from the bottom, which is the other way round.
LEMMA FromBottomSorts ==
    ASSUME NEW hunks \in Seq(Hunk)
    PROVE  \E p : /\ Renumbers(p, Len(hunks))
                  /\ FromBottom(hunks) = [i \in 1 .. Len(hunks) |-> hunks[p[i]]]
                  /\ \A i, j \in 1 .. Len(hunks) :
                        i < j => hunks[p[j]].startLine <= hunks[p[i]].startLine
<1> DEFINE n == Len(hunks)
           Good(p) == \A i, j \in 1 .. n :
                          i < j => ~(hunks[p[j]].startLine > hunks[p[i]].startLine)
<1>1. n \in Nat /\ DOMAIN hunks = 1 .. n
  OBVIOUS
<1>2. ASSUME NEW p, Renumbers(p, n)
      PROVE  Good(p) <=> \A i, j \in 1 .. n :
                             i < j => hunks[p[j]].startLine <= hunks[p[i]].startLine
  <2>1. \A i \in 1 .. n : p[i] \in 1 .. n
    BY <1>2 DEF Renumbers
  <2>2. \A i \in 1 .. n : hunks[p[i]].startLine \in Nat
    BY <2>1, HunksAscend
  <2> QED
    BY <2>2
<1>3. \E p \in Bijection(1 .. n, 1 .. n) : Good(p)
  <2>1. PICK q : /\ Renumbers(q, n)
                 /\ \A i, j \in 1 .. n : i < j => hunks[q[i]].startLine <= hunks[q[j]].startLine
    BY HunksAscend
  <2> DEFINE p == [i \in 1 .. n |-> q[n + 1 - i]]
  <2>2. \A i \in 1 .. n : n + 1 - i \in 1 .. n /\ p[i] = q[n + 1 - i]
    BY <1>1
  <2>3. Renumbers(p, n)
    <3>1. /\ q \in [1 .. n -> 1 .. n] /\ \A i, j \in 1 .. n : q[i] = q[j] => i = j
          /\ \A i \in 1 .. n : \E j \in 1 .. n : q[j] = i
      BY <2>1 DEF Renumbers
    <3>2. p \in [1 .. n -> 1 .. n]
      BY <2>2, <3>1
    <3> HIDE DEF p
    <3>3. ASSUME NEW i \in 1 .. n, NEW j \in 1 .. n, p[i] = p[j]
          PROVE  i = j
      <4>1. n + 1 - i \in 1 .. n /\ n + 1 - j \in 1 .. n
        BY <1>1
      <4>2. q[n + 1 - i] = q[n + 1 - j]
        BY <2>2, <3>3
      <4>3. n + 1 - i = n + 1 - j
        BY <3>1, <4>1, <4>2
      <4> QED
        BY <1>1, <4>3
    <3>4. ASSUME NEW i \in 1 .. n
          PROVE  \E j \in 1 .. n : p[j] = i
      <4>1. PICK j \in 1 .. n : q[j] = i
        BY <3>1
      <4>2. n + 1 - j \in 1 .. n /\ n + 1 - (n + 1 - j) = j
        BY <1>1
      <4> QED
        BY <2>2, <4>1, <4>2
    <3> QED
      BY <3>2, <3>3, <3>4 DEF Renumbers
  <2>4. \A i, j \in 1 .. n : i < j => hunks[p[j]].startLine <= hunks[p[i]].startLine
    <3> SUFFICES ASSUME NEW i \in 1 .. n, NEW j \in 1 .. n, i < j
                 PROVE  hunks[p[j]].startLine <= hunks[p[i]].startLine
      OBVIOUS
    <3>1. n + 1 - j < n + 1 - i
      BY <1>1
    <3> QED
      BY <2>1, <2>2, <3>1
  <2> QED
    BY <1>1, <1>2, <2>3, <2>4, RenumbersIsBijection
<1> DEFINE order == CHOOSE p \in Bijection(1 .. n, 1 .. n) : Good(p)
<1>4. order \in Bijection(1 .. n, 1 .. n) /\ Good(order)
  BY <1>3
<1>5. FromBottom(hunks) = [i \in 1 .. n |-> hunks[order[i]]]
  BY <1>1 DEF FromBottom, Sorted
<1> HIDE DEF order, Good
<1>6. Renumbers(order, n)
  BY <1>1, <1>4, RenumbersIsBijection
<1> QED
  BY <1>2, <1>4, <1>5, <1>6

-----------------------------------------------------------------------------
(* core/Hashline: the loop of ApplyHunks, and FlattenSeq.                   *)

Result == [ok : BOOLEAN, texts : Seq(Text)]

LEMMA ApplyHunkType ==
    ASSUME NEW result \in Result, NEW h \in Hunk
    PROVE  ApplyHunk(result, h) \in Result
<1>1. CASE ApplyHunk(result, h) = Failed
  BY <1>1 DEF Failed, Result
<1>2. CASE ApplyHunk(result, h) # Failed
  <2>1. /\ result.ok /\ EndOf(h) >= h.startLine
        /\ Anchored(result.texts, h.startLine, h.startHash)
        /\ EndOf(h) # h.startLine => Anchored(result.texts, EndOf(h), h.endHash)
    BY <1>2 DEF ApplyHunk
  <2>2. /\ h.startLine \in Nat /\ EndOf(h) \in Nat /\ h.content \in Seq(Text)
        /\ result.texts \in Seq(Text)
    BY DEF Hunk, EndOf, Result
  <2> DEFINE above == SubSeq(result.texts, 1, h.startLine - 1)
             below == SubSeq(result.texts, EndOf(h) + 1, Len(result.texts))
  <2>3. h.startLine \in 1 .. Len(result.texts)
    BY <2>1 DEF Anchored
  <2>4. above \in Seq(Text) /\ below \in Seq(Text)
    <3>1. /\ \A i \in 1 .. h.startLine - 1 : result.texts[i] \in Text
          /\ \A i \in EndOf(h) + 1 .. Len(result.texts) : result.texts[i] \in Text
      BY <2>2, <2>3
    <3> QED
      BY <2>2, <3>1, SubSeqProperties
  <2>5. above \o h.content \o below \in Seq(Text)
    BY <2>2, <2>4, ConcatProperties
  <2>6. ApplyHunk(result, h) = [ok |-> TRUE, texts |-> above \o h.content \o below]
    BY <2>1 DEF ApplyHunk
  <2> QED
    BY <2>5, <2>6 DEF Result
<1> QED
  BY <1>1, <1>2

\* The loop over the hunks, step by step.
LEMMA Loop ==
    ASSUME NEW texts \in Seq(Text), NEW ordered \in Seq(Hunk)
    PROVE  \E w \in [0 .. Len(ordered) -> Result] :
              /\ w[0] = [ok |-> TRUE, texts |-> texts]
              /\ \A k \in 1 .. Len(ordered) : w[k] = ApplyHunk(w[k - 1], ordered[k])
              /\ ApplyInOrder(texts, ordered) = w[Len(ordered)]
<1> DEFINE n == Len(ordered)
           base == [ok |-> TRUE, texts |-> texts]
           step == [k \in 1 .. n |-> [r \in Result |-> ApplyHunk(r, ordered[k])]]
           Is(w) == w = [k \in 0 .. n |-> IF k = 0 THEN base ELSE ApplyHunk(w[k - 1], ordered[k])]
           working == CHOOSE w : Is(w)
<1>1. n \in Nat /\ base \in Result /\ \A k \in 1 .. n : ordered[k] \in Hunk
  BY DEF Result
<1>2. \E w : Is(w)
  <2>1. step \in [1 .. n -> [Result -> Result]]
    BY <1>1, ApplyHunkType
  <2> HIDE DEF step, base, n
  <2>5. n \in Nat /\ base \in Result
    BY <1>1
  <2>6. PICK w : Iterates(w, Result, n, base, step)
    BY <2>1, <2>5, Recursion
  <2>2. w \in [0 .. n -> Result] /\ w[0] = base /\ \A k \in 1 .. n : w[k] = step[k][w[k - 1]]
    BY <2>6 DEF Iterates
  <2>3. ASSUME NEW k \in 0 .. n
        PROVE  w[k] = IF k = 0 THEN base ELSE ApplyHunk(w[k - 1], ordered[k])
    <3>1. CASE k = 0
      BY <2>2, <3>1
    <3>2. CASE k # 0
      <4>1. k - 1 \in 0 .. n /\ k \in 1 .. n
        BY <1>1, <3>2
      <4>2. w[k - 1] \in Result /\ w[k] = step[k][w[k - 1]]
        BY <2>2, <4>1
      <4> QED
        BY <3>2, <4>1, <4>2 DEF step
    <3> QED
      BY <3>1, <3>2
  <2>4. w = [k \in 0 .. n |-> IF k = 0 THEN base ELSE ApplyHunk(w[k - 1], ordered[k])]
    BY <2>2, <2>3
  <2> QED
    BY <2>4
<1>3. Is(working)
  BY <1>2
<1>4. ApplyInOrder(texts, ordered) = working[n]
  BY DEF ApplyInOrder
<1> HIDE DEF working, base, n
<1>5. /\ working[0] = base
      /\ \A k \in 1 .. n : k - 1 \in 0 .. n /\ working[k] = ApplyHunk(working[k - 1], ordered[k])
  BY <1>1, <1>3
<1>6. \A k \in 0 .. n : working[k] \in Result
  <2> DEFINE T == {k \in Nat : k <= n => working[k] \in Result}
  <2>1. 0 \in T
    BY <1>1, <1>5
  <2>2. ASSUME NEW k \in Nat, k \in T PROVE k + 1 \in T
    <3> SUFFICES ASSUME k + 1 <= n PROVE working[k + 1] \in Result
      OBVIOUS
    <3>1. k + 1 \in 1 .. n /\ (k + 1) - 1 = k /\ working[k] \in Result
      BY <1>1, <2>2
    <3> QED
      BY <1>1, <1>5, <3>1, ApplyHunkType
  <2>3. T = Nat
    <3>1. T \in SUBSET Nat
      OBVIOUS
    <3> HIDE DEF T
    <3> QED
      BY <2>1, <2>2, <3>1, Induction
  <2> QED
    BY <1>1, <2>3
<1>7. working \in [0 .. n -> Result]
  BY <1>3, <1>6
<1> QED
  BY <1>4, <1>5, <1>7 DEF base, n

\* FlattenSeq, one sequence after the other.
LEMMA Flatten ==
    ASSUME NEW S, NEW seqs \in Seq(Seq(S))
    PROVE  \E flat \in [0 .. Len(seqs) -> Seq(S)] :
              /\ flat[0] = <<>>
              /\ \A i \in 1 .. Len(seqs) : flat[i] = flat[i - 1] \o seqs[i]
              /\ FlattenSeq(seqs) = flat[Len(seqs)]
<1> DEFINE n == Len(seqs)
           step == [i \in 1 .. n |-> [s \in Seq(S) |-> s \o seqs[i]]]
           Is(f) == f = [i \in 1 .. n |-> IF i = 1 THEN seqs[i] ELSE f[i - 1] \o seqs[i]]
           flatten == CHOOSE f : Is(f)
<1>1. n \in Nat /\ <<>> \in Seq(S) /\ \A i \in 1 .. n : seqs[i] \in Seq(S)
  OBVIOUS
<1>2. PICK flat \in [0 .. n -> Seq(S)] :
          flat[0] = <<>> /\ \A i \in 1 .. n : flat[i] = flat[i - 1] \o seqs[i]
  <2>1. step \in [1 .. n -> [Seq(S) -> Seq(S)]]
    BY <1>1, ConcatProperties
  <2> HIDE DEF step, n
  <2>5. n \in Nat /\ <<>> \in Seq(S)
    BY <1>1
  <2>6. PICK f : Iterates(f, Seq(S), n, <<>>, step)
    BY <2>1, <2>5, Recursion
  <2>2. f \in [0 .. n -> Seq(S)] /\ f[0] = <<>> /\ \A i \in 1 .. n : f[i] = step[i][f[i - 1]]
    BY <2>6 DEF Iterates
  <2>4. ASSUME NEW i \in 1 .. n
        PROVE  f[i] = f[i - 1] \o seqs[i]
    <3>1. i - 1 \in 0 .. n /\ i \in 0 .. n /\ i # 0
      BY <1>1
    <3>2. f[i - 1] \in Seq(S) /\ f[i] = step[i][f[i - 1]]
      BY <2>2, <3>1
    <3> QED
      BY <3>2 DEF step
  <2> QED
    BY <2>2, <2>4
<1>3. CASE n = 0
  <2>1. seqs = <<>>
    BY <1>3
  <2>2. FlattenSeq(seqs) = <<>>
    BY <2>1 DEF FlattenSeq
  <2> QED
    BY <1>2, <1>3, <2>2
<1>4. CASE n # 0
  <2>0. 1 \in 1 .. n /\ flat[1] = seqs[1]
    <3>1. 1 \in 1 .. n /\ 1 - 1 = 0
      BY <1>1, <1>4
    <3>2. flat[1] = <<>> \o seqs[1]
      BY <1>2, <3>1
    <3>3. seqs[1] \in Seq(S)
      BY <1>1, <3>1
    <3> QED
      BY <3>1, <3>2, <3>3, ConcatEmptySeq
  <2>1. \E f : Is(f)
    <3> DEFINE f == [i \in 1 .. n |-> flat[i]]
    <3>1. ASSUME NEW i \in 1 .. n
          PROVE  flat[i] = IF i = 1 THEN seqs[i] ELSE f[i - 1] \o seqs[i]
      <4>1. CASE i = 1
        BY <2>0, <4>1
      <4>2. CASE i # 1
        <5>1. i - 1 \in 1 .. n
          BY <1>1, <4>2
        <5>2. f[i - 1] = flat[i - 1]
          BY <5>1
        <5>3. flat[i] = flat[i - 1] \o seqs[i]
          BY <1>2
        <5> HIDE DEF f
        <5> QED
          BY <4>2, <5>2, <5>3
      <4> HIDE DEF f
      <4> QED
        BY <4>1, <4>2
    <3>2. f = [i \in 1 .. n |-> IF i = 1 THEN seqs[i] ELSE f[i - 1] \o seqs[i]]
      BY <3>1
    <3> QED
      BY <3>2
  <2>2. Is(flatten)
    BY <2>1
  <2>3. FlattenSeq(seqs) = flatten[n]
    BY <1>4 DEF FlattenSeq
  <2> HIDE DEF flatten
  <2>8. /\ flatten[1] = seqs[1]
        /\ \A i \in 1 .. n : i # 1 => flatten[i] = flatten[i - 1] \o seqs[i]
    BY <2>0, <2>2
  <2> DEFINE T == {i \in Nat : i + 1 <= n => flatten[i + 1] = flat[i + 1]}
  <2>4. 0 \in T
    <3>1. 0 + 1 = 1 /\ 0 \in Nat
      OBVIOUS
    <3> QED
      BY <2>0, <2>8, <3>1
  <2>5. ASSUME NEW i \in Nat, i \in T PROVE i + 1 \in T
    <3> SUFFICES ASSUME (i + 1) + 1 <= n PROVE flatten[(i + 1) + 1] = flat[(i + 1) + 1]
      OBVIOUS
    <3>1. flatten[i + 1] = flat[i + 1]
      BY <1>1, <2>5
    <3> DEFINE j == (i + 1) + 1
    <3>2. j \in 1 .. n /\ j - 1 = i + 1 /\ j # 1
      BY <1>1
    <3> HIDE DEF j
    <3>3. flatten[j] = flatten[j - 1] \o seqs[j] /\ flat[j] = flat[j - 1] \o seqs[j]
      BY <1>2, <2>8, <3>2
    <3>4. flatten[j] = flat[j]
      BY <3>1, <3>2, <3>3
    <3> QED
      BY <3>4 DEF j
  <2>6. T = Nat
    <3>1. T \in SUBSET Nat
      OBVIOUS
    <3> HIDE DEF T
    <3> QED
      BY <2>4, <2>5, <3>1, Induction
  <2>7. n - 1 \in Nat /\ (n - 1) + 1 = n /\ n <= n
    BY <1>1, <1>4
  <2>9. flatten[n] = flat[n]
    <3>1. n - 1 \in T
      BY <2>6, <2>7
    <3> QED
      BY <2>7, <3>1
  <2> QED
    BY <1>2, <2>3, <2>9
<1> QED
  BY <1>3, <1>4

-----------------------------------------------------------------------------
(* One hunk on lines of which those above m are still the file's.           *)

\* What ApplyHunk asks of the lines and the hunk.
Fits(texts, h) ==
    /\ EndOf(h) >= h.startLine
    /\ Anchored(texts, h.startLine, h.startHash)
    /\ EndOf(h) # h.startLine => Anchored(texts, EndOf(h), h.endHash)

\* The lines with h applied.
Replaced(texts, h) ==
    SubSeq(texts, 1, h.startLine - 1) \o h.content \o SubSeq(texts, EndOf(h) + 1, Len(texts))

\* Its content, the lines from its end to m, and R.
Below(texts, h, m, R) == h.content \o SubSeq(texts, EndOf(h) + 1, m - 1) \o R

LEMMA HunkParts ==
    ASSUME NEW h \in Hunk
    PROVE  h.startLine \in Nat \ {0} /\ EndOf(h) \in Nat /\ h.content \in Seq(Text)
  BY DEF Hunk, EndOf

LEMMA Concatenations ==
    /\ \A s, t \in Seq(Text) : s \o t \in Seq(Text)
    /\ \A s, t, u \in Seq(Text) : (s \o t) \o u = s \o (t \o u)
    /\ \A s \in Seq(Text) : s \o <<>> = s /\ <<>> \o s = s
<1>1. ASSUME NEW s \in Seq(Text), NEW t \in Seq(Text)
      PROVE  s \o t \in Seq(Text)
  BY ConcatProperties
<1>2. ASSUME NEW s \in Seq(Text), NEW t \in Seq(Text), NEW u \in Seq(Text)
      PROVE  (s \o t) \o u = s \o (t \o u)
  BY ConcatAssociative
<1>3. ASSUME NEW s \in Seq(Text)
      PROVE  s \o <<>> = s /\ <<>> \o s = s
  BY ConcatEmptySeq
<1> QED
  BY <1>1, <1>2, <1>3

\* A part of a file is made of the file's lines.
LEMMA Part ==
    ASSUME NEW texts \in Seq(Text), NEW a \in Nat \ {0}, NEW b \in 0 .. Len(texts)
    PROVE  /\ SubSeq(texts, a, b) \in Seq(Text)
           /\ Len(SubSeq(texts, a, b)) = IF a <= b THEN b - a + 1 ELSE 0
           /\ \A i \in 1 .. b - a + 1 : SubSeq(texts, a, b)[i] = texts[a + i - 1]
<1>1. a \in Int /\ b \in Int
  OBVIOUS
<1>2. \A i \in a .. b : texts[i] \in Text
  OBVIOUS
<1> QED
  BY <1>1, <1>2, SubSeqProperties

\* The lines above m are as they were: R is what the hunks have made of the others.
LEMMA Kept ==
    ASSUME NEW texts \in Seq(Text), NEW m \in 1 .. Len(texts) + 1, NEW R \in Seq(Text),
           NEW W, W = SubSeq(texts, 1, m - 1) \o R
    PROVE  /\ W \in Seq(Text)
           /\ Len(W) = m - 1 + Len(R)
           /\ \A i \in 1 .. m - 1 : W[i] = texts[i]
           /\ \A i \in 1 .. Len(R) : W[m - 1 + i] = R[i]
<1> DEFINE above == SubSeq(texts, 1, m - 1)
<1>1. Len(texts) \in Nat /\ Len(R) \in Nat /\ m - 1 \in 0 .. Len(texts) /\ 1 \in Nat \ {0}
  OBVIOUS
<1>2. /\ above \in Seq(Text) /\ Len(above) = m - 1
      /\ \A i \in 1 .. m - 1 : above[i] = texts[i]
  <2>1. /\ above \in Seq(Text) /\ Len(above) = IF 1 <= m - 1 THEN m - 1 - 1 + 1 ELSE 0
        /\ \A i \in 1 .. m - 1 - 1 + 1 : above[i] = texts[1 + i - 1]
    BY <1>1, Part
  <2>2. m - 1 - 1 + 1 = m - 1 /\ \A i \in 1 .. m - 1 : 1 + i - 1 = i
    BY <1>1
  <2> HIDE DEF above
  <2> QED
    BY <1>1, <2>1, <2>2
<1> HIDE DEF above
<1>3. W = above \o R
  BY DEF above
<1>4. /\ W \in Seq(Text) /\ Len(W) = Len(above) + Len(R)
      /\ \A i \in 1 .. Len(above) + Len(R) :
            W[i] = IF i <= Len(above) THEN above[i] ELSE R[i - Len(above)]
  BY <1>2, <1>3, ConcatProperties, SMTT(30)
<1>5. ASSUME NEW i \in 1 .. m - 1
      PROVE  W[i] = texts[i]
  BY <1>1, <1>2, <1>4
<1>6. ASSUME NEW i \in 1 .. Len(R)
      PROVE  W[m - 1 + i] = R[i]
  <2>1. /\ m - 1 + i \in 1 .. Len(above) + Len(R) /\ ~(m - 1 + i <= Len(above))
        /\ m - 1 + i - Len(above) = i
    BY <1>1, <1>2
  <2>2. \A k \in 1 .. Len(above) + Len(R) : ~(k <= Len(above)) => W[k] = R[k - Len(above)]
    BY <1>4
  <2> QED
    BY <2>1, <2>2, SMTT(30)
<1> QED
  BY <1>2, <1>4, <1>5, <1>6

\* A hunk that ends above m meets the same lines.
LEMMA SameFit ==
    ASSUME NEW texts \in Seq(Text), NEW m \in 1 .. Len(texts) + 1, NEW R \in Seq(Text),
           NEW W, W = SubSeq(texts, 1, m - 1) \o R,
           NEW h \in Hunk, EndOf(h) < m
    PROVE  Fits(W, h) <=> Fits(texts, h)
<1>1. /\ h.startLine \in Nat \ {0} /\ EndOf(h) \in Nat
      /\ Len(texts) \in Nat /\ Len(R) \in Nat
      /\ Len(W) = m - 1 + Len(R) /\ \A i \in 1 .. m - 1 : W[i] = texts[i]
  BY HunkParts, Kept
<1>2. ASSUME EndOf(h) >= h.startLine, NEW line \in {h.startLine, EndOf(h)}, NEW hash
      PROVE  Anchored(W, line, hash) <=> Anchored(texts, line, hash)
  <2>1. line \in 1 .. m - 1 /\ line \in 1 .. Len(texts) /\ line \in 1 .. Len(W)
    BY <1>1, <1>2, SMTT(30)
  <2>2. W[line] = texts[line]
    BY <1>1, <2>1
  <2> QED
    BY <2>1, <2>2 DEF Anchored
<1> QED
  BY <1>2 DEF Fits

\* What the hunk leaves: the lines above it as they were, and then its content, the
\* lines down to m and what was made of the others.
LEMMA Rewrites ==
    ASSUME NEW texts \in Seq(Text), NEW m \in 1 .. Len(texts) + 1, NEW R \in Seq(Text),
           NEW W, W = SubSeq(texts, 1, m - 1) \o R,
           NEW h \in Hunk, h.startLine <= EndOf(h), EndOf(h) < m
    PROVE  /\ Below(texts, h, m, R) \in Seq(Text)
           /\ Replaced(W, h) = SubSeq(texts, 1, h.startLine - 1) \o Below(texts, h, m, R)
<1> DEFINE s == h.startLine
           e == EndOf(h)
           gap == SubSeq(texts, e + 1, m - 1)
           rest == SubSeq(W, e + 1, Len(W))
<1>1. /\ s \in Nat \ {0} /\ e \in Nat /\ h.content \in Seq(Text)
      /\ Len(texts) \in Nat /\ Len(R) \in Nat
      /\ W \in Seq(Text) /\ Len(W) = m - 1 + Len(R)
      /\ \A i \in 1 .. m - 1 : W[i] = texts[i]
      /\ \A i \in 1 .. Len(R) : W[m - 1 + i] = R[i]
  <2>1. s \in Nat \ {0} /\ e \in Nat /\ h.content \in Seq(Text)
    BY HunkParts, Zenon DEF s, e
  <2>2. Len(texts) \in Nat /\ Len(R) \in Nat
    OBVIOUS
  <2>3. /\ W \in Seq(Text) /\ Len(W) = m - 1 + Len(R)
        /\ \A i \in 1 .. m - 1 : W[i] = texts[i]
        /\ \A i \in 1 .. Len(R) : W[m - 1 + i] = R[i]
    BY Kept, SMTT(30)
  <2> QED
    BY <2>1, <2>2, <2>3, Zenon
<1>11. s <= e /\ e < m
  OBVIOUS
<1> HIDE DEF s, e
<1>2. SubSeq(W, 1, s - 1) \in Seq(Text) /\ SubSeq(W, 1, s - 1) = SubSeq(texts, 1, s - 1)
  <2> DEFINE a == SubSeq(W, 1, s - 1)
             b == SubSeq(texts, 1, s - 1)
  <2>1. 1 \in Nat \ {0} /\ s - 1 \in 0 .. Len(W) /\ s - 1 \in 0 .. Len(texts)
    BY <1>1, <1>11
  <2>2. /\ a \in Seq(Text) /\ Len(a) = IF 1 <= s - 1 THEN s - 1 - 1 + 1 ELSE 0
        /\ \A i \in 1 .. s - 1 - 1 + 1 : a[i] = W[1 + i - 1]
    BY <1>1, <2>1, Part
  <2>3. /\ b \in Seq(Text) /\ Len(b) = IF 1 <= s - 1 THEN s - 1 - 1 + 1 ELSE 0
        /\ \A i \in 1 .. s - 1 - 1 + 1 : b[i] = texts[1 + i - 1]
    BY <1>1, <2>1, Part
  <2> HIDE DEF a, b
  <2>4. ASSUME NEW i \in 1 .. Len(a)
        PROVE  a[i] = b[i]
    <3>1. i \in 1 .. s - 1 - 1 + 1 /\ 1 + i - 1 = i /\ i \in 1 .. m - 1
      BY <1>1, <1>11, <2>2
    <3> QED
      BY <1>1, <2>2, <2>3, <3>1
  <2>5. a = b
    BY <2>2, <2>3, <2>4, SeqEqual
  <2> QED
    BY <2>2, <2>5 DEF a, b
<1>3. /\ gap \in Seq(Text) /\ Len(gap) = m - 1 - e
      /\ \A i \in 1 .. m - 1 - e : gap[i] = texts[e + i]
  <2>1. e + 1 \in Nat \ {0} /\ m - 1 \in 0 .. Len(texts)
    BY <1>1, <1>11
  <2>2. /\ gap \in Seq(Text) /\ Len(gap) = IF e + 1 <= m - 1 THEN m - 1 - (e + 1) + 1 ELSE 0
        /\ \A i \in 1 .. m - 1 - (e + 1) + 1 : gap[i] = texts[e + 1 + i - 1]
    BY <2>1, Part
  <2> HIDE DEF gap
  <2>3. m - 1 - (e + 1) + 1 = m - 1 - e /\ \A i \in 1 .. m - 1 - e : e + 1 + i - 1 = e + i
    BY <1>1, <1>11
  <2> QED
    BY <1>1, <1>11, <2>2, <2>3
<1>4. /\ rest \in Seq(Text) /\ Len(rest) = Len(W) - e
      /\ \A i \in 1 .. Len(W) - e : rest[i] = W[e + i]
  <2>1. e + 1 \in Nat \ {0} /\ Len(W) \in 0 .. Len(W)
    BY <1>1, <1>11
  <2>2. /\ rest \in Seq(Text) /\ Len(rest) = IF e + 1 <= Len(W) THEN Len(W) - (e + 1) + 1 ELSE 0
        /\ \A i \in 1 .. Len(W) - (e + 1) + 1 : rest[i] = W[e + 1 + i - 1]
    BY <1>1, <2>1, Part
  <2> HIDE DEF rest
  <2>3. /\ Len(W) - (e + 1) + 1 = Len(W) - e /\ (e + 1 <= Len(W) \/ Len(W) - e = 0)
        /\ \A i \in 1 .. Len(W) - e : e + 1 + i - 1 = e + i
    <3>1. e <= Len(W) /\ e \in Nat /\ Len(W) \in Nat
      BY <1>1, <1>11
    <3> QED
      BY <3>1
  <2>4. Len(rest) = Len(W) - e
    BY <1>1, <1>11, <2>2, <2>3
  <2>5. ASSUME NEW i \in 1 .. Len(W) - e
        PROVE  rest[i] = W[e + i]
    BY <2>2, <2>3
  <2> QED
    BY <2>2, <2>4, <2>5
<1> HIDE DEF gap, rest
<1>5. rest = gap \o R
  <2> DEFINE b == gap \o R
  <2>1. /\ b \in Seq(Text) /\ Len(b) = Len(gap) + Len(R)
        /\ \A i \in 1 .. Len(gap) + Len(R) :
              b[i] = IF i <= Len(gap) THEN gap[i] ELSE R[i - Len(gap)]
    BY <1>3, ConcatProperties
  <2> HIDE DEF b
  <2>2. Len(rest) = Len(b)
    BY <1>1, <1>11, <1>3, <1>4, <2>1
  <2>3. ASSUME NEW i \in 1 .. Len(rest)
        PROVE  rest[i] = b[i]
    <3>1. i \in 1 .. Len(gap) + Len(R) /\ i \in 1 .. Len(W) - e
      BY <1>4, <2>1, <2>2
    <3>2. CASE i <= Len(gap)
      <4>1. i \in 1 .. m - 1 - e /\ e + i \in 1 .. m - 1
        BY <1>1, <1>11, <1>3, <3>1, <3>2
      <4> QED
        BY <1>1, <1>3, <1>4, <2>1, <3>1, <3>2, <4>1
    <3>3. CASE i > Len(gap)
      <4>1. /\ i - Len(gap) \in 1 .. Len(R) /\ m - 1 + (i - Len(gap)) = e + i
            /\ ~(i <= Len(gap))
        <5>1. /\ Len(gap) = m - 1 - e /\ Len(R) \in Nat /\ m \in Nat /\ e \in Nat /\ e < m
              /\ i \in Nat /\ i <= Len(gap) + Len(R) /\ i > Len(gap)
          BY <1>1, <1>11, <1>3, <3>1, <3>3
        <5> QED
          BY <5>1
      <4>2. rest[i] = W[e + i] /\ b[i] = R[i - Len(gap)]
        BY <1>4, <2>1, <3>1, <4>1
      <4>3. W[m - 1 + (i - Len(gap))] = R[i - Len(gap)]
        BY <1>1, <4>1
      <4> QED
        BY <4>1, <4>2, <4>3
    <3> QED
      BY <1>3, <3>2, <3>3
  <2>4. rest = b
    BY <1>4, <2>1, <2>2, <2>3, SeqEqual
  <2> QED
    BY <2>4 DEF b
<1> DEFINE above == SubSeq(texts, 1, s - 1)
<1>6. above \in Seq(Text)
  BY <1>2
<1> HIDE DEF above
<1>12. h.content \in Seq(Text) /\ gap \in Seq(Text)
  BY <1>1, <1>3
<1>7. h.content \o gap \o R = h.content \o (gap \o R) /\ gap \o R \in Seq(Text)
  BY <1>12, Concatenations, ZenonT(60)
<1>8. above \o h.content \o (gap \o R) = above \o (h.content \o (gap \o R))
  BY <1>12, <1>6, <1>7, Concatenations, ZenonT(60)
<1>9. h.content \o (gap \o R) \in Seq(Text)
  BY <1>1, <1>7, ConcatProperties
<1> QED
  BY <1>2, <1>5, <1>7, <1>8, <1>9 DEF above, gap, rest, s, e, Below, Replaced

-----------------------------------------------------------------------------
(* All the hunks, from the bottom.                                          *)

\* Where the lines that the first k hunks have not touched end.
Reached(texts, ordered, k) == IF k = 0 THEN Len(texts) + 1 ELSE ordered[k].startLine

AllFit(texts, ordered) == \A i \in 1 .. Len(ordered) : Fits(texts, ordered[i])

\* Each hunk ends above the one before it.
Descends(ordered) ==
    \A i, j \in 1 .. Len(ordered) : i < j => EndOf(ordered[j]) < ordered[i].startLine

\* flat[i], which is meant to be what becomes of the lines 1 .. i, agrees with the hunks.
Follows(flat, texts, ordered) ==
    \A k \in 1 .. Len(ordered) :
        flat[Reached(texts, ordered, k - 1) - 1]
            = flat[ordered[k].startLine - 1] \o
                 (ordered[k].content \o
                      SubSeq(texts, EndOf(ordered[k]) + 1, Reached(texts, ordered, k - 1) - 1))

LEMMA FitIsInside ==
    ASSUME NEW texts \in Seq(Text), NEW h \in Hunk, Fits(texts, h)
    PROVE  /\ h.startLine \in 1 .. Len(texts) /\ EndOf(h) \in 1 .. Len(texts)
           /\ h.startLine <= EndOf(h)
<1>1. h.startLine \in Nat /\ EndOf(h) \in Nat
  BY HunkParts
<1> QED
  BY <1>1 DEF Fits, Anchored

LEMMA ApplyHunkCases ==
    ASSUME NEW result \in Result, NEW h \in Hunk
    PROVE  /\ ApplyHunk(result, h).ok <=> result.ok /\ Fits(result.texts, h)
           /\ ApplyHunk(result, h).ok =>
                 ApplyHunk(result, h).texts = Replaced(result.texts, h)
<1>1. result.ok \in BOOLEAN
  BY DEF Result
<1>2. CASE result.ok /\ Fits(result.texts, h)
  <2>1. ApplyHunk(result, h) = [ok |-> TRUE, texts |-> Replaced(result.texts, h)]
    BY <1>2 DEF ApplyHunk, Fits, Replaced
  <2> QED
    BY <1>2, <2>1
<1>3. CASE ~(result.ok /\ Fits(result.texts, h))
  <2>1. ApplyHunk(result, h) = Failed
    BY <1>1, <1>3 DEF ApplyHunk, Fits
  <2>2. ~ApplyHunk(result, h).ok
    BY <2>1 DEF Failed
  <2> QED
    BY <1>3, <2>2
<1> QED
  BY <1>2, <1>3

\* The state of the loop after k hunks.
LoopInv(texts, ordered, flat, result, k) ==
    /\ result.ok <=> \A i \in 1 .. k : Fits(texts, ordered[i])
    /\ result.ok =>
          \E R \in Seq(Text) :
              /\ result.texts = SubSeq(texts, 1, Reached(texts, ordered, k) - 1) \o R
              /\ AllFit(texts, ordered) =>
                    flat[Len(texts)] = flat[Reached(texts, ordered, k) - 1] \o R

LEMMA LoopStarts ==
    ASSUME NEW texts \in Seq(Text), NEW ordered \in Seq(Hunk),
           NEW flat \in [0 .. Len(texts) -> Seq(Text)]
    PROVE  LoopInv(texts, ordered, flat, [ok |-> TRUE, texts |-> texts], 0)
<1>1. Reached(texts, ordered, 0) - 1 = Len(texts) /\ Len(texts) \in Nat /\ Len(texts) \in 0 .. Len(texts)
  BY DEF Reached
<1>2. texts = SubSeq(texts, 1, Len(texts))
  BY SubSeqFull
<1>3. flat[Len(texts)] \in Seq(Text) /\ <<>> \in Seq(Text)
  BY <1>1
<1>4. texts = texts \o <<>> /\ flat[Len(texts)] = flat[Len(texts)] \o <<>>
  BY <1>3, Concatenations
<1>5. \E R \in Seq(Text) :
          /\ texts = SubSeq(texts, 1, Reached(texts, ordered, 0) - 1) \o R
          /\ flat[Len(texts)] = flat[Reached(texts, ordered, 0) - 1] \o R
  BY <1>1, <1>2, <1>3, <1>4
<1>6. \A i \in 1 .. 0 : Fits(texts, ordered[i])
  OBVIOUS
<1> DEFINE result == [ok |-> TRUE, texts |-> texts]
<1>7. result.ok /\ result.texts = texts
  OBVIOUS
<1> HIDE DEF result
<1>8. LoopInv(texts, ordered, flat, result, 0)
  BY <1>5, <1>6, <1>7 DEF LoopInv
<1> QED
  BY <1>8 DEF result

LEMMA LoopGoesOn ==
    ASSUME NEW texts \in Seq(Text), NEW ordered \in Seq(Hunk), Descends(ordered),
           NEW flat \in [0 .. Len(texts) -> Seq(Text)],
           AllFit(texts, ordered) => Follows(flat, texts, ordered),
           NEW result \in Result, NEW k \in 1 .. Len(ordered),
           LoopInv(texts, ordered, flat, result, k - 1),
           k = 1 => result.texts = texts
    PROVE  LoopInv(texts, ordered, flat, ApplyHunk(result, ordered[k]), k)
<1> DEFINE h == ordered[k]
           m == Reached(texts, ordered, k - 1)
           next == ApplyHunk(result, h)
<1>1. h \in Hunk /\ Len(ordered) \in Nat /\ k - 1 \in Nat /\ Len(texts) \in Nat
  OBVIOUS
<1>2. /\ h.startLine \in Nat \ {0} /\ EndOf(h) \in Nat /\ h.content \in Seq(Text)
  BY <1>1, HunkParts
<1>3. /\ next.ok <=> result.ok /\ Fits(result.texts, h)
      /\ next.ok => next.texts = Replaced(result.texts, h)
  BY <1>1, ApplyHunkCases
<1>4. result.ok <=> \A i \in 1 .. k - 1 : Fits(texts, ordered[i])
  BY DEF LoopInv
<1>5. (\A i \in 1 .. k : Fits(texts, ordered[i])) <=>
          (\A i \in 1 .. k - 1 : Fits(texts, ordered[i])) /\ Fits(texts, h)
  <2>1. \A i \in 1 .. k : i = k \/ i \in 1 .. k - 1
    OBVIOUS
  <2>2. k \in 1 .. k /\ \A i \in 1 .. k - 1 : i \in 1 .. k
    OBVIOUS
  <2> QED
    BY <2>1, <2>2
<1>6. CASE ~result.ok
  BY <1>3, <1>4, <1>5, <1>6 DEF LoopInv
<1>7. CASE result.ok
  <2>1. PICK R \in Seq(Text) :
            /\ result.texts = SubSeq(texts, 1, m - 1) \o R
            /\ AllFit(texts, ordered) => flat[Len(texts)] = flat[m - 1] \o R
    BY <1>7 DEF LoopInv
  <2>2. m \in 1 .. Len(texts) + 1
    <3>1. CASE k = 1
      BY <1>1, <3>1 DEF Reached
    <3>2. CASE k # 1
      <4>1. k - 1 \in 1 .. Len(ordered) /\ k - 1 \in 1 .. k - 1 /\ k - 1 # 0
        BY <1>1, <3>2
      <4>2. ordered[k - 1] \in Hunk /\ Fits(texts, ordered[k - 1])
        BY <1>4, <1>7, <4>1
      <4>3. ordered[k - 1].startLine \in 1 .. Len(texts)
        BY <4>2, FitIsInside
      <4> QED
        BY <1>1, <4>1, <4>3 DEF Reached
    <3> QED
      BY <3>1, <3>2
  <2>3. k # 1 => EndOf(h) < m
    <3> SUFFICES ASSUME k # 1 PROVE EndOf(h) < m
      OBVIOUS
    <3>1. k - 1 \in 1 .. Len(ordered) /\ k - 1 < k /\ k - 1 # 0
      BY <1>1
    <3> QED
      BY <3>1 DEF Descends, Reached
  <2> HIDE DEF m, h
  <2>4. Fits(result.texts, h) <=> Fits(texts, h)
    <3>1. CASE k = 1
      BY <3>1
    <3>2. CASE k # 1
      BY <1>1, <2>1, <2>2, <2>3, <3>2, SameFit
    <3> QED
      BY <3>1, <3>2
  <2>5. CASE ~Fits(texts, h)
    BY <1>3, <1>4, <1>5, <2>4, <2>5 DEF LoopInv, h
  <2>6. CASE Fits(texts, h)
    <3> DEFINE below == Below(texts, h, m, R)
    <3>1. h.startLine \in 1 .. Len(texts) /\ EndOf(h) \in 1 .. Len(texts) /\ h.startLine <= EndOf(h)
      BY <1>1, <2>6, FitIsInside
    <3>2. EndOf(h) < m
      <4>1. CASE k = 1
        <5>1. m = Len(texts) + 1
          BY <4>1 DEF m, Reached
        <5> QED
          BY <1>1, <3>1, <5>1
      <4>2. CASE k # 1
        BY <2>3, <4>2
      <4> QED
        BY <4>1, <4>2
    <3>3. /\ below \in Seq(Text)
          /\ Replaced(result.texts, h) = SubSeq(texts, 1, h.startLine - 1) \o below
      BY <1>1, <2>1, <2>2, <3>1, <3>2, Rewrites, ZenonT(60)
    <3>4. Reached(texts, ordered, k) = h.startLine
      BY <1>1 DEF Reached, h
    <3>5. next.ok /\ next.texts = SubSeq(texts, 1, Reached(texts, ordered, k) - 1) \o below
      BY <1>3, <1>7, <2>4, <2>6, <3>3, <3>4
    <3>6. AllFit(texts, ordered) =>
              flat[Len(texts)] = flat[Reached(texts, ordered, k) - 1] \o below
      <4> SUFFICES ASSUME AllFit(texts, ordered)
                   PROVE  flat[Len(texts)] = flat[h.startLine - 1] \o below
        BY <3>4
      <4> DEFINE gap == SubSeq(texts, EndOf(h) + 1, m - 1)
                 first == flat[h.startLine - 1]
      <4>1. flat[Len(texts)] = flat[m - 1] \o R
        BY <2>1
      <4>2. flat[m - 1] = first \o (h.content \o gap)
        BY DEF Follows, m, h
      <4>3. first \in Seq(Text)
        <5>1. h.startLine - 1 \in 0 .. Len(texts)
          BY <1>1, <3>1
        <5> QED
          BY <5>1
      <4>4. gap \in Seq(Text)
        <5>1. EndOf(h) + 1 \in Nat \ {0} /\ m - 1 \in 0 .. Len(texts)
          BY <1>1, <1>2, <2>2
        <5> QED
          BY <5>1, Part
      <4>5. h.content \in Seq(Text)
        BY <1>2
      <4> HIDE DEF gap, first
      <4>6. h.content \o gap \in Seq(Text)
        BY <4>4, <4>5, Concatenations
      <4>7. (first \o (h.content \o gap)) \o R = first \o ((h.content \o gap) \o R)
        BY <4>3, <4>6, Concatenations, ZenonT(60)
      <4> QED
        BY <4>1, <4>2, <4>7 DEF gap, first, Below
    <3> HIDE DEF below, next
    <3> QED
      BY <1>4, <1>5, <1>7, <2>6, <3>3, <3>5, <3>6 DEF LoopInv, next, h
  <2> QED
    BY <2>5, <2>6
<1> QED
  BY <1>6, <1>7

\* After all the hunks.
LEMMA LoopEnds ==
    ASSUME NEW texts \in Seq(Text), NEW ordered \in Seq(Hunk), Descends(ordered),
           NEW flat \in [0 .. Len(texts) -> Seq(Text)],
           AllFit(texts, ordered) => Follows(flat, texts, ordered)
    PROVE  LoopInv(texts, ordered, flat, ApplyInOrder(texts, ordered), Len(ordered))
<1> DEFINE n == Len(ordered)
<1>1. n \in Nat
  OBVIOUS
<1>2. PICK w \in [0 .. n -> Result] :
          /\ w[0] = [ok |-> TRUE, texts |-> texts]
          /\ \A k \in 1 .. n : w[k] = ApplyHunk(w[k - 1], ordered[k])
          /\ ApplyInOrder(texts, ordered) = w[n]
  BY Loop
<1> DEFINE T == {k \in Nat : k <= n => LoopInv(texts, ordered, flat, w[k], k)}
<1>3. 0 \in T
  BY <1>2, LoopStarts
<1>4. ASSUME NEW k \in Nat, k \in T PROVE k + 1 \in T
  <2> SUFFICES ASSUME k + 1 <= n PROVE LoopInv(texts, ordered, flat, w[k + 1], k + 1)
    OBVIOUS
  <2> DEFINE j == k + 1
  <2>1. j \in 1 .. n /\ j - 1 = k /\ j - 1 \in 0 .. n /\ k <= n /\ (j = 1 => k = 0)
    BY <1>1
  <2> HIDE DEF j, n
  <2>2. w[j - 1] \in Result /\ w[j] = ApplyHunk(w[j - 1], ordered[j])
    BY <1>2, <2>1
  <2>3. LoopInv(texts, ordered, flat, w[j - 1], j - 1)
    BY <1>4, <2>1
  <2>4. j = 1 => w[j - 1].texts = texts
    BY <1>2, <2>1
  <2>5. LoopInv(texts, ordered, flat, ApplyHunk(w[j - 1], ordered[j]), j)
    <3>1. j \in 1 .. Len(ordered)
      BY <2>1 DEF n
    <3> QED
      BY <2>2, <2>3, <2>4, <3>1, LoopGoesOn
  <2>6. LoopInv(texts, ordered, flat, w[j], j)
    BY <2>2, <2>5
  <2> QED
    BY <2>6 DEF j
<1>5. T = Nat
  <2>1. T \in SUBSET Nat
    OBVIOUS
  <2> HIDE DEF T
  <2> QED
    BY <1>3, <1>4, <2>1, Induction
<1>6. LoopInv(texts, ordered, flat, w[n], n)
  <2>1. n \in T /\ n <= n
    BY <1>1, <1>5
  <2> HIDE DEF n
  <2> QED
    BY <2>1
<1> QED
  BY <1>2, <1>6

-----------------------------------------------------------------------------
(* The overlap check and the order.                                         *)

Disjoint(hunks) ==
    \A i, j \in DOMAIN hunks : i # j => Lines(hunks[i]) \cap Lines(hunks[j]) = {}

\* No hunk ends above its start.
Upright(hunks) == \A i \in DOMAIN hunks : hunks[i].startLine <= EndOf(hunks[i])

LEMMA LinesApart ==
    ASSUME NEW g \in Hunk, NEW h \in Hunk,
           g.startLine <= EndOf(g), h.startLine <= EndOf(h), g.startLine <= h.startLine
    PROVE  Lines(g) \cap Lines(h) = {} <=> EndOf(g) < h.startLine
<1>1. /\ g.startLine \in Nat /\ EndOf(g) \in Nat /\ h.startLine \in Nat /\ EndOf(h) \in Nat
  BY HunkParts
<1>2. CASE EndOf(g) < h.startLine
  BY <1>1, <1>2 DEF Lines
<1>3. CASE ~(EndOf(g) < h.startLine)
  <2>1. h.startLine \in Lines(g) /\ h.startLine \in Lines(h)
    BY <1>1, <1>3 DEF Lines
  <2> QED
    BY <1>3, <2>1
<1> QED
  BY <1>2, <1>3

\* Neighbours in the order from the top overlap exactly if some two hunks do.
LEMMA OverlapIsNotDisjoint ==
    ASSUME NEW hunks \in Seq(Hunk), Upright(hunks)
    PROVE  Overlap(hunks) <=> ~Disjoint(hunks)
<1> DEFINE n == Len(hunks)
<1>1. n \in Nat /\ DOMAIN hunks = 1 .. n /\ \A i \in 1 .. n : hunks[i] \in Hunk
  OBVIOUS
<1>2. \A i \in 1 .. n : hunks[i].startLine \in Nat /\ EndOf(hunks[i]) \in Nat
  BY <1>1, HunkParts
<1>3. PICK p : /\ Renumbers(p, n)
               /\ FromTop(hunks) = [i \in 1 .. n |-> hunks[p[i]]]
               /\ \A i, j \in 1 .. n : i < j => hunks[p[i]].startLine <= hunks[p[j]].startLine
  BY FromTopSorts
<1>4. /\ \A i \in 1 .. n : p[i] \in 1 .. n /\ FromTop(hunks)[i] = hunks[p[i]]
      /\ \A i, j \in 1 .. n : p[i] = p[j] => i = j
      /\ \A i \in 1 .. n : \E j \in 1 .. n : p[j] = i
  BY <1>3 DEF Renumbers
<1> HIDE DEF n
<1>5. ASSUME Overlap(hunks), Disjoint(hunks) PROVE FALSE
  <2>1. PICK i \in 2 .. n : FromTop(hunks)[i].startLine <= EndOf(FromTop(hunks)[i - 1])
    BY <1>5 DEF Overlap, n
  <2>2. i \in 1 .. n /\ i - 1 \in 1 .. n /\ i - 1 < i /\ i - 1 # i
    BY <1>1
  <2> DEFINE g == hunks[p[i - 1]]
             h == hunks[p[i]]
  <2>3. /\ g \in Hunk /\ h \in Hunk /\ g.startLine <= EndOf(g) /\ h.startLine <= EndOf(h)
    BY <1>1, <1>4, <2>2 DEF Upright
  <2>4. g.startLine <= h.startLine
    BY <1>3, <2>2
  <2>5. Lines(g) \cap Lines(h) = {}
    <3>1. p[i - 1] \in DOMAIN hunks /\ p[i] \in DOMAIN hunks /\ p[i - 1] # p[i]
      BY <1>1, <1>4, <2>2
    <3> QED
      BY <1>5, <3>1 DEF Disjoint
  <2>6. h.startLine <= EndOf(g)
    BY <1>4, <2>1, <2>2
  <2>7. h.startLine \in Nat /\ EndOf(g) \in Nat
    BY <2>3, HunkParts
  <2> HIDE DEF g, h
  <2>8. EndOf(g) < h.startLine
    BY <2>3, <2>4, <2>5, LinesApart
  <2> QED
    BY <2>6, <2>7, <2>8
<1>6. ASSUME ~Overlap(hunks),
             NEW i \in 1 .. n, NEW j \in 1 .. n, i < j
      PROVE  Lines(hunks[p[i]]) \cap Lines(hunks[p[j]]) = {}
  <2> DEFINE g == hunks[p[i]]
             s == hunks[p[i + 1]]
             h == hunks[p[j]]
  <2>1. /\ i + 1 \in 2 .. n /\ (i + 1) - 1 = i /\ i + 1 \in 1 .. n
        /\ (i + 1 < j \/ i + 1 = j)
    BY <1>1, <1>6
  <2>2. /\ g \in Hunk /\ h \in Hunk /\ g.startLine <= EndOf(g) /\ h.startLine <= EndOf(h)
        /\ s \in Hunk
    BY <1>1, <1>4, <2>1 DEF Upright
  <2>3. g.startLine <= h.startLine /\ (i + 1 < j => s.startLine <= h.startLine)
    BY <1>3, <1>6, <2>1
  <2>4. ~(s.startLine <= EndOf(g))
    <3>1. \A k \in 2 .. n : ~(FromTop(hunks)[k].startLine <= EndOf(FromTop(hunks)[k - 1]))
      BY <1>6 DEF Overlap, n
    <3>2. ~(FromTop(hunks)[i + 1].startLine <= EndOf(FromTop(hunks)[(i + 1) - 1]))
      BY <2>1, <3>1
    <3>3. FromTop(hunks)[i + 1] = s /\ FromTop(hunks)[i] = g
      BY <1>4, <2>1
    <3> HIDE DEF s, g
    <3> QED
      BY <2>1, <3>2, <3>3
  <2>5. i + 1 = j => s = h
    OBVIOUS
  <2> HIDE DEF g, s, h
  <2>6. s.startLine \in Nat /\ h.startLine \in Nat /\ EndOf(g) \in Nat
    BY <2>2, HunkParts
  <2>7. EndOf(g) < h.startLine
    BY <2>1, <2>3, <2>4, <2>5, <2>6
  <2>8. Lines(g) \cap Lines(h) = {}
    BY <2>2, <2>3, <2>7, LinesApart
  <2> QED
    BY <2>8 DEF g, h
<1>7. ASSUME ~Overlap(hunks) PROVE Disjoint(hunks)
  <2> SUFFICES ASSUME NEW a \in 1 .. n, NEW b \in 1 .. n, a # b
               PROVE  Lines(hunks[a]) \cap Lines(hunks[b]) = {}
    BY <1>1 DEF Disjoint
  <2>1. PICK i \in 1 .. n : p[i] = a
    BY <1>4
  <2>2. PICK j \in 1 .. n : p[j] = b
    BY <1>4
  <2>3. i < j \/ j < i
    BY <1>1, <2>1, <2>2
  <2>4. CASE i < j
    BY <1>6, <1>7, <2>1, <2>2, <2>4
  <2>5. CASE j < i
    BY <1>6, <1>7, <2>1, <2>2, <2>5
  <2> QED
    BY <2>3, <2>4, <2>5
<1> QED
  BY <1>5, <1>7

\* The hunks from the bottom are the same ones; if they share no line, each ends above
\* the one before it.
LEMMA FromBottomIs ==
    ASSUME NEW hunks \in Seq(Hunk)
    PROVE  /\ FromBottom(hunks) \in Seq(Hunk)
           /\ Len(FromBottom(hunks)) = Len(hunks)
           /\ Hunks(FromBottom(hunks)) = Hunks(hunks)
           /\ Upright(hunks) /\ Disjoint(hunks) => Descends(FromBottom(hunks))
<1> DEFINE n == Len(hunks)
           ordered == FromBottom(hunks)
<1>1. n \in Nat /\ DOMAIN hunks = 1 .. n /\ \A i \in 1 .. n : hunks[i] \in Hunk
  OBVIOUS
<1>2. PICK p : /\ Renumbers(p, n)
               /\ FromBottom(hunks) = [i \in 1 .. n |-> hunks[p[i]]]
               /\ \A i, j \in 1 .. n : i < j => hunks[p[j]].startLine <= hunks[p[i]].startLine
  BY FromBottomSorts
<1>3. /\ \A i \in 1 .. n : p[i] \in 1 .. n
      /\ \A i, j \in 1 .. n : p[i] = p[j] => i = j
      /\ \A i \in 1 .. n : \E j \in 1 .. n : p[j] = i
  BY <1>2 DEF Renumbers
<1>4. ordered = [i \in 1 .. n |-> hunks[p[i]]]
  BY <1>2
<1> HIDE DEF ordered, n
<1>5. ordered \in Seq(Hunk) /\ Len(ordered) = n /\ DOMAIN ordered = 1 .. n
  BY <1>1, <1>3, <1>4
<1>6. \A i \in 1 .. n : ordered[i] = hunks[p[i]]
  BY <1>4
<1>7. Hunks(ordered) = Hunks(hunks)
  <2>1. Hunks(ordered) = {ordered[i] : i \in 1 .. n} /\ Hunks(hunks) = {hunks[i] : i \in 1 .. n}
    BY <1>1, <1>5 DEF Hunks
  <2>2. ASSUME NEW x \in {ordered[i] : i \in 1 .. n} PROVE x \in {hunks[i] : i \in 1 .. n}
    <3>1. PICK i \in 1 .. n : x = ordered[i]
      OBVIOUS
    <3>2. x = hunks[p[i]] /\ p[i] \in 1 .. n
      BY <1>3, <1>6, <3>1, Zenon
    <3> QED
      BY <3>2
  <2>3. ASSUME NEW x \in {hunks[i] : i \in 1 .. n} PROVE x \in {ordered[i] : i \in 1 .. n}
    <3>1. PICK i \in 1 .. n : x = hunks[i]
      OBVIOUS
    <3>2. PICK j \in 1 .. n : p[j] = i
      BY <1>3
    <3> QED
      BY <1>6, <3>1, <3>2
  <2> QED
    BY <2>1, <2>2, <2>3
<1>8. ASSUME Upright(hunks), Disjoint(hunks) PROVE Descends(ordered)
  <2> SUFFICES ASSUME NEW i \in 1 .. n, NEW j \in 1 .. n, i < j
               PROVE  EndOf(ordered[j]) < ordered[i].startLine
    BY <1>5 DEF Descends
  <2> DEFINE g == hunks[p[j]]
             h == hunks[p[i]]
  <2>1. /\ g \in Hunk /\ h \in Hunk /\ g.startLine <= EndOf(g) /\ h.startLine <= EndOf(h)
    BY <1>1, <1>3, <1>8 DEF Upright
  <2>2. g.startLine <= h.startLine
    BY <1>2
  <2>3. i # j
    BY <1>1
  <2>4. Lines(g) \cap Lines(h) = {}
    BY <1>1, <1>3, <1>8, <2>3 DEF Disjoint
  <2>5. g = ordered[j] /\ h = ordered[i]
    BY <1>6
  <2> HIDE DEF g, h
  <2>6. EndOf(g) < h.startLine
    BY <2>1, <2>2, <2>4, LinesApart
  <2> QED
    BY <2>5, <2>6
<1> QED
  BY <1>5, <1>7, <1>8 DEF ordered, n

\* A loop that ends well has met no hunk that ends above its start.
LEMMA LoopRefuses ==
    ASSUME NEW texts \in Seq(Text), NEW ordered \in Seq(Hunk),
           ApplyInOrder(texts, ordered).ok
    PROVE  Upright(ordered)
<1> DEFINE n == Len(ordered)
<1>1. n \in Nat /\ DOMAIN ordered = 1 .. n /\ \A i \in 1 .. n : ordered[i] \in Hunk
  OBVIOUS
<1>2. PICK w \in [0 .. n -> Result] :
          /\ w[0] = [ok |-> TRUE, texts |-> texts]
          /\ \A k \in 1 .. n : w[k] = ApplyHunk(w[k - 1], ordered[k])
          /\ ApplyInOrder(texts, ordered) = w[n]
  BY Loop
<1> HIDE DEF n
<1> DEFINE T == {k \in Nat : k <= n /\ w[k].ok => \A i \in 1 .. k : ordered[i].startLine <= EndOf(ordered[i])}
<1>3. 0 \in T
  OBVIOUS
<1>4. ASSUME NEW k \in Nat, k \in T PROVE k + 1 \in T
  <2> SUFFICES ASSUME k + 1 <= n, w[k + 1].ok,
                      NEW i \in 1 .. k + 1
               PROVE  ordered[i].startLine <= EndOf(ordered[i])
    OBVIOUS
  <2> DEFINE j == k + 1
  <2>1. j \in 1 .. n /\ j - 1 = k /\ j - 1 \in 0 .. n /\ k <= n /\ (i = j \/ i \in 1 .. k)
    BY <1>1
  <2>2. w[j - 1] \in Result /\ w[j] = ApplyHunk(w[j - 1], ordered[j]) /\ ordered[j] \in Hunk
    BY <1>1, <1>2, <2>1
  <2>3. w[j].ok
    OBVIOUS
  <2> HIDE DEF j
  <2>4. w[j - 1].ok /\ Fits(w[j - 1].texts, ordered[j])
    BY <2>2, <2>3, ApplyHunkCases
  <2>5. CASE i = j
    <3>1. EndOf(ordered[j]) >= ordered[j].startLine
      BY <2>4 DEF Fits
    <3>2. EndOf(ordered[j]) \in Nat /\ ordered[j].startLine \in Nat
      BY <2>2, HunkParts
    <3> QED
      BY <2>5, <3>1, <3>2
  <2>6. CASE i \in 1 .. k
    BY <1>4, <2>1, <2>4, <2>6
  <2> QED
    BY <2>1, <2>5, <2>6
<1>5. T = Nat
  <2>1. T \in SUBSET Nat
    OBVIOUS
  <2> HIDE DEF T
  <2> QED
    BY <1>3, <1>4, <2>1, Induction
<1>6. n \in T /\ n <= n
  BY <1>1, <1>5
<1>7. w[n].ok
  BY <1>2
<1>8. \A i \in 1 .. n : ordered[i].startLine <= EndOf(ordered[i])
  BY <1>6, <1>7
<1> QED
  BY <1>1, <1>8 DEF Upright

-----------------------------------------------------------------------------
(* What Spliced says becomes of the lines.                                  *)

\* What becomes of each line.
Pieces(texts, hunks) ==
    [i \in DOMAIN texts |->
        IF \E h \in Hunks(hunks) : h.startLine = i
        THEN (CHOOSE h \in Hunks(hunks) : h.startLine = i).content
        ELSE IF \E h \in Hunks(hunks) : i \in Lines(h) THEN <<>> ELSE <<texts[i]>>]

LEMMA ValidIs ==
    ASSUME NEW texts \in Seq(Text), NEW hunks \in Seq(Hunk)
    PROVE  Valid(texts, hunks) <=>
              /\ hunks # <<>> /\ Disjoint(hunks)
              /\ \A h \in Hunks(hunks) : Fits(texts, h)
<1>1. ASSUME NEW h \in Hunks(hunks)
      PROVE  Lines(h) # {} <=> EndOf(h) >= h.startLine
  <2>1. h \in Hunk
    BY DEF Hunks
  <2>2. h.startLine \in Nat /\ EndOf(h) \in Nat
    BY <2>1, HunkParts
  <2> QED
    BY <2>2 DEF Lines
<1> QED
  BY <1>1 DEF Valid, Disjoint, Fits

LEMMA PieceOf ==
    ASSUME NEW texts \in Seq(Text), NEW hunks \in Seq(Hunk), Valid(texts, hunks)
    PROVE  /\ Pieces(texts, hunks) \in Seq(Seq(Text))
           /\ Len(Pieces(texts, hunks)) = Len(texts)
           /\ \A h \in Hunks(hunks) :
                 /\ Pieces(texts, hunks)[h.startLine] = h.content
                 /\ \A i \in h.startLine + 1 .. EndOf(h) : Pieces(texts, hunks)[i] = <<>>
           /\ \A i \in 1 .. Len(texts) :
                 (\A h \in Hunks(hunks) : i \notin Lines(h)) => Pieces(texts, hunks)[i] = <<texts[i]>>
<1> DEFINE n == Len(texts)
           pieces == Pieces(texts, hunks)
<1>1. n \in Nat /\ DOMAIN texts = 1 .. n /\ DOMAIN hunks = 1 .. Len(hunks)
  OBVIOUS
<1>2. ASSUME NEW h \in Hunks(hunks)
      PROVE  /\ h \in Hunk /\ h.startLine \in Nat /\ EndOf(h) \in Nat /\ h.content \in Seq(Text)
             /\ h.startLine \in 1 .. n /\ EndOf(h) \in 1 .. n /\ h.startLine <= EndOf(h)
  <2>1. h \in Hunk
    BY DEF Hunks
  <2>2. Fits(texts, h)
    BY ValidIs
  <2> QED
    BY <2>1, <2>2, HunkParts, FitIsInside
<1>3. ASSUME NEW g \in Hunks(hunks), NEW h \in Hunks(hunks), NEW i,
             i \in Lines(g), i \in Lines(h)
      PROVE  g = h
  <2>1. PICK a \in DOMAIN hunks : g = hunks[a]
    BY DEF Hunks
  <2>2. PICK b \in DOMAIN hunks : h = hunks[b]
    BY DEF Hunks
  <2>3. Disjoint(hunks)
    BY ValidIs
  <2>4. Lines(hunks[a]) \cap Lines(hunks[b]) # {}
    BY <1>3, <2>1, <2>2
  <2> QED
    BY <2>1, <2>2, <2>3, <2>4 DEF Disjoint
<1>4. ASSUME NEW h \in Hunks(hunks)
      PROVE  h.startLine \in Lines(h)
  BY <1>2 DEF Lines
<1>5. ASSUME NEW h \in Hunks(hunks)
      PROVE  pieces[h.startLine] = h.content
  <2> DEFINE g == CHOOSE x \in Hunks(hunks) : x.startLine = h.startLine
  <2>1. g \in Hunks(hunks) /\ g.startLine = h.startLine
    OBVIOUS
  <2>2. pieces[h.startLine] = g.content
    <3>1. h.startLine \in DOMAIN texts
      BY <1>1, <1>2
    <3> QED
      BY <3>1 DEF Pieces
  <2> HIDE DEF g
  <2>3. g = h
    BY <1>3, <1>4, <2>1
  <2> QED
    BY <2>2, <2>3
<1>6. ASSUME NEW h \in Hunks(hunks), NEW i \in h.startLine + 1 .. EndOf(h)
      PROVE  pieces[i] = <<>>
  <2>1. i \in DOMAIN texts /\ i \in Lines(h) /\ h.startLine # i
    BY <1>1, <1>2 DEF Lines
  <2>2. ~\E g \in Hunks(hunks) : g.startLine = i
    BY <1>3, <1>4, <2>1
  <2> QED
    BY <2>1, <2>2 DEF Pieces
<1>7. ASSUME NEW i \in 1 .. n, \A h \in Hunks(hunks) : i \notin Lines(h)
      PROVE  pieces[i] = <<texts[i]>>
  <2>1. ~\E g \in Hunks(hunks) : g.startLine = i
    BY <1>4, <1>7
  <2> QED
    BY <1>1, <1>7, <2>1 DEF Pieces
<1>8. ASSUME NEW i \in 1 .. n
      PROVE  pieces[i] \in Seq(Text)
  <2>1. CASE \E h \in Hunks(hunks) : h.startLine = i
    BY <1>2, <1>5, <2>1
  <2>2. CASE ~\E h \in Hunks(hunks) : h.startLine = i
    <3>1. texts[i] \in Text
      OBVIOUS
    <3>2. pieces[i] = <<>> \/ pieces[i] = <<texts[i]>>
      BY <1>1, <2>2 DEF Pieces
    <3>3. <<>> \in Seq(Text) /\ <<texts[i]>> \in Seq(Text)
      BY <3>1
    <3> HIDE DEF pieces
    <3> QED
      BY <3>2, <3>3
  <2> QED
    BY <2>1, <2>2
<1>9. pieces \in [1 .. n -> Seq(Text)]
  <2>1. DOMAIN pieces = 1 .. n /\ pieces = [i \in 1 .. n |-> pieces[i]]
    BY <1>1 DEF Pieces
  <2> HIDE DEF pieces
  <2> QED
    BY <1>8, <2>1
<1> HIDE DEF pieces
<1>10. pieces \in Seq(Seq(Text)) /\ Len(pieces) = n
  BY <1>1, <1>9
<1> QED
  BY <1>5, <1>6, <1>7, <1>10 DEF pieces

\* flat[i] is what becomes of the lines 1 .. i.
Joins(flat, texts, hunks) ==
    /\ flat \in [0 .. Len(texts) -> Seq(Text)]
    /\ flat[0] = <<>>
    /\ \A i \in 1 .. Len(texts) : flat[i] = flat[i - 1] \o Pieces(texts, hunks)[i]

LEMMA SplicedIs ==
    ASSUME NEW texts \in Seq(Text), NEW hunks \in Seq(Hunk), Valid(texts, hunks)
    PROVE  \E flat : Joins(flat, texts, hunks) /\ Spliced(texts, hunks) = flat[Len(texts)]
<1> DEFINE pieces == Pieces(texts, hunks)
<1>1. pieces \in Seq(Seq(Text)) /\ Len(pieces) = Len(texts)
  BY PieceOf
<1>2. Spliced(texts, hunks) = FlattenSeq(pieces)
  BY DEF Spliced, Pieces
<1> HIDE DEF pieces
<1>3. PICK flat \in [0 .. Len(pieces) -> Seq(Text)] :
          /\ flat[0] = <<>>
          /\ \A i \in 1 .. Len(pieces) : flat[i] = flat[i - 1] \o pieces[i]
          /\ FlattenSeq(pieces) = flat[Len(pieces)]
  BY <1>1, Flatten
<1>4. Joins(flat, texts, hunks)
  BY <1>1, <1>3 DEF Joins, pieces
<1> QED
  BY <1>1, <1>2, <1>3, <1>4

\* The lines of a hunk become its content.
LEMMA HunkJoins ==
    ASSUME NEW texts \in Seq(Text), NEW hunks \in Seq(Hunk), Valid(texts, hunks),
           NEW flat, Joins(flat, texts, hunks), NEW h \in Hunks(hunks)
    PROVE  flat[EndOf(h)] = flat[h.startLine - 1] \o h.content
<1> DEFINE s == h.startLine
           e == EndOf(h)
           n == Len(texts)
<1>1. h \in Hunk /\ Fits(texts, h)
  BY ValidIs DEF Hunks
<1>2. s \in 1 .. n /\ e \in 1 .. n /\ s <= e /\ n \in Nat
  BY <1>1, FitIsInside
<1>3. /\ flat \in [0 .. n -> Seq(Text)]
      /\ \A i \in 1 .. n : flat[i] = flat[i - 1] \o Pieces(texts, hunks)[i]
  BY DEF Joins
<1>4. /\ Pieces(texts, hunks)[s] = h.content
      /\ \A i \in s + 1 .. e : Pieces(texts, hunks)[i] = <<>>
  BY PieceOf
<1> HIDE DEF s, e, n
<1>5. flat[s] = flat[s - 1] \o h.content
  BY <1>2, <1>3, <1>4
<1> DEFINE T == {d \in Nat : s + d <= e => flat[s + d] = flat[s]}
<1>6. 0 \in T
  BY <1>2
<1>7. ASSUME NEW d \in Nat, d \in T PROVE d + 1 \in T
  <2> SUFFICES ASSUME s + (d + 1) <= e PROVE flat[s + (d + 1)] = flat[s]
    OBVIOUS
  <2> DEFINE i == s + (d + 1)
  <2>1. /\ i \in 1 .. n /\ i \in s + 1 .. e /\ i - 1 = s + d /\ s + d <= e /\ s + d \in 0 .. n
    BY <1>2
  <2> HIDE DEF i
  <2>2. flat[i] = flat[i - 1] \o <<>>
    BY <1>3, <1>4, <2>1
  <2>3. flat[s + d] \in Seq(Text)
    BY <1>3, <2>1
  <2>4. flat[s + d] \o <<>> = flat[s + d]
    BY <2>3, Concatenations
  <2>5. flat[s + d] = flat[s]
    BY <1>7, <2>1
  <2>6. flat[i] = flat[s]
    BY <2>1, <2>2, <2>4, <2>5
  <2> QED
    BY <2>6 DEF i
<1>8. T = Nat
  <2>1. T \in SUBSET Nat
    OBVIOUS
  <2> HIDE DEF T
  <2> QED
    BY <1>6, <1>7, <2>1, Induction
<1>9. e - s \in Nat /\ s + (e - s) = e /\ e <= e
  BY <1>2
<1>11. e - s \in T
  BY <1>8, <1>9
<1>10. flat[e] = flat[s]
  BY <1>9, <1>11
<1> QED
  BY <1>5, <1>10 DEF s, e

\* Lines in no hunk stay.
LEMMA GapJoins ==
    ASSUME NEW texts \in Seq(Text), NEW hunks \in Seq(Hunk), Valid(texts, hunks),
           NEW flat, Joins(flat, texts, hunks),
           NEW a \in 0 .. Len(texts), NEW b \in a .. Len(texts),
           \A i \in a + 1 .. b : \A h \in Hunks(hunks) : i \notin Lines(h)
    PROVE  flat[b] = flat[a] \o SubSeq(texts, a + 1, b)
<1> DEFINE n == Len(texts)
<1>1. n \in Nat /\ a \in Nat /\ b \in Nat /\ a <= b /\ b <= n
  OBVIOUS
<1>2. /\ flat \in [0 .. n -> Seq(Text)]
      /\ \A i \in 1 .. n : flat[i] = flat[i - 1] \o Pieces(texts, hunks)[i]
  BY DEF Joins
<1>3. \A i \in a + 1 .. b : Pieces(texts, hunks)[i] = <<texts[i]>>
  <2>1. \A i \in a + 1 .. b : i \in 1 .. n
    BY <1>1
  <2> QED
    BY <2>1, PieceOf
<1>4. flat[a] \in Seq(Text)
  BY <1>1, <1>2
<1> HIDE DEF n
<1> DEFINE T == {d \in Nat : a + d <= b => flat[a + d] = flat[a] \o SubSeq(texts, a + 1, a + d)}
<1>5. 0 \in T
  <2>1. SubSeq(texts, a + 1, a) = <<>>
    BY <1>1, SubSeqEmpty
  <2>2. a + 0 = a
    BY <1>1
  <2>3. flat[a] = flat[a] \o <<>>
    BY <1>4, Concatenations
  <2> QED
    BY <2>1, <2>2, <2>3
<1>6. ASSUME NEW d \in Nat, d \in T PROVE d + 1 \in T
  <2> SUFFICES ASSUME a + (d + 1) <= b
               PROVE  flat[a + (d + 1)] = flat[a] \o SubSeq(texts, a + 1, a + (d + 1))
    <3>1. d + 1 \in Nat
      OBVIOUS
    <3> QED
      BY <3>1
  <2> DEFINE i == a + (d + 1)
             part == SubSeq(texts, a + 1, i - 1)
  <2>1. /\ i \in 1 .. n /\ i \in a + 1 .. b /\ i - 1 = a + d /\ a + d <= b
        /\ a + 1 \in 1 .. n /\ i \in a + 1 .. n /\ i - 1 \in 0 .. n /\ a + 1 \in Nat \ {0}
    BY <1>1
  <2> HIDE DEF i
  <2>2. flat[i] = flat[i - 1] \o <<texts[i]>>
    BY <1>2, <1>3, <2>1
  <2>3. flat[i - 1] = flat[a] \o part
    BY <1>6, <2>1
  <2>4. SubSeq(texts, a + 1, i) = part \o <<texts[i]>>
    BY <2>1, SubSeqRecursiveSecond DEF n
  <2>5. part \in Seq(Text)
    BY <2>1, Part DEF n
  <2>6. <<texts[i]>> \in Seq(Text)
    <3>1. texts[i] \in Text
      BY <2>1 DEF n
    <3> QED
      BY <3>1
  <2> HIDE DEF part
  <2>7. (flat[a] \o part) \o <<texts[i]>> = flat[a] \o (part \o <<texts[i]>>)
    BY <1>4, <2>5, <2>6, Concatenations, ZenonT(60)
  <2>8. flat[i] = flat[a] \o SubSeq(texts, a + 1, i)
    BY <2>2, <2>3, <2>4, <2>7
  <2> QED
    BY <2>8 DEF i
<1>7. T = Nat
  <2>1. T \in SUBSET Nat
    OBVIOUS
  <2> HIDE DEF T
  <2> QED
    BY <1>5, <1>6, <2>1, Induction
<1>8. b - a \in Nat /\ a + (b - a) = b /\ b <= b
  BY <1>1
<1>9. b - a \in T
  BY <1>7, <1>8
<1> QED
  BY <1>8, <1>9

-----------------------------------------------------------------------------
(* ApplyHunks against its reference definition.                             *)

LEMMA InHunks ==
    ASSUME NEW hunks \in Seq(Hunk)
    PROVE  /\ Len(hunks) \in Nat /\ DOMAIN hunks = 1 .. Len(hunks)
           /\ \A j \in 1 .. Len(hunks) : hunks[j] \in Hunks(hunks)
<1>1. Len(hunks) \in Nat /\ DOMAIN hunks = 1 .. Len(hunks)
  OBVIOUS
<1> QED
  BY <1>1 DEF Hunks

\* Valid hunks from the bottom: no line between two of them, or above the last, is in
\* any hunk.
LEMMA BetweenHunks ==
    ASSUME NEW texts \in Seq(Text), NEW hunks \in Seq(Hunk), Valid(texts, hunks),
           NEW ordered, ordered = FromBottom(hunks),
           NEW k \in 0 .. Len(ordered), NEW i \in 1 .. Len(texts),
           i < Reached(texts, ordered, k),
           k < Len(ordered) => EndOf(ordered[k + 1]) < i,
           NEW h \in Hunks(hunks)
    PROVE  i \notin Lines(h)
<1> DEFINE n == Len(ordered)
<1>1. Disjoint(hunks) /\ \A g \in Hunks(hunks) : Fits(texts, g)
  BY ValidIs
<1>2. ASSUME NEW g \in Hunks(hunks)
      PROVE  g \in Hunk /\ g.startLine \in Nat /\ EndOf(g) \in Nat /\ g.startLine <= EndOf(g)
  <2>1. g \in Hunk
    BY DEF Hunks
  <2> QED
    BY <1>1, <2>1, FitIsInside, HunkParts
<1>3. Upright(hunks)
  BY <1>2 DEF Upright, Hunks
<1>4. ordered \in Seq(Hunk) /\ Hunks(ordered) = Hunks(hunks) /\ Descends(ordered)
  BY <1>1, <1>3, FromBottomIs
<1>5. n \in Nat /\ DOMAIN ordered = 1 .. n /\ \A j \in 1 .. n : ordered[j] \in Hunks(hunks)
  BY <1>4, InHunks
<1>6. PICK j \in 1 .. n : h = ordered[j]
  BY <1>4, <1>5 DEF Hunks
<1>7. h.startLine \in Nat /\ EndOf(h) \in Nat /\ h.startLine <= EndOf(h)
  BY <1>2
<1>8. CASE j <= k
  <2>1. k # 0 /\ k \in 1 .. n /\ Reached(texts, ordered, k) = ordered[k].startLine
    BY <1>5, <1>8 DEF Reached
  <2>2. ordered[k].startLine \in Nat /\ EndOf(ordered[k]) \in Nat
        /\ ordered[k].startLine <= EndOf(ordered[k])
    BY <1>2, <1>5, <2>1
  <2>3. ordered[k].startLine <= h.startLine
    <3>1. CASE j = k
      BY <1>6, <1>7, <3>1
    <3>2. CASE j < k
      <4>1. EndOf(ordered[k]) < ordered[j].startLine
        BY <1>4, <2>1, <3>2 DEF Descends
      <4> QED
        BY <1>6, <1>7, <2>2, <4>1
    <3> QED
      BY <1>8, <3>1, <3>2
  <2>4. i < h.startLine
    BY <1>7, <2>1, <2>2, <2>3
  <2> QED
    BY <1>7, <2>4 DEF Lines
<1>9. CASE k < j
  <2>1. k < n /\ k + 1 \in 1 .. n /\ EndOf(ordered[k + 1]) < i
    BY <1>5, <1>9
  <2>2. ordered[k + 1].startLine \in Nat /\ EndOf(ordered[k + 1]) \in Nat
        /\ ordered[k + 1].startLine <= EndOf(ordered[k + 1])
    BY <1>2, <1>5, <2>1
  <2>3. EndOf(h) <= EndOf(ordered[k + 1])
    <3>1. CASE j = k + 1
      BY <1>6, <1>7, <3>1
    <3>2. CASE k + 1 < j
      <4>1. EndOf(ordered[j]) < ordered[k + 1].startLine
        BY <1>4, <2>1, <3>2 DEF Descends
      <4> QED
        BY <1>6, <1>7, <2>2, <4>1
    <3> QED
      BY <1>9, <3>1, <3>2
  <2>4. EndOf(h) < i
    BY <1>7, <2>1, <2>2, <2>3
  <2> QED
    BY <1>7, <2>4 DEF Lines
<1> QED
  BY <1>5, <1>8, <1>9

\* What becomes of the lines agrees with the hunks, one by one from the bottom.
LEMMA JoinsFollow ==
    ASSUME NEW texts \in Seq(Text), NEW hunks \in Seq(Hunk), Valid(texts, hunks),
           NEW flat, Joins(flat, texts, hunks)
    PROVE  /\ Follows(flat, texts, FromBottom(hunks))
           /\ LET last == Reached(texts, FromBottom(hunks), Len(hunks)) - 1
              IN  last \in 0 .. Len(texts) /\ flat[last] = SubSeq(texts, 1, last)
<1> DEFINE ordered == FromBottom(hunks)
           n == Len(texts)
<1>1. Disjoint(hunks) /\ (\A g \in Hunks(hunks) : Fits(texts, g)) /\ hunks # <<>>
  BY ValidIs
<1>2. ASSUME NEW g \in Hunks(hunks)
      PROVE  /\ g \in Hunk /\ g.startLine \in 1 .. n /\ EndOf(g) \in 1 .. n
             /\ g.startLine <= EndOf(g) /\ g.content \in Seq(Text)
  <2>1. g \in Hunk
    BY DEF Hunks
  <2> QED
    BY <1>1, <2>1, FitIsInside, HunkParts
<1>3. Upright(hunks)
  BY <1>2 DEF Upright, Hunks
<1>4. /\ ordered \in Seq(Hunk) /\ Hunks(ordered) = Hunks(hunks) /\ Descends(ordered)
      /\ Len(ordered) = Len(hunks)
  BY <1>1, <1>3, FromBottomIs
<1>5. /\ Len(ordered) \in Nat \ {0} /\ n \in Nat
      /\ \A j \in 1 .. Len(ordered) : ordered[j] \in Hunks(hunks)
  <2>1. Len(hunks) \in Nat \ {0}
    BY <1>1, EmptySeq
  <2> QED
    BY <1>4, <2>1, InHunks
<1>6. ASSUME NEW k \in 0 .. Len(ordered)
      PROVE  Reached(texts, ordered, k) \in 1 .. n + 1
  <2>1. CASE k = 0
    BY <1>5, <2>1 DEF Reached
  <2>2. CASE k # 0
    <3>1. ordered[k].startLine \in 1 .. n
      BY <1>2, <1>5, <2>2
    <3> QED
      BY <1>5, <2>2, <3>1 DEF Reached
  <2> QED
    BY <2>1, <2>2
<1> HIDE DEF ordered
<1>7. flat \in [0 .. n -> Seq(Text)] /\ flat[0] = <<>>
  BY DEF Joins
<1>8. ASSUME NEW k \in 1 .. Len(ordered)
      PROVE  flat[Reached(texts, ordered, k - 1) - 1]
                = flat[ordered[k].startLine - 1] \o
                     (ordered[k].content \o
                          SubSeq(texts, EndOf(ordered[k]) + 1, Reached(texts, ordered, k - 1) - 1))
  <2> DEFINE h == ordered[k]
             e == EndOf(h)
             b == Reached(texts, ordered, k - 1) - 1
             gap == SubSeq(texts, e + 1, b)
             first == flat[h.startLine - 1]
  <2>1. /\ k - 1 \in 0 .. Len(ordered) /\ k - 1 < Len(ordered) /\ (k - 1) + 1 = k
    BY <1>5
  <2>2. /\ h \in Hunks(hunks) /\ h.startLine \in 1 .. n /\ e \in 1 .. n /\ h.content \in Seq(Text)
        /\ h.startLine <= e
    BY <1>2, <1>5
  <2>3. b \in 0 .. n /\ b + 1 = Reached(texts, ordered, k - 1)
    BY <1>5, <1>6, <2>1
  <2>4. e <= b
    <3>1. CASE k = 1
      BY <1>5, <2>2, <3>1 DEF Reached
    <3>2. CASE k # 1
      <4>1. k - 1 \in 1 .. Len(ordered) /\ k - 1 < k /\ k - 1 # 0
        BY <1>5, <3>2
      <4>2. e < ordered[k - 1].startLine
        BY <1>4, <4>1 DEF Descends
      <4>3. b + 1 = ordered[k - 1].startLine
        BY <2>3, <4>1 DEF Reached
      <4> QED
        BY <2>2, <2>3, <4>2, <4>3
    <3> QED
      BY <3>1, <3>2
  <2> HIDE DEF b, e
  <2>5. ASSUME NEW i \in e + 1 .. b, NEW g \in Hunks(hunks)
        PROVE  i \notin Lines(g)
    <3>1. i \in 1 .. n /\ i < Reached(texts, ordered, k - 1) /\ EndOf(ordered[(k - 1) + 1]) < i
      BY <1>5, <2>1, <2>2, <2>3 DEF e
    <3> QED
      BY <2>1, <3>1, BetweenHunks, SMTT(30) DEF ordered
  <2>6. e \in 0 .. n /\ b \in e .. n
    BY <1>5, <2>2, <2>3, <2>4
  <2>7. flat[b] = flat[e] \o gap
    BY <2>5, <2>6, GapJoins, ZenonT(60)
  <2>8. flat[e] = first \o h.content
    BY <2>2, HunkJoins, ZenonT(60) DEF e
  <2>9. first \in Seq(Text) /\ gap \in Seq(Text)
    <3>1. h.startLine - 1 \in 0 .. n /\ e + 1 \in Nat \ {0}
      BY <1>5, <2>2
    <3> QED
      BY <1>7, <2>3, <3>1, Part
  <2> HIDE DEF first, gap, h
  <2>10. (first \o h.content) \o gap = first \o (h.content \o gap)
    BY <2>2, <2>9, Concatenations, ZenonT(60)
  <2>11. flat[b] = first \o (h.content \o gap)
    BY <2>7, <2>8, <2>10
  <2> QED
    BY <2>11 DEF first, gap, b, e, h
<1>9. Follows(flat, texts, ordered)
  BY <1>8 DEF Follows
<1> DEFINE last == Reached(texts, ordered, Len(ordered)) - 1
<1>10. last \in 0 .. n /\ last + 1 = Reached(texts, ordered, Len(ordered))
  BY <1>5, <1>6
<1> HIDE DEF last
<1>11. flat[last] = flat[0] \o SubSeq(texts, 0 + 1, last)
  <2>1. ASSUME NEW i \in 0 + 1 .. last, NEW g \in Hunks(hunks)
        PROVE  i \notin Lines(g)
    <3>1. /\ i \in 1 .. n /\ i < Reached(texts, ordered, Len(ordered))
          /\ Len(ordered) \in 0 .. Len(ordered) /\ ~(Len(ordered) < Len(ordered))
      BY <1>5, <1>10
    <3> QED
      BY <3>1, BetweenHunks, SMTT(30) DEF ordered
  <2>2. 0 \in 0 .. n /\ last \in 0 .. n
    BY <1>5, <1>10
  <2> QED
    BY <2>1, <2>2, GapJoins, ZenonT(60)
<1>12. flat[last] = SubSeq(texts, 1, last)
  <2>1. SubSeq(texts, 1, last) \in Seq(Text) /\ 0 + 1 = 1
    BY <1>10, Part
  <2> QED
    BY <1>7, <1>11, <2>1, Concatenations
<1> QED
  BY <1>4, <1>9, <1>10, <1>12 DEF ordered, last

\* ApplyHunks, which applies the hunks one by one from the bottom to lines that the
\* ones below have moved, accepts exactly the hunks that name lines of the file, by
\* their hashes and none twice, and makes of the file what that says at once.
THEOREM HunksAreSpliced ==
    ASSUME NEW texts \in Seq(Text), NEW hunks \in Seq(Hunk)
    PROVE  /\ ApplyHunks(texts, hunks) \in Result
           /\ ApplyHunks(texts, hunks).ok <=> Valid(texts, hunks)
           /\ ApplyHunks(texts, hunks).ok =>
                 ApplyHunks(texts, hunks).texts = Spliced(texts, hunks)
<1> DEFINE ordered == FromBottom(hunks)
           result == ApplyHunks(texts, hunks)
<1>1. /\ ordered \in Seq(Hunk) /\ Len(ordered) = Len(hunks) /\ Hunks(ordered) = Hunks(hunks)
      /\ Upright(hunks) /\ Disjoint(hunks) => Descends(ordered)
  BY FromBottomIs
<1>2. /\ hunks = <<>> \/ Overlap(hunks) => result = Failed
      /\ ~(hunks = <<>> \/ Overlap(hunks)) => result = ApplyInOrder(texts, ordered)
  BY DEF ApplyHunks
<1>3. Failed \in Result /\ ~Failed.ok
  BY DEF Failed, Result
<1> HIDE DEF ordered
<1>4. ApplyInOrder(texts, ordered) \in Result
  <2>1. PICK w \in [0 .. Len(ordered) -> Result] :
            /\ w[0] = [ok |-> TRUE, texts |-> texts]
            /\ \A k \in 1 .. Len(ordered) : w[k] = ApplyHunk(w[k - 1], ordered[k])
            /\ ApplyInOrder(texts, ordered) = w[Len(ordered)]
    BY <1>1, Loop
  <2>2. Len(ordered) \in 0 .. Len(ordered)
    BY <1>1
  <2> QED
    BY <2>1, <2>2
<1> SUFFICES /\ result \in Result
             /\ result.ok <=> Valid(texts, hunks)
             /\ result.ok => result.texts = Spliced(texts, hunks)
  OBVIOUS
<1> HIDE DEF result
<1>5. result \in Result
  BY <1>2, <1>3, <1>4
<1>6. CASE ~Upright(hunks)
  <2>1. ~Valid(texts, hunks)
    <3>1. PICK i \in DOMAIN hunks : ~(hunks[i].startLine <= EndOf(hunks[i]))
      BY <1>6 DEF Upright
    <3>2. hunks[i] \in Hunk /\ hunks[i] \in Hunks(hunks)
      BY DEF Hunks
    <3>3. ~Fits(texts, hunks[i])
      BY <3>1, <3>2, FitIsInside
    <3> QED
      BY <3>2, <3>3, ValidIs
  <2>2. ~ApplyInOrder(texts, ordered).ok
    <3> SUFFICES ASSUME ApplyInOrder(texts, ordered).ok PROVE Upright(hunks)
      BY <1>6
    <3>1. Upright(ordered)
      BY <1>1, LoopRefuses
    <3> QED
      BY <1>1, <3>1 DEF Upright, Hunks
  <2> QED
    BY <1>2, <1>3, <1>5, <2>1, <2>2
<1>7. CASE Upright(hunks) /\ (hunks = <<>> \/ Overlap(hunks))
  <2>1. ~Valid(texts, hunks)
    BY <1>7, ValidIs, OverlapIsNotDisjoint
  <2> QED
    BY <1>2, <1>3, <1>5, <1>7, <2>1
<1>8. CASE Upright(hunks) /\ hunks # <<>> /\ ~Overlap(hunks)
  <2>1. Disjoint(hunks) /\ Descends(ordered)
    BY <1>1, <1>8, OverlapIsNotDisjoint
  <2>2. AllFit(texts, ordered) <=> Valid(texts, hunks)
    <3>1. AllFit(texts, ordered) <=> \A h \in Hunks(ordered) : Fits(texts, h)
      BY <1>1 DEF AllFit, Hunks
    <3> QED
      BY <1>1, <1>8, <2>1, <3>1, ValidIs
  <2>3. CASE ~Valid(texts, hunks)
    <3> DEFINE flat == [i \in 0 .. Len(texts) |-> <<>>]
    <3>1. flat \in [0 .. Len(texts) -> Seq(Text)]
      OBVIOUS
    <3> HIDE DEF flat
    <3>2. LoopInv(texts, ordered, flat, ApplyInOrder(texts, ordered), Len(ordered))
      BY <1>1, <2>1, <2>2, <2>3, <3>1, LoopEnds
    <3>3. ~ApplyInOrder(texts, ordered).ok
      BY <2>2, <2>3, <3>2 DEF LoopInv, AllFit
    <3> QED
      BY <1>2, <1>5, <1>8, <2>3, <3>3
  <2>4. CASE Valid(texts, hunks)
    <3>1. PICK flat : Joins(flat, texts, hunks) /\ Spliced(texts, hunks) = flat[Len(texts)]
      BY <2>4, SplicedIs
    <3>2. flat \in [0 .. Len(texts) -> Seq(Text)]
      BY <3>1 DEF Joins
    <3> DEFINE last == Reached(texts, ordered, Len(ordered)) - 1
    <3>3. Follows(flat, texts, ordered) /\ flat[last] = SubSeq(texts, 1, last)
      BY <1>1, <2>4, <3>1, JoinsFollow DEF ordered
    <3>4. LoopInv(texts, ordered, flat, ApplyInOrder(texts, ordered), Len(ordered))
      BY <1>1, <2>1, <2>2, <2>4, <3>2, <3>3, LoopEnds
    <3>5. result.ok
      BY <1>2, <1>8, <2>2, <2>4, <3>4 DEF LoopInv, AllFit
    <3>6. PICK R \in Seq(Text) :
              /\ result.texts = SubSeq(texts, 1, last) \o R
              /\ flat[Len(texts)] = flat[last] \o R
      BY <1>2, <1>8, <2>2, <2>4, <3>4, <3>5 DEF LoopInv
    <3> HIDE DEF last
    <3>7. result.texts = Spliced(texts, hunks)
      BY <3>1, <3>3, <3>6
    <3> QED
      BY <1>5, <2>4, <3>5, <3>7
  <2> QED
    BY <2>3, <2>4
<1> QED
  BY <1>6, <1>7, <1>8

-----------------------------------------------------------------------------
(* The tools' threads.                                                      *)

\* Shapes beyond TypeOK that updates of one thread's entry need.
Shapes ==
    /\ DOMAIN files = Path /\ DOMAIN call = Thread
    /\ reply \in [Thread -> {"none", "ok", "error", "refused", "updated", "cancelled", "timedOut"}]
    /\ pc \in [Thread -> {"idle", "open", "write", "search", "spawn", "append",
                          "test", "after", "drain", "report", "done"}]
    /\ child \in [Thread -> {"none", "running", "exited", "killed"}]
    /\ printed \in [Thread -> [lines : Nat, saysCancelled : BOOLEAN, timedOut : BOOLEAN]]

\* What a thread's place says about its call, its process and its output.
ThreadOK(t) ==
    /\ pc[t] \in {"idle", "open", "write", "search", "spawn"} => child[t] = "none"
    /\ pc[t] \in {"append", "test", "after"} => child[t] # "none"
    /\ pc[t] \in {"drain", "report"} => child[t] \in {"exited", "killed"}
    /\ pc[t] # "done" => reply[t] = "none"
    /\ pc[t] # "done" /\ child[t] = "killed" => printed[t].timedOut
    /\ pc[t] \in {"open", "write", "search"} => call[t].tool # "shell"
    /\ pc[t] \in {"open", "write"} => call[t].path \in Inside
    /\ printed[t] # Silence => pc[t] \in {"append", "test", "after", "drain", "report"}
    /\ call[t].tool = "shell" /\ reply[t] = "ok" => child[t] = "exited"

ToolsIInv == Shapes /\ \A t \in Thread : ThreadOK(t)

-----------------------------------------------------------------------------
\* Every action is one thread's, and leaves the other threads as they are.
LEMMA OneThread ==
    ASSUME ToolsIInv, Shapes', NEW t \in Thread, ThreadOK(t)',
           \A u \in Thread \ {t} :
               /\ pc'[u] = pc[u] /\ call'[u] = call[u] /\ child'[u] = child[u]
               /\ printed'[u] = printed[u] /\ reply'[u] = reply[u]
    PROVE  ToolsIInv'
<1>1. ASSUME NEW u \in Thread \ {t}
      PROVE  ThreadOK(u)'
  BY <1>1 DEF ToolsIInv, ThreadOK
<1> QED
  BY <1>1 DEF ToolsIInv

\* A step that touches nothing the invariant speaks of.
LEMMA Elsewhere ==
    ASSUME ToolsIInv, UNCHANGED <<pc, call, child, printed, reply>>, DOMAIN files' = Path
    PROVE  ToolsIInv'
  BY DEF ToolsIInv, Shapes, ThreadOK

\* A call arrives and is answered at once, or its thread goes on.
LEMMA Arrives ==
    ASSUME ToolsIInv, NEW t \in Thread, pc[t] = "idle",
           UNCHANGED <<files, child, printed>>,
           NEW c, call' = [call EXCEPT ![t] = c],
           NEW place \in {"done", "open", "search", "spawn"}, pc' = [pc EXCEPT ![t] = place],
           NEW answer \in {"none", "ok", "error", "refused"},
           reply' = [reply EXCEPT ![t] = answer],
           place # "done" => answer = "none",
           place \in {"open", "search"} \/ answer = "ok" => c.tool # "shell",
           place = "open" => c.path \in Inside
    PROVE  ToolsIInv'
<1>1. Shapes'
  BY DEF ToolsIInv, Shapes
<1>2. /\ pc'[t] = place /\ call'[t] = c /\ reply'[t] = answer /\ child'[t] = child[t]
      /\ printed'[t] = printed[t]
      /\ \A u \in Thread \ {t} : pc'[u] = pc[u] /\ call'[u] = call[u] /\ reply'[u] = reply[u]
  BY DEF ToolsIInv, Shapes
<1>3. child[t] = "none" /\ printed[t] = Silence
  BY DEF ToolsIInv, ThreadOK
<1>4. ThreadOK(t)'
  BY <1>2, <1>3 DEF ThreadOK
<1> QED
  BY <1>1, <1>2, <1>4, OneThread

LEMMA ArriveKeeps ==
    ASSUME ToolsIInv, NEW t \in Thread, Arrive(t)
    PROVE  ToolsIInv'
<1> USE DEF procVars, fileVars, Takes, Answer, Goto
<1>1. reply \in [Thread -> {"none", "ok", "error", "refused", "updated", "cancelled", "timedOut"}]
  BY DEF ToolsIInv, Shapes
<1>2. pc[t] = "idle" => reply[t] = "none"
  BY DEF ToolsIInv, ThreadOK
<1>3. pc[t] = "idle" /\ UNCHANGED reply => reply' = [reply EXCEPT ![t] = "none"]
  BY <1>1, <1>2
<1> HIDE DEF procVars, fileVars
<1>4. ASSUME NEW c, Read(t, c)
      PROVE  ToolsIInv'
  <2>1. /\ pc[t] = "idle" /\ c.tool = "read" /\ UNCHANGED <<files, child, printed>>
        /\ call' = [call EXCEPT ![t] = c] /\ pc' = [pc EXCEPT ![t] = "done"]
    BY <1>4 DEF Read, procVars
  <2>2. PICK answer \in {"ok", "error"} : reply' = [reply EXCEPT ![t] = answer]
    BY <1>4 DEF Read
  <2> QED
    BY <2>1, <2>2, Arrives
<1>5. ASSUME NEW c, EditRead(t, c)
      PROVE  ToolsIInv'
  <2>1. /\ pc[t] = "idle" /\ c.tool = "edit" /\ UNCHANGED <<files, child, printed>>
        /\ call' = [call EXCEPT ![t] = c]
    BY <1>5 DEF EditRead, procVars
  <2>2. CASE ~Readable(c, TRUE)
    BY <1>5, <2>1, <2>2, Arrives DEF EditRead
  <2>3. CASE Readable(c, TRUE)
    <3>1. c.path \in Inside
      BY <2>3 DEF Readable, Resolves, JailContains
    <3>2. \/ pc' = [pc EXCEPT ![t] = "open"] /\ UNCHANGED reply
          \/ pc' = [pc EXCEPT ![t] = "done"] /\ reply' = [reply EXCEPT ![t] = "refused"]
      BY <1>5, <2>3 DEF EditRead
    <3> QED
      BY <1>3, <2>1, <3>1, <3>2, Arrives
  <2> QED
    BY <2>2, <2>3
<1>6. ASSUME NEW c, Search(t, c)
      PROVE  ToolsIInv'
  <2>1. /\ pc[t] = "idle" /\ c.tool = "search" /\ UNCHANGED <<files, child, printed>>
        /\ call' = [call EXCEPT ![t] = c]
    BY <1>6 DEF Search, procVars
  <2>2. \/ pc' = [pc EXCEPT ![t] = "search"] /\ UNCHANGED reply
        \/ pc' = [pc EXCEPT ![t] = "done"] /\ reply' = [reply EXCEPT ![t] = "error"]
    BY <1>6 DEF Search
  <2> QED
    BY <1>3, <2>1, <2>2, Arrives
<1>7. ASSUME NEW c, Project(t, c)
      PROVE  ToolsIInv'
  BY <1>7, Arrives DEF Project, procVars, fileVars
<1>8. ASSUME NEW c, StartProc(t, c)
      PROVE  ToolsIInv'
  <2>1. PICK n \in Programs(c) :
            /\ pc[t] = "idle" /\ call' = [call EXCEPT ![t] = [c EXCEPT !.programs = n]]
            /\ \/ pc' = [pc EXCEPT ![t] = "spawn"] /\ UNCHANGED reply
               \/ pc' = [pc EXCEPT ![t] = "done"] /\ reply' = [reply EXCEPT ![t] = "error"]
            /\ UNCHANGED <<files, child, printed>>
    BY <1>8 DEF StartProc, procVars, fileVars
  <2> QED
    BY <1>3, <2>1, Arrives
<1> QED
  BY <1>4, <1>5, <1>6, <1>7, <1>8 DEF Arrive

-----------------------------------------------------------------------------
(* read, edit and search                                                   *)

LEMMA FileStepKeeps ==
    ASSUME ToolsIInv, NEW t \in Thread, FileStep(t)
    PROVE  ToolsIInv'
<1> USE DEF Answer, Goto
<1>1. CASE \/ EditOpen(t) \/ EditOpenFails(t) \/ EditWrite(t) \/ EditWriteFails(t)
           \/ EditWriteStops(t) \/ SearchDone(t)
  <2>1. /\ UNCHANGED <<call, child, printed>> /\ DOMAIN files' = DOMAIN files
        /\ pc[t] \in {"open", "write", "search"}
    BY <1>1 DEF EditOpen, EditWrite, EditWriteFails, EditWriteStops, EditOpenFails, SearchDone,
                procVars, fileVars
  <2>2. \/ pc[t] = "open" /\ pc' = [pc EXCEPT ![t] = "write"] /\ UNCHANGED reply
        \/ /\ pc' = [pc EXCEPT ![t] = "done"]
           /\ \E answer \in {"ok", "updated", "error"} : reply' = [reply EXCEPT ![t] = answer]
    BY <1>1, SMTT(30) DEF EditOpen, EditWrite, EditWriteFails, EditWriteStops, EditOpenFails,
                          SearchDone
  <2>3. Shapes'
    BY <2>1, <2>2, SMTT(30) DEF ToolsIInv, Shapes
  <2>4. /\ \A u \in Thread \ {t} : pc'[u] = pc[u] /\ reply'[u] = reply[u]
        /\ \/ pc[t] = "open" /\ pc'[t] = "write" /\ reply'[t] = reply[t]
           \/ pc'[t] = "done"
    BY <2>2 DEF ToolsIInv, Shapes
  <2>5. ThreadOK(t)'
    BY <2>1, <2>4 DEF ToolsIInv, ThreadOK
  <2> QED
    BY <2>1, <2>3, <2>4, <2>5, OneThread
<1>2. ASSUME NEW path \in Inside, SearchFile(t, path)
      PROVE  ToolsIInv'
  BY <1>2, Elsewhere DEF SearchFile, procVars, ToolsIInv, Shapes
<1> QED
  BY <1>1, <1>2 DEF FileStep

-----------------------------------------------------------------------------
(* RunProc                                                                 *)

LEMMA SpawnKeeps ==
    ASSUME ToolsIInv, NEW t \in Thread, Spawn(t) \/ SpawnFails(t)
    PROVE  ToolsIInv'
<1> USE DEF Answer, Goto
<1>1. /\ UNCHANGED <<files, printed>> /\ pc[t] = "spawn" /\ DOMAIN call' = DOMAIN call
      /\ \A u \in Thread \ {t} : call'[u] = call[u]
  BY DEF Spawn, SpawnFails, procVars, fileVars, ToolsIInv, Shapes
<1>2. \/ /\ pc' = [pc EXCEPT ![t] = "append"] /\ child' = [child EXCEPT ![t] = "running"]
         /\ UNCHANGED <<call, reply>>
      \/ UNCHANGED <<pc, child, reply>>
      \/ /\ pc' = [pc EXCEPT ![t] = "done"] /\ reply' = [reply EXCEPT ![t] = "error"]
         /\ UNCHANGED <<call, child>>
  BY DEF Spawn, SpawnFails, procVars
<1>3. Shapes'
  BY <1>1, <1>2, SMTT(30) DEF ToolsIInv, Shapes
<1>4. /\ \A u \in Thread \ {t} : /\ pc'[u] = pc[u] /\ child'[u] = child[u]
                                 /\ printed'[u] = printed[u] /\ reply'[u] = reply[u]
      /\ \/ pc'[t] = "append" /\ child'[t] = "running" /\ reply'[t] = reply[t]
         \/ pc'[t] = "spawn" /\ child'[t] = child[t] /\ reply'[t] = reply[t]
         \/ pc'[t] = "done" /\ child'[t] = child[t] /\ reply'[t] = "error"
  BY <1>1, <1>2 DEF ToolsIInv, Shapes
<1>5. ThreadOK(t)'
  BY <1>1, <1>4 DEF ToolsIInv, ThreadOK
<1> QED
  BY <1>1, <1>3, <1>4, <1>5, OneThread

\* Reading the output moves a thread within its loop, or out of it.
LEMMA ReadLineKeeps ==
    ASSUME ToolsIInv, NEW t \in Thread, ReadLine(t) \/ ReadLineFails(t)
    PROVE  ToolsIInv'
<1> USE DEF Goto
<1>1. UNCHANGED <<files, call, child, reply>> /\ pc[t] \in {"append", "drain"}
  BY DEF ReadLine, ReadLineFails, procVars, fileVars
<1>2. printed[t] \in [lines : Nat, saysCancelled : BOOLEAN, timedOut : BOOLEAN]
  BY DEF ToolsIInv, Shapes
<1>3. /\ printed' \in [Thread -> [lines : Nat, saysCancelled : BOOLEAN, timedOut : BOOLEAN]]
      /\ printed'[t].timedOut = printed[t].timedOut
      /\ \A u \in Thread \ {t} : printed'[u] = printed[u]
  <2>1. CASE ReadLine(t)
    <3>1. PICK w \in BOOLEAN :
              printed' = [printed EXCEPT ![t].lines = @ + 1, ![t].saysCancelled = @ \/ w]
      BY <2>1 DEF ReadLine
    <3>2. printed[t].lines + 1 \in Nat /\ (printed[t].saysCancelled \/ w) \in BOOLEAN
      BY <1>2
    <3> QED
      BY <1>2, <3>1, <3>2 DEF ToolsIInv, Shapes
  <2>2. CASE ReadLineFails(t)
    BY <2>2 DEF ReadLineFails, procVars, ToolsIInv, Shapes
  <2> QED
    BY <2>1, <2>2
<1>4. \/ UNCHANGED pc
      \/ pc[t] = "append" /\ \E place \in {"test", "after"} : pc' = [pc EXCEPT ![t] = place]
      \/ pc[t] = "drain" /\ pc' = [pc EXCEPT ![t] = "report"]
  BY <1>1 DEF ReadLine, ReadLineFails
<1>5. Shapes'
  BY <1>1, <1>3, <1>4 DEF ToolsIInv, Shapes
<1>6. /\ \A u \in Thread \ {t} : pc'[u] = pc[u]
      /\ \/ pc[t] = "append" /\ pc'[t] \in {"append", "test", "after"}
         \/ pc[t] = "drain" /\ pc'[t] \in {"drain", "report"}
  BY <1>1, <1>4 DEF ToolsIInv, Shapes
<1>7. ThreadOK(t)'
  BY <1>1, <1>3, <1>6 DEF ToolsIInv, ThreadOK
<1> QED
  BY <1>1, <1>3, <1>5, <1>6, <1>7, OneThread

\* Whoever kills the process says so in timedOut.
LEMMA TestKeeps ==
    ASSUME ToolsIInv, NEW t \in Thread, TestCancelled(t) \/ TestRound(t) \/ AfterLoop(t)
    PROVE  ToolsIInv'
<1> USE DEF Goto
<1>1. /\ UNCHANGED <<files, call, reply>>
      /\ \/ pc[t] = "test" /\ \E place \in {"append", "after"} : pc' = [pc EXCEPT ![t] = place]
         \/ pc[t] = "after" /\ pc' = [pc EXCEPT ![t] = "drain"]
  BY DEF TestCancelled, TestRound, AfterLoop, procVars, fileVars
<1>2. /\ printed[t] \in [lines : Nat, saysCancelled : BOOLEAN, timedOut : BOOLEAN]
      /\ child[t] \in {"none", "running", "exited", "killed"}
  BY DEF ToolsIInv, Shapes
<1>3. /\ printed' \in [Thread -> [lines : Nat, saysCancelled : BOOLEAN, timedOut : BOOLEAN]]
      /\ child' \in [Thread -> {"none", "running", "exited", "killed"}]
      /\ \A u \in Thread \ {t} : printed'[u] = printed[u] /\ child'[u] = child[u]
      /\ \/ UNCHANGED <<child, printed>> /\ (pc[t] = "after" => child[t] # "running")
         \/ printed'[t].timedOut /\ child'[t] = IF child[t] = "running" THEN "killed" ELSE child[t]
  <2>1. CASE TestCancelled(t)
    <3>1. /\ printed' = [printed EXCEPT ![t].timedOut = TRUE, ![t].saysCancelled = TRUE]
          /\ child' = [child EXCEPT ![t] = IF @ = "running" THEN "killed" ELSE @]
      BY <2>1 DEF TestCancelled
    <3> QED
      BY <1>2, <3>1 DEF ToolsIInv, Shapes
  <2>2. CASE AfterLoop(t) /\ Running(t)
    <3>1. /\ printed' = [printed EXCEPT ![t].timedOut = TRUE]
          /\ child' = [child EXCEPT ![t] = IF @ = "running" THEN "killed" ELSE @]
      BY <2>2 DEF AfterLoop, Kill
    <3> QED
      BY <1>2, <3>1 DEF ToolsIInv, Shapes
  <2>3. CASE TestRound(t) \/ (AfterLoop(t) /\ ~Running(t))
    BY <2>3 DEF TestRound, AfterLoop, Running, procVars, ToolsIInv, Shapes
  <2> QED
    BY <2>1, <2>2, <2>3
<1>4. Shapes'
  <2>1. pc' \in [Thread -> {"idle", "open", "write", "search", "spawn", "append",
                            "test", "after", "drain", "report", "done"}]
    BY <1>1 DEF ToolsIInv, Shapes
  <2>2. UNCHANGED <<files, call, reply>>
    BY <1>1
  <2>3. /\ printed' \in [Thread -> [lines : Nat, saysCancelled : BOOLEAN, timedOut : BOOLEAN]]
        /\ child' \in [Thread -> {"none", "running", "exited", "killed"}]
    BY <1>3
  <2> QED
    BY <2>1, <2>2, <2>3 DEF ToolsIInv, Shapes
<1>5. /\ \A u \in Thread \ {t} : pc'[u] = pc[u]
      /\ \/ pc[t] = "test" /\ pc'[t] \in {"append", "after"}
         \/ pc[t] = "after" /\ pc'[t] = "drain"
  BY <1>1 DEF ToolsIInv, Shapes
<1>6. child[t] # "none"
  BY <1>1 DEF ToolsIInv, ThreadOK
<1>7. ThreadOK(t)'
  BY <1>1, <1>2, <1>3, <1>5, <1>6 DEF ToolsIInv, ThreadOK
<1> QED
  BY <1>1, <1>3, <1>4, <1>5, <1>7, OneThread

\* The answer: ok for shell only when neither word nor flag says otherwise.
LEMMA ReportKeeps ==
    ASSUME ToolsIInv, NEW t \in Thread, Report(t)
    PROVE  ToolsIInv'
<1>1. PICK answer : answer = IF call[t].tool = "shell" THEN ShellAnswer(t) ELSE "ok"
  OBVIOUS
<1>2. /\ UNCHANGED <<files, call, child>> /\ pc[t] = "report"
      /\ pc' = [pc EXCEPT ![t] = "done"] /\ reply' = [reply EXCEPT ![t] = answer]
      /\ printed' = [printed EXCEPT ![t] = Silence]
  BY <1>1 DEF Report, Answer, Goto, fileVars
<1>3. answer \in {"ok", "cancelled", "timedOut"}
  BY <1>1 DEF ShellAnswer
<1>4. Silence \in [lines : Nat, saysCancelled : BOOLEAN, timedOut : BOOLEAN]
  BY DEF Silence
<1>5. Shapes'
  BY <1>2, <1>3, <1>4 DEF ToolsIInv, Shapes
<1>6. /\ pc'[t] = "done" /\ reply'[t] = answer /\ printed'[t] = Silence
      /\ \A u \in Thread \ {t} : /\ pc'[u] = pc[u] /\ reply'[u] = reply[u]
                                 /\ printed'[u] = printed[u]
  BY <1>2 DEF ToolsIInv, Shapes
<1>7. call[t].tool = "shell" /\ answer = "ok" => child[t] = "exited"
  <2>1. call[t].tool = "shell" /\ answer = "ok" => ~printed[t].timedOut
    BY <1>1 DEF ShellAnswer
  <2>2. child[t] \in {"exited", "killed"} /\ (child[t] = "killed" => printed[t].timedOut)
    BY <1>2 DEF ToolsIInv, ThreadOK
  <2> QED
    BY <2>1, <2>2
<1>8. ThreadOK(t)'
  BY <1>2, <1>6, <1>7 DEF ThreadOK
<1> QED
  BY <1>2, <1>5, <1>6, <1>8, OneThread

LEMMA ChildExitsKeeps ==
    ASSUME ToolsIInv, NEW t \in Thread, ChildExits(t)
    PROVE  ToolsIInv'
<1>1. /\ UNCHANGED <<files, pc, call, printed, reply>> /\ child[t] = "running"
      /\ child' = [child EXCEPT ![t] = "exited"]
  BY DEF ChildExits, Running, fileVars
<1>2. Shapes'
  BY <1>1 DEF ToolsIInv, Shapes
<1>3. child'[t] = "exited" /\ \A u \in Thread \ {t} : child'[u] = child[u]
  BY <1>1 DEF ToolsIInv, Shapes
<1>4. ThreadOK(t)'
  BY <1>1, <1>3 DEF ToolsIInv, ThreadOK
<1> QED
  BY <1>1, <1>2, <1>3, <1>4, OneThread

-----------------------------------------------------------------------------
LEMMA ToolsInit == Init => ToolsIInv
<1> SUFFICES ASSUME Init PROVE ToolsIInv
  OBVIOUS
<1>1. DOMAIN files = Path
  BY WorkspaceAssumption DEF Init
<1>2. Silence \in [lines : Nat, saysCancelled : BOOLEAN, timedOut : BOOLEAN]
  BY DEF Silence
<1>3. Shapes
  BY <1>1, <1>2 DEF Init, Shapes
<1>4. \A t \in Thread : ThreadOK(t)
  BY DEF Init, ThreadOK
<1> QED
  BY <1>3, <1>4 DEF ToolsIInv

LEMMA ToolsStep == ToolsIInv /\ [Next]_vars => ToolsIInv'
<1> SUFFICES ASSUME ToolsIInv, [Next]_vars PROVE ToolsIInv'
  OBVIOUS
<1>1. ASSUME NEW t \in Thread, ProcStep(t) PROVE ToolsIInv'
  BY <1>1, SpawnKeeps, ReadLineKeeps, TestKeeps, ReportKeeps DEF ProcStep
<1>2. ASSUME NEW t \in Thread, Release(t) \/ Expire(t) PROVE ToolsIInv'
  BY <1>2, Elsewhere DEF Release, Expire, fileVars, ToolsIInv, Shapes
<1>3. ASSUME NEW t \in Thread, Environment(t) PROVE ToolsIInv'
  BY <1>2, <1>3, ReadLineKeeps, ChildExitsKeeps DEF Environment
<1>4. ASSUME NEW t \in Thread, Cancel(call[t].id) PROVE ToolsIInv'
  BY <1>4, Elsewhere DEF Cancel, fileVars, ToolsIInv, Shapes
<1>5. CASE UNCHANGED vars
  BY <1>5, Elsewhere DEF vars, fileVars, procVars, ToolsIInv, Shapes
<1> QED
  BY <1>1, <1>3, <1>4, <1>5, ArriveKeeps, FileStepKeeps DEF Next

LEMMA ToolsAlways == Spec => []ToolsIInv
  BY ToolsInit, ToolsStep, PTL DEF Spec

\* ToolsInv: whatever the order in which a command ends, its deadline passes, it
\* is cancelled or floods its output, shell answers ok only if the command came
\* to its own end (RunProc and ShellCommand in CoreTools.cpp).
THEOREM StoppedIsNeverDone == Spec => []ToolsInv
<1>1. ToolsIInv => ToolsInv
  BY DEF ToolsIInv, Shapes, ThreadOK, ToolsInv, TypeOK, ShellOkMeansFinished
<1> QED
  BY <1>1, ToolsAlways, PTL

\* Files that the jail does not contain are never changed: the path that edit
\* resolved is the one it opens, whatever other calls come in between.
OutsideUntouched == [][\A path \in Path \ Inside : files'[path] = files[path]]_vars

\* OutsideUntouched holds for any calls: WorkspaceJail is asked once, before
\* the file is read, and edit writes in two later steps.
THEOREM EditsStayInJail == Spec => OutsideUntouched
<1>1. ASSUME ToolsIInv, [Next]_vars, NEW path \in Path \ Inside
      PROVE  files'[path] = files[path]
  <2>1. DOMAIN files = Path
    BY <1>1 DEF ToolsIInv, Shapes
  <2>2. ASSUME NEW t \in Thread, EditOpen(t) \/ EditWrite(t) \/ EditWriteStops(t)
        PROVE  files'[path] = files[path]
    <3>1. call[t].path # path
      BY <1>1, <2>2 DEF EditOpen, EditWrite, EditWriteStops, ToolsIInv, ThreadOK
    <3> QED
      BY <2>1, <2>2, <3>1 DEF EditOpen, EditWrite, EditWriteStops
  <2>3. ASSUME NEW t \in Thread, FileStep(t), ~EditOpen(t), ~EditWrite(t), ~EditWriteStops(t)
        PROVE  UNCHANGED files
    BY <2>3 DEF FileStep, EditOpenFails, EditWriteFails, SearchFile, SearchDone, fileVars
  <2>4. ASSUME NEW t \in Thread, Arrive(t) PROVE UNCHANGED files
    BY <2>4 DEF Arrive, Read, EditRead, Search, Project, StartProc, fileVars
  <2>5. ASSUME NEW t \in Thread, ProcStep(t) \/ Environment(t) PROVE UNCHANGED files
    BY <2>5 DEF ProcStep, Environment, Spawn, SpawnFails, ReadLine, ReadLineFails, TestCancelled,
                TestRound, AfterLoop, Report, ChildExits, Release, Expire, fileVars
  <2>6. ASSUME NEW id, Cancel(id) PROVE UNCHANGED files
    BY <2>6 DEF Cancel, fileVars
  <2>7. CASE UNCHANGED vars
    BY <2>7 DEF vars, fileVars
  <2> QED
    BY <1>1, <2>2, <2>3, <2>4, <2>5, <2>6, <2>7 DEF Next
<1>2. ToolsIInv /\ [Next]_vars =>
          [\A path \in Path \ Inside : files'[path] = files[path]]_vars
  BY <1>1
<1> QED
  BY <1>2, ToolsAlways, PTL DEF Spec, OutsideUntouched

-----------------------------------------------------------------------------
(* An edit and the other edits of its file: a lone edit leaves what          *)
(* ApplyHunks computed, which HunksAreSpliced says what it is.               *)

Applied(t) == ApplyHunks(ParseFile(found[t].snapshot), call[t].hunks)

EditShapes ==
    /\ DOMAIN found = Thread /\ disturbed \in [Thread -> BOOLEAN]
    /\ cutShort \in [Thread -> BOOLEAN] /\ files \in [Path -> File]

\* What an edit was given.
Given(t) == call[t].hunks \in Seq(Hunk) /\ found[t].snapshot \in File

\* What an edit has left of the file, if nobody else has written it.
Leaves(t, file) ==
    /\ reply[t] = "refused" => file = found[t].snapshot
    /\ reply[t] = "updated" /\ ~cutShort[t] => file = Joined(Applied(t).texts)
    /\ reply[t] = "updated" /\ cutShort[t] =>
          \/ file = Empty
          \/ \E n \in 1 .. Len(Joined(Applied(t).texts).lines) - 1 :
                file = FirstLines(Joined(Applied(t).texts), n)

\* What is known of an edit on its way: what it will write, and that the file
\* is empty between its two steps.
EditOK(t) ==
    /\ pc[t] # "done" => ~cutShort[t]
    /\ pc[t] \in {"open", "write"} =>
          /\ call[t].tool = "edit" /\ Given(t) /\ Applied(t).ok
          /\ found[t].next = Joined(Applied(t).texts)
    /\ pc[t] = "write" /\ ~disturbed[t] => files[call[t].path] = Empty
    /\ call[t].tool = "edit" /\ reply[t] \in {"updated", "refused"} =>
          /\ Given(t) /\ (reply[t] = "updated" <=> Applied(t).ok)
          /\ call[t].path \in Inside
          /\ ~disturbed[t] => Leaves(t, files[call[t].path])

EditIInv == ToolsIInv /\ EditShapes /\ \A t \in Thread : EditOK(t)

LEMMA ParseFileType ==
    ASSUME NEW file \in File
    PROVE  ParseFile(file) \in Seq(Text)
<1>1. file.lines \in Seq([text : Text, cr : BOOLEAN])
  BY DEF File
<1>2. /\ Len(file.lines) \in Nat /\ DOMAIN file.lines = 1 .. Len(file.lines)
      /\ \A i \in 1 .. Len(file.lines) : file.lines[i].text \in Text
  <2> DEFINE lines == file.lines
             L == [text : Text, cr : BOOLEAN]
  <2> HIDE DEF L, lines
  <2>1. lines \in Seq(L)
    BY <1>1 DEF lines, L
  <2>2. Len(lines) \in Nat /\ DOMAIN lines = 1 .. Len(lines) /\ \A i \in 1 .. Len(lines) : lines[i] \in L
    BY <2>1
  <2>3. \A x \in L : x.text \in Text
    BY DEF L
  <2> QED
    BY <2>2, <2>3 DEF lines
<1>3. ParseFile(file) = [i \in 1 .. Len(file.lines) |-> file.lines[i].text]
  BY <1>2 DEF ParseFile
<1>4. ParseFile(file) \in [1 .. Len(file.lines) -> Text]
  BY <1>2, <1>3
<1> QED
  BY <1>2, <1>4, SeqDef

LEMMA EmptyType == Empty \in File
<1>1. <<>> \in Seq([text : Text, cr : BOOLEAN])
  OBVIOUS
<1> QED
  BY <1>1 DEF File, Empty

LEMMA JoinedType ==
    ASSUME NEW texts \in Seq(Text)
    PROVE  OrBlank(texts) \in Seq(Text) /\ Joined(texts) \in File
<1>1. OrBlank(texts) \in Seq(Text)
  BY HashAssumption DEF OrBlank
<1> DEFINE lines == [i \in DOMAIN OrBlank(texts) |-> [text |-> OrBlank(texts)[i], cr |-> FALSE]]
<1>2. lines \in Seq([text : Text, cr : BOOLEAN])
  <2>1. /\ Len(OrBlank(texts)) \in Nat /\ DOMAIN OrBlank(texts) = 1 .. Len(OrBlank(texts))
        /\ \A i \in 1 .. Len(OrBlank(texts)) : OrBlank(texts)[i] \in Text
    BY <1>1
  <2> QED
    BY <2>1
<1>3. Joined(texts) = [kind |-> "text", newline |-> TRUE, lines |-> lines]
  BY DEF Joined
<1> HIDE DEF lines
<1> QED
  BY <1>1, <1>2, <1>3 DEF File

LEMMA OverlayType ==
    ASSUME NEW new \in File, NEW old \in File
    PROVE  Overlay(new, old) \in File
<1> DEFINE L == [text : Text, cr : BOOLEAN]
           below == SubSeq(old.lines, Len(new.lines) + 1, Len(old.lines))
<1>1. new.lines \in Seq(L) /\ old.lines \in Seq(L)
  BY DEF File
<1> HIDE DEF L
<1>2. Len(new.lines) + 1 \in Int /\ Len(old.lines) \in Int
  BY <1>1
<1>3. \A i \in Len(new.lines) + 1 .. Len(old.lines) : old.lines[i] \in L
  BY <1>1
<1>4. below \in Seq(L)
  BY <1>2, <1>3, SubSeqProperties
<1> HIDE DEF below
<1>5. new.lines \o below \in Seq(L)
  BY <1>1, <1>4, ConcatProperties
<1>6. Overlay(new, old) = [new EXCEPT !.lines = new.lines \o below]
  BY DEF Overlay, below
<1> QED
  BY <1>5, <1>6 DEF File, L

\* A beginning of a file's lines is a file.
LEMMA FirstType ==
    ASSUME NEW file \in File, NEW n \in 1 .. Len(file.lines) - 1
    PROVE  /\ FirstLines(file, n) \in File
           /\ FirstLines(file, n).lines = SubSeq(file.lines, 1, n)
<1> DEFINE L == [text : Text, cr : BOOLEAN]
<1>1. file.lines \in Seq(L) /\ file.kind \in {"text", "binary", "missing"}
      /\ file.newline \in BOOLEAN /\ DOMAIN file = {"kind", "newline", "lines"}
  BY DEF File
<1> HIDE DEF L
<1>2. SubSeq(file.lines, 1, n) \in Seq(L)
  <2>1. 1 \in Int /\ n \in Int /\ \A i \in 1 .. n : file.lines[i] \in L
    BY <1>1
  <2> QED
    BY <2>1, SubSeqProperties
<1>3. FirstLines(file, n) = [file EXCEPT !.lines = SubSeq(file.lines, 1, n)]
  BY DEF FirstLines
<1> QED
  BY <1>1, <1>2, <1>3 DEF File, L

\* Written to an empty file, the lines are the file's lines.
LEMMA OverlayOnEmpty ==
    ASSUME NEW file \in File
    PROVE  Overlay(file, Empty) = file
<1> DEFINE lines == file.lines
<1>1. lines \in Seq([text : Text, cr : BOOLEAN])
  BY DEF File
<1>2. SubSeq(<<>>, Len(lines) + 1, 0) = <<>>
  <2>1. Len(lines) + 1 \in Int /\ 0 \in Int /\ 0 < Len(lines) + 1
    BY <1>1
  <2> QED
    BY <2>1, SubSeqEmpty
<1>3. lines \o <<>> = lines
  BY <1>1, ConcatEmptySeq
<1>4. Empty.lines = <<>> /\ Len(<<>>) = 0
  BY DEF Empty
<1>5. Overlay(file, Empty) = [file EXCEPT !.lines = lines \o SubSeq(<<>>, Len(lines) + 1, 0)]
  BY <1>4 DEF Overlay
<1>6. Overlay(file, Empty) = [file EXCEPT !.lines = lines]
  BY <1>2, <1>3, <1>5
<1> HIDE DEF lines
<1> QED
  BY <1>6 DEF File, lines

\* What EditCommand writes, and a beginning of it, as lines.
LEMMA JoinedIsLines ==
    ASSUME NEW texts \in Seq(Text)
    PROVE  /\ Len(Joined(texts).lines) = Len(OrBlank(texts))
           /\ IsLines(Joined(texts), OrBlank(texts))
           /\ \A n \in 1 .. Len(OrBlank(texts)) - 1 :
                 IsLines(FirstLines(Joined(texts), n), SubSeq(OrBlank(texts), 1, n))
<1> DEFINE all == OrBlank(texts)
           file == Joined(texts)
<1>1. all \in Seq(Text) /\ file \in File
  BY JoinedType
<1>2. Len(all) \in Nat /\ DOMAIN all = 1 .. Len(all)
  BY <1>1
<1>3. /\ file.kind = "text" /\ file.newline = TRUE
      /\ file.lines = [i \in DOMAIN all |-> [text |-> all[i], cr |-> FALSE]]
  BY DEF Joined
<1> HIDE DEF all, file
<1>4. /\ DOMAIN file.lines = 1 .. Len(all)
      /\ \A i \in 1 .. Len(all) : file.lines[i].text = all[i] /\ file.lines[i].cr = FALSE
  BY <1>2, <1>3
<1>5. file.lines \in Seq([text : Text, cr : BOOLEAN])
  BY <1>1 DEF File
<1>6. Len(file.lines) = Len(all)
  BY <1>2, <1>4, <1>5
<1>7. IsLines(file, all)
  <2>1. ParseFile(file) = [i \in 1 .. Len(all) |-> all[i]]
    BY <1>4 DEF ParseFile
  <2>2. ParseFile(file) = all
    BY <1>1, <1>2, <2>1
  <2> QED
    BY <1>3, <1>4, <2>2 DEF IsLines
<1>8. ASSUME NEW n \in 1 .. Len(all) - 1
      PROVE  IsLines(FirstLines(file, n), SubSeq(all, 1, n))
  <2> DEFINE first == FirstLines(file, n)
  <2>1. first.lines = SubSeq(file.lines, 1, n)
    BY <1>1, <1>6, FirstType
  <2>2. first.kind = "text" /\ first.newline = TRUE
    <3>1. first = [file EXCEPT !.lines = SubSeq(file.lines, 1, n)]
      BY DEF FirstLines
    <3>2. file \in [kind : {"text", "binary", "missing"}, newline : BOOLEAN,
                    lines : Seq([text : Text, cr : BOOLEAN])]
      BY <1>1 DEF File
    <3> HIDE DEF first
    <3> QED
      BY <1>3, <3>1, <3>2
  <2>3. n \in Nat /\ 1 \in Int /\ n \in Int /\ n < Len(all)
    BY <1>2
  <2>4. /\ SubSeq(file.lines, 1, n) = [i \in 1 .. n |-> file.lines[i]]
        /\ SubSeq(all, 1, n) = [i \in 1 .. n |-> all[i]]
    <3>1. \A i \in 1 .. n : i + 1 - 1 = i
      OBVIOUS
    <3> QED
      BY <1>1, <1>5, <1>6, <2>3, <3>1
  <2>5. \A i \in 1 .. n : i \in 1 .. Len(all)
    BY <1>2, <2>3
  <2>6. DOMAIN first.lines = 1 .. n /\ \A i \in 1 .. n : first.lines[i] = file.lines[i]
    BY <2>1, <2>4
  <2> HIDE DEF first
  <2>7. ParseFile(first) = [i \in 1 .. n |-> all[i]]
    BY <1>4, <2>5, <2>6 DEF ParseFile
  <2>8. \A i \in DOMAIN first.lines : ~first.lines[i].cr
    BY <1>4, <2>5, <2>6
  <2> QED
    BY <2>2, <2>4, <2>7, <2>8 DEF IsLines, first
<1> QED
  BY <1>6, <1>7, <1>8 DEF all, file

\* What ApplyHunks made of what the edit was given.
LEMMA AppliedIs ==
    ASSUME NEW t \in Thread, Given(t)
    PROVE  LET texts == ParseFile(found[t].snapshot)
           IN  /\ Applied(t) \in Result
               /\ Applied(t).ok <=> Valid(texts, call[t].hunks)
               /\ Applied(t).ok => Applied(t).texts = Spliced(texts, call[t].hunks)
<1>1. ParseFile(found[t].snapshot) \in Seq(Text) /\ call[t].hunks \in Seq(Hunk)
  BY ParseFileType DEF Given
<1> QED
  BY <1>1, HunksAreSpliced DEF Applied

\* A thread keeps what it knows if its own state, its file and what it was told
\* of others stay as they are.
LEMMA EditKept ==
    ASSUME NEW u \in Thread, EditOK(u), ThreadOK(u),
           pc'[u] = pc[u], call'[u] = call[u], reply'[u] = reply[u], found'[u] = found[u],
           cutShort'[u] = cutShort[u],
           disturbed[u] => disturbed'[u],
           call[u].tool = "edit" /\ call[u].path \in Inside /\ ~disturbed'[u] =>
               files'[call[u].path] = files[call[u].path]
    PROVE  EditOK(u)'
<1>1. Applied(u)' = Applied(u) /\ Given(u)' = Given(u)
  BY DEF Applied, Given
<1>2. \A file : Leaves(u, file) => Leaves(u, file)'
  BY <1>1 DEF Leaves
<1> QED
  BY <1>1, <1>2 DEF EditOK, ThreadOK

\* A step of thread t that writes no file.
LEMMA NoWrite ==
    ASSUME EditIInv, ToolsIInv', NEW t \in Thread, UNCHANGED files,
           DOMAIN found' = Thread, disturbed' \in [Thread -> BOOLEAN],
           cutShort' \in [Thread -> BOOLEAN],
           \A u \in Thread \ {t} : /\ pc'[u] = pc[u] /\ call'[u] = call[u] /\ reply'[u] = reply[u]
                                   /\ found'[u] = found[u] /\ disturbed'[u] = disturbed[u]
                                   /\ cutShort'[u] = cutShort[u],
           EditOK(t)'
    PROVE  EditIInv'
<1>1. EditShapes'
  BY DEF EditIInv, EditShapes
<1>2. \A u \in Thread \ {t} : EditOK(u)'
  BY EditKept DEF EditIInv, ToolsIInv
<1> QED
  BY <1>1, <1>2 DEF EditIInv

\* A step of thread t that is not about an edit: it neither opens a file nor
\* answers as an edit does.
LEMMA NotAnEdit ==
    ASSUME EditIInv, ToolsIInv', NEW t \in Thread, UNCHANGED <<files, disturbed, cutShort>>,
           DOMAIN found' = Thread, pc[t] # "done",
           pc'[t] \notin {"open", "write"},
           call'[t].tool # "edit" \/ reply'[t] \notin {"updated", "refused"},
           \A u \in Thread \ {t} : /\ pc'[u] = pc[u] /\ call'[u] = call[u] /\ reply'[u] = reply[u]
                                   /\ found'[u] = found[u]
    PROVE  EditIInv'
<1>1. ~cutShort[t]
  BY DEF EditIInv, EditOK
<1>2. EditOK(t)'
  BY <1>1 DEF EditOK
<1> QED
  BY <1>2, NoWrite DEF EditIInv, EditShapes

\* A call that arrives: an edit takes its snapshot and computes its result.
LEMMA ArriveEdits ==
    ASSUME EditIInv, ToolsIInv', NEW t \in Thread, Arrive(t)
    PROVE  EditIInv'
<1> USE DEF Takes, Answer, Goto
<1>1. /\ DOMAIN call = Thread /\ DOMAIN found = Thread /\ DOMAIN pc = Thread
      /\ DOMAIN reply = Thread /\ disturbed \in [Thread -> BOOLEAN]
  BY DEF EditIInv, ToolsIInv, Shapes, EditShapes
<1>2. PICK c \in Call[t] : \/ Read(t, c) \/ EditRead(t, c) \/ Search(t, c)
                           \/ Project(t, c) \/ StartProc(t, c)
  BY DEF Arrive
<1>3. pc[t] = "idle" => reply[t] = "none"
  BY DEF EditIInv, ToolsIInv, ThreadOK
<1>4. CASE Read(t, c)
  <2>1. /\ call' = [call EXCEPT ![t] = c] /\ pc' = [pc EXCEPT ![t] = "done"]
        /\ UNCHANGED <<files, disturbed, cutShort>> /\ c.tool = "read" /\ pc[t] = "idle"
    BY <1>4 DEF Read
  <2>2. /\ DOMAIN found' = Thread /\ \A u \in Thread \ {t} : found'[u] = found[u]
        /\ \A u \in Thread \ {t} : reply'[u] = reply[u]
    BY <1>1, <1>4 DEF Read
  <2> QED
    BY <1>1, <2>1, <2>2, NotAnEdit
<1>5. CASE Search(t, c)
  <2>1. /\ call' = [call EXCEPT ![t] = c] /\ UNCHANGED <<files, disturbed, cutShort>>
        /\ c.tool = "search" /\ pc[t] = "idle"
    BY <1>5 DEF Search
  <2>2. /\ DOMAIN found' = Thread /\ pc'[t] \notin {"open", "write"}
        /\ \A u \in Thread \ {t} : /\ found'[u] = found[u] /\ reply'[u] = reply[u]
                                   /\ pc'[u] = pc[u]
    BY <1>1, <1>5 DEF Search
  <2> QED
    BY <1>1, <2>1, <2>2, NotAnEdit
<1>6. CASE Project(t, c)
  BY <1>1, <1>6, NotAnEdit DEF Project, fileVars
<1>7. CASE StartProc(t, c)
  <2>1. PICK d : call' = [call EXCEPT ![t] = d]
    BY <1>7 DEF StartProc
  <2>2. /\ UNCHANGED <<files, found, disturbed, cutShort>> /\ pc[t] = "idle"
        /\ \/ pc' = [pc EXCEPT ![t] = "spawn"] /\ UNCHANGED reply
           \/ pc' = [pc EXCEPT ![t] = "done"] /\ reply' = [reply EXCEPT ![t] = "error"]
    BY <1>7 DEF StartProc, fileVars
  <2>3. /\ pc'[t] \notin {"open", "write"} /\ reply'[t] \notin {"updated", "refused"}
        /\ \A u \in Thread \ {t} : /\ pc'[u] = pc[u] /\ call'[u] = call[u] /\ reply'[u] = reply[u]
    BY <1>1, <1>3, <2>1, <2>2
  <2> QED
    BY <1>1, <2>2, <2>3, NotAnEdit
<1>8. CASE EditRead(t, c)
  <2>1. /\ call' = [call EXCEPT ![t] = c] /\ UNCHANGED <<files, cutShort>>
        /\ c.tool = "edit" /\ pc[t] = "idle" /\ disturbed' = [disturbed EXCEPT ![t] = FALSE]
    BY <1>8 DEF EditRead
  <2>2. /\ call'[t] = c /\ disturbed' \in [Thread -> BOOLEAN]
        /\ cutShort' \in [Thread -> BOOLEAN] /\ ~cutShort'[t]
        /\ \A u \in Thread \ {t} : call'[u] = call[u] /\ disturbed'[u] = disturbed[u]
    BY <1>1, <2>1 DEF EditIInv, EditShapes, EditOK
  <2>3. CASE ~Readable(c, TRUE)
    <3>1. /\ UNCHANGED found /\ pc' = [pc EXCEPT ![t] = "done"]
          /\ reply' = [reply EXCEPT ![t] = "error"]
      BY <1>8, <2>3 DEF EditRead
    <3>2. EditOK(t)'
      BY <1>1, <2>2, <3>1 DEF EditOK
    <3> QED
      BY <1>1, <2>1, <2>2, <3>1, <3>2, NoWrite
  <2>4. CASE Readable(c, TRUE)
    <3>1. PICK result, snapshot :
              /\ snapshot = files[c.path] /\ result = ApplyHunks(ParseFile(snapshot), c.hunks)
              /\ found' = [found EXCEPT ![t] = [snapshot |-> snapshot,
                                                 next |-> Joined(result.texts)]]
              /\ \/ /\ result.ok /\ pc' = [pc EXCEPT ![t] = "open"] /\ UNCHANGED reply
                 \/ /\ ~result.ok /\ pc' = [pc EXCEPT ![t] = "done"]
                    /\ reply' = [reply EXCEPT ![t] = "refused"]
      BY <1>8, <2>4 DEF EditRead
    <3>2. /\ found'[t].snapshot = snapshot /\ found'[t].next = Joined(result.texts)
          /\ DOMAIN found' = Thread /\ \A u \in Thread \ {t} : found'[u] = found[u]
      BY <1>1, <3>1
    <3>3. Applied(t)' = result
      BY <2>2, <3>1, <3>2 DEF Applied
    <3>4. /\ \/ result.ok /\ pc'[t] = "open" /\ reply'[t] = "none"
             \/ ~result.ok /\ pc'[t] = "done" /\ reply'[t] = "refused"
          /\ \A u \in Thread \ {t} : pc'[u] = pc[u] /\ reply'[u] = reply[u]
      BY <1>1, <1>3, <2>1, <3>1
    <3>5. Given(t)' /\ c.path \in Inside
      <4>1. c.path \in Path /\ c.path \in Inside
        BY <2>4, WorkspaceAssumption DEF Readable, Resolves, JailContains
      <4>2. snapshot \in File
        BY <3>1, <4>1 DEF EditIInv, EditShapes
      <4>3. c.hunks \in Seq(Hunk)
        BY <2>1, CallAssumption
      <4> QED
        BY <2>2, <3>2, <4>1, <4>2, <4>3 DEF Given
    <3>6. EditOK(t)'
      BY <2>1, <2>2, <3>1, <3>2, <3>3, <3>4, <3>5 DEF EditOK, Leaves
    <3> QED
      BY <2>1, <2>2, <3>2, <3>4, <3>6, NoWrite
  <2> QED
    BY <2>3, <2>4
<1> QED
  BY <1>2, <1>4, <1>5, <1>6, <1>7, <1>8

\* A step that writes thread t's file: everybody else's edit of it is disturbed.
LEMMA Writes ==
    ASSUME EditIInv, ToolsIInv', NEW t \in Thread, Disturb(t), UNCHANGED <<found, call>>,
           \A path \in Path \ {call[t].path} : files'[path] = files[path],
           call[t].path \in Inside, files' \in [Path -> File],
           cutShort' \in [Thread -> BOOLEAN],
           \A u \in Thread \ {t} : /\ pc'[u] = pc[u] /\ reply'[u] = reply[u]
                                   /\ cutShort'[u] = cutShort[u],
           EditOK(t)'
    PROVE  EditIInv'
<1>1. /\ disturbed' \in [Thread -> BOOLEAN] /\ Inside \subseteq Path
      /\ \A u \in Thread \ {t} :
            /\ disturbed[u] => disturbed'[u]
            /\ call[u].tool = "edit" /\ call[u].path = call[t].path => disturbed'[u]
  BY WorkspaceAssumption DEF Disturb, EditIInv, EditShapes
<1>2. EditShapes'
  BY <1>1 DEF EditIInv, EditShapes
<1>3. \A u \in Thread \ {t} : EditOK(u)'
  BY <1>1, EditKept DEF EditIInv, ToolsIInv
<1> QED
  BY <1>2, <1>3 DEF EditIInv

LEMMA EditWrites ==
    ASSUME EditIInv, ToolsIInv', NEW t \in Thread,
           EditOpen(t) \/ EditWrite(t) \/ EditWriteStops(t)
    PROVE  EditIInv'
<1> USE DEF Answer, Goto
<1>1. /\ call[t].path \in Inside /\ call[t].path \in Path /\ DOMAIN files = Path
      /\ files \in [Path -> File] /\ DOMAIN pc = Thread /\ DOMAIN reply = Thread
      /\ disturbed \in [Thread -> BOOLEAN] /\ cutShort \in [Thread -> BOOLEAN] /\ ~cutShort[t]
  BY WorkspaceAssumption DEF EditOpen, EditWrite, EditWriteStops, EditIInv, EditShapes, EditOK,
     ToolsIInv, Shapes, ThreadOK
<1>2. /\ Disturb(t) /\ UNCHANGED <<found, call>> /\ disturbed'[t] = disturbed[t]
      /\ Applied(t)' = Applied(t) /\ Given(t)' = Given(t)
  BY <1>1 DEF EditOpen, EditWrite, EditWriteStops, Disturb, Applied, Given
<1>3. CASE EditOpen(t)
  <2>1. /\ pc[t] = "open" /\ pc'[t] = "write" /\ UNCHANGED <<reply, cutShort>> /\ reply[t] = "none"
        /\ \A u \in Thread \ {t} : pc'[u] = pc[u]
    BY <1>1, <1>3 DEF EditOpen, EditIInv, ToolsIInv, ThreadOK
  <2>2. /\ files'[call[t].path] = Empty /\ files' \in [Path -> File]
        /\ \A path \in Path \ {call[t].path} : files'[path] = files[path]
    <3>1. files' = [files EXCEPT ![call[t].path] = Empty]
      BY <1>3 DEF EditOpen
    <3> QED
      BY <1>1, <3>1, EmptyType
  <2>3. EditOK(t)'
    BY <1>1, <1>2, <2>1, <2>2 DEF EditOK, EditIInv
  <2> QED
    BY <1>1, <1>2, <2>1, <2>2, <2>3, Writes
<1>4. ASSUME pc[t] = "write", NEW new \in File,
             files' = [files EXCEPT ![call[t].path] = Overlay(new, files[call[t].path])],
             reply' = [reply EXCEPT ![t] = "updated"], pc' = [pc EXCEPT ![t] = "done"],
             cutShort' \in [Thread -> BOOLEAN],
             \A u \in Thread \ {t} : cutShort'[u] = cutShort[u],
             \/ ~cutShort'[t] /\ new = Joined(Applied(t).texts)
             \/ /\ cutShort'[t]
                /\ \E n \in 1 .. Len(Joined(Applied(t).texts).lines) - 1 :
                      new = FirstLines(Joined(Applied(t).texts), n)
      PROVE  EditIInv'
  <2>1. /\ pc'[t] = "done" /\ reply'[t] = "updated"
        /\ \A u \in Thread \ {t} : pc'[u] = pc[u] /\ reply'[u] = reply[u]
    BY <1>1, <1>4
  <2>2. /\ files'[call[t].path] = Overlay(new, files[call[t].path])
        /\ \A path \in Path \ {call[t].path} : files'[path] = files[path]
    BY <1>1, <1>4
  <2>3. /\ call[t].tool = "edit" /\ Given(t) /\ Applied(t).ok
        /\ ~disturbed[t] => files[call[t].path] = Empty
    BY <1>4 DEF EditIInv, EditOK
  <2>4. files' \in [Path -> File]
    BY <1>1, <1>4, OverlayType
  <2>5. ~disturbed[t] => files'[call[t].path] = new
    BY <1>4, <2>2, <2>3, OverlayOnEmpty
  <2>6. ~disturbed[t] => Leaves(t, files[call[t].path])'
    BY <1>2, <1>4, <2>1, <2>5 DEF Leaves
  <2>7. EditOK(t)'
    BY <1>1, <1>2, <2>1, <2>3, <2>6 DEF EditOK
  <2> QED
    BY <1>1, <1>2, <1>4, <2>1, <2>2, <2>4, <2>7, Writes
<1>5. pc[t] = "write" => /\ found[t].next = Joined(Applied(t).texts)
                         /\ Joined(Applied(t).texts) \in File
  <2> SUFFICES ASSUME pc[t] = "write" PROVE /\ found[t].next = Joined(Applied(t).texts)
                                            /\ Joined(Applied(t).texts) \in File
    OBVIOUS
  <2>1. Given(t) /\ found[t].next = Joined(Applied(t).texts)
    BY DEF EditIInv, EditOK
  <2>2. Applied(t).texts \in Seq(Text)
    BY <2>1, AppliedIs DEF Result
  <2> QED
    BY <2>1, <2>2, JoinedType
<1>6. CASE EditWrite(t)
  <2>1. /\ pc[t] = "write" /\ UNCHANGED cutShort
        /\ files' = [files EXCEPT ![call[t].path] = Overlay(found[t].next, files[call[t].path])]
        /\ reply' = [reply EXCEPT ![t] = "updated"] /\ pc' = [pc EXCEPT ![t] = "done"]
    BY <1>6 DEF EditWrite
  <2> QED
    BY <1>1, <1>4, <1>5, <2>1
<1>7. CASE EditWriteStops(t)
  <2>1. /\ pc[t] = "write" /\ cutShort' = [cutShort EXCEPT ![t] = TRUE]
        /\ reply' = [reply EXCEPT ![t] = "updated"] /\ pc' = [pc EXCEPT ![t] = "done"]
    BY <1>7 DEF EditWriteStops
  <2>2. PICK n \in 1 .. Len(found[t].next.lines) - 1 :
            files' = [files EXCEPT ![call[t].path] =
                         Overlay(FirstLines(found[t].next, n), files[call[t].path])]
    BY <1>7 DEF EditWriteStops
  <2>3. FirstLines(Joined(Applied(t).texts), n) \in File
    BY <1>5, <2>1, <2>2, FirstType
  <2>4. /\ cutShort' \in [Thread -> BOOLEAN] /\ cutShort'[t]
        /\ \A u \in Thread \ {t} : cutShort'[u] = cutShort[u]
    BY <1>1, <2>1
  <2> QED
    BY <1>4, <1>5, <2>1, <2>2, <2>3, <2>4
<1> QED
  BY <1>3, <1>6, <1>7

\* The edit that could not write, and search.
LEMMA OtherFileSteps ==
    ASSUME EditIInv, ToolsIInv', NEW t \in Thread, FileStep(t), ~EditOpen(t), ~EditWrite(t),
           ~EditWriteStops(t)
    PROVE  EditIInv'
<1> USE DEF Answer, Goto
<1>1. /\ DOMAIN call = Thread /\ DOMAIN found = Thread /\ DOMAIN pc = Thread
      /\ DOMAIN reply = Thread /\ disturbed \in [Thread -> BOOLEAN]
  BY DEF EditIInv, ToolsIInv, Shapes, EditShapes
<1>2. CASE EditOpenFails(t) \/ SearchDone(t)
  <2>1. /\ UNCHANGED <<files, found, disturbed, cutShort, call>>
        /\ pc' = [pc EXCEPT ![t] = "done"] /\ pc[t] # "done"
        /\ \E answer \in {"error", "ok"} : reply' = [reply EXCEPT ![t] = answer]
    BY <1>2 DEF EditOpenFails, SearchDone, fileVars
  <2> QED
    BY <1>1, <2>1, NotAnEdit
<1>3. CASE EditWriteFails(t)
  <2>1. /\ pc[t] = "write" /\ UNCHANGED <<files, found, disturbed, call>>
        /\ pc'[t] = "done" /\ reply'[t] = "updated" /\ cutShort'[t]
        /\ cutShort' \in [Thread -> BOOLEAN]
        /\ \A u \in Thread \ {t} : /\ pc'[u] = pc[u] /\ reply'[u] = reply[u]
                                   /\ cutShort'[u] = cutShort[u]
    BY <1>1, <1>3 DEF EditWriteFails, EditIInv, EditShapes
  <2>2. /\ call[t].tool = "edit" /\ Given(t) /\ Applied(t).ok /\ call[t].path \in Inside
        /\ ~disturbed[t] => files[call[t].path] = Empty
    BY <2>1 DEF EditIInv, EditOK, ToolsIInv, ThreadOK
  <2>3. Applied(t)' = Applied(t) /\ Given(t)' = Given(t)
    BY <2>1 DEF Applied, Given
  <2>4. ~disturbed[t] => Leaves(t, files[call[t].path])'
    BY <2>1, <2>2 DEF Leaves
  <2>5. EditOK(t)'
    BY <2>1, <2>2, <2>3, <2>4 DEF EditOK
  <2> QED
    BY <1>1, <2>1, <2>5, NoWrite
<1>4. ASSUME NEW path \in Inside, SearchFile(t, path)
      PROVE  EditIInv'
  <2>1. /\ UNCHANGED <<files, disturbed, cutShort, pc, call, reply>> /\ pc[t] = "search"
        /\ DOMAIN found' = Thread /\ \A u \in Thread \ {t} : found'[u] = found[u]
    BY <1>1, <1>4 DEF SearchFile
  <2>2. reply[t] = "none"
    BY <2>1 DEF EditIInv, ToolsIInv, ThreadOK
  <2> QED
    BY <2>1, <2>2, NotAnEdit
<1> QED
  BY <1>2, <1>3, <1>4 DEF FileStep

\* Processes have nothing to do with edits.
LEMMA ProcEdits ==
    ASSUME EditIInv, ToolsIInv', NEW t \in Thread, ProcStep(t) \/ ReadLine(t)
    PROVE  EditIInv'
<1> USE DEF Answer, Goto
<1>1. /\ DOMAIN call = Thread /\ DOMAIN pc = Thread /\ DOMAIN reply = Thread
      /\ DOMAIN found = Thread
  BY DEF EditIInv, ToolsIInv, Shapes, EditShapes
<1>2. /\ UNCHANGED <<files, found, disturbed, cutShort>>
      /\ pc[t] \in {"spawn", "append", "test", "after", "drain", "report"}
      /\ \A u \in Thread \ {t} : call'[u] = call[u]
  BY <1>1 DEF ProcStep, Spawn, SpawnFails, ReadLine, ReadLineFails, TestCancelled, TestRound,
              AfterLoop, Report, fileVars
<1>3. reply[t] = "none"
  BY <1>2 DEF EditIInv, ToolsIInv, ThreadOK
<1>4. /\ pc'[t] \notin {"open", "write"} /\ \A u \in Thread \ {t} : pc'[u] = pc[u]
      /\ reply'[t] \notin {"updated", "refused"}
      /\ \A u \in Thread \ {t} : reply'[u] = reply[u]
  <2>1. CASE Spawn(t) \/ SpawnFails(t)
    BY <1>1, <1>2, <1>3, <2>1 DEF Spawn, SpawnFails
  <2>2. CASE ReadLine(t) \/ ReadLineFails(t)
    BY <1>1, <1>2, <1>3, <2>2 DEF ReadLine, ReadLineFails
  <2>3. CASE TestCancelled(t) \/ TestRound(t) \/ AfterLoop(t)
    BY <1>1, <1>2, <1>3, <2>3 DEF TestCancelled, TestRound, AfterLoop
  <2>4. CASE Report(t)
    BY <1>1, <1>2, <1>3, <2>4 DEF Report, ShellAnswer
  <2> QED
    BY <2>1, <2>2, <2>3, <2>4 DEF ProcStep
<1> QED
  BY <1>1, <1>2, <1>4, NotAnEdit

LEMMA EditStep == EditIInv /\ [Next]_vars => EditIInv'
<1> SUFFICES ASSUME EditIInv, [Next]_vars PROVE EditIInv'
  OBVIOUS
<1>1. ToolsIInv'
  BY ToolsStep DEF EditIInv
<1>2. ASSUME UNCHANGED <<fileVars, pc, call, reply>>
      PROVE  EditIInv'
  BY <1>1, <1>2 DEF fileVars, EditIInv, EditShapes, EditOK, Leaves, Applied, Given
<1>3. ASSUME NEW t \in Thread, FileStep(t) PROVE EditIInv'
  BY <1>1, <1>3, EditWrites, OtherFileSteps
<1>4. ASSUME NEW t \in Thread, ProcStep(t) \/ Environment(t) PROVE EditIInv'
  BY <1>1, <1>2, <1>4, ProcEdits DEF Environment, ChildExits, Release, Expire
<1>5. ASSUME NEW id, Cancel(id) PROVE EditIInv'
  BY <1>2, <1>5 DEF Cancel
<1>6. CASE UNCHANGED vars
  BY <1>2, <1>6 DEF vars
<1> QED
  BY <1>1, <1>3, <1>4, <1>5, <1>6, ArriveEdits DEF Next

LEMMA EditInit == Init => EditIInv
<1> SUFFICES ASSUME Init PROVE EditIInv
  OBVIOUS
<1>1. ToolsIInv
  BY ToolsInit
<1>2. files \in [Path -> File]
  BY WorkspaceAssumption DEF Init
<1>3. EditShapes
  BY <1>2 DEF Init, EditShapes
<1>4. \A t \in Thread : EditOK(t)
  BY DEF Init, EditOK
<1> QED
  BY <1>1, <1>3, <1>4 DEF EditIInv

LEMMA EditAlways == Spec => []EditIInv
  BY EditInit, EditStep, PTL DEF Spec

\* EditsInv for any files, hunks and number of threads: files stay lines of
\* known texts, and an edit is accepted exactly if its hunks name lines of the
\* file it read by their hashes and none twice.  Unless another edit of the file
\* came in between, a refused edit leaves every byte of the file, and an accepted
\* one the lines that were read with each hunk in the place of its lines, all
\* ending in bare newlines; or a beginning of them, if the file system refused
\* the rest (EditCommand and Hashline::ApplyHunks).
THEOREM EditsAreExact == Spec => []EditsInv
<1>1. ASSUME EditIInv, NEW t \in Thread,
             call[t].tool = "edit", reply[t] \in {"updated", "refused"}
      PROVE  LET file   == files[call[t].path]
                 texts  == ParseFile(found[t].snapshot)
                 result == OrBlank(Spliced(texts, call[t].hunks))
             IN  /\ (reply[t] = "updated") = Valid(texts, call[t].hunks)
                 /\ ~disturbed[t] =>
                       CASE reply[t] = "refused" -> file = found[t].snapshot
                         [] reply[t] = "updated" /\ ~cutShort[t] -> IsLines(file, result)
                         [] OTHER -> \/ file = Empty
                                     \/ \E n \in 1 .. Len(result) - 1 :
                                           IsLines(file, SubSeq(result, 1, n))
  <2> DEFINE file   == files[call[t].path]
             texts  == ParseFile(found[t].snapshot)
             result == OrBlank(Spliced(texts, call[t].hunks))
  <2>1. /\ Given(t) /\ (reply[t] = "updated" <=> Applied(t).ok)
        /\ ~disturbed[t] => Leaves(t, file)
    BY <1>1 DEF EditIInv, EditOK
  <2>2. /\ Applied(t) \in Result
        /\ Applied(t).ok <=> Valid(texts, call[t].hunks)
        /\ Applied(t).ok => Applied(t).texts = Spliced(texts, call[t].hunks)
    BY <2>1, AppliedIs
  <2>3. Valid(texts, call[t].hunks) \in BOOLEAN
    BY DEF Valid
  <2>4. (reply[t] = "updated") = Valid(texts, call[t].hunks)
    BY <2>1, <2>2, <2>3
  <2>5. Applied(t).texts \in Seq(Text)
    BY <2>2 DEF Result
  <2>6. reply[t] = "updated" => result = OrBlank(Applied(t).texts)
    BY <2>1, <2>2
  <2> HIDE DEF file, result
  <2>7. ASSUME reply[t] = "updated", ~disturbed[t], ~cutShort[t]
        PROVE  IsLines(file, result)
    BY <2>1, <2>5, <2>6, <2>7, JoinedIsLines DEF Leaves
  <2>8. ASSUME reply[t] = "updated", ~disturbed[t], cutShort[t]
        PROVE  file = Empty \/ \E n \in 1 .. Len(result) - 1 : IsLines(file, SubSeq(result, 1, n))
    BY <2>1, <2>5, <2>6, <2>8, JoinedIsLines DEF Leaves
  <2>9. ASSUME reply[t] = "refused", ~disturbed[t]
        PROVE  file = found[t].snapshot
    BY <2>1, <2>9 DEF Leaves
  <2> QED
    BY <1>1, <2>4, <2>7, <2>8, <2>9 DEF file, result
<1>2. EditIInv => LoneEditIsExact
  BY <1>1 DEF LoneEditIsExact
<1>3. EditIInv => EditsInv
  BY <1>2 DEF EditsInv, EditIInv, EditShapes
<1> QED
  BY <1>3, EditAlways, PTL

=============================================================================
