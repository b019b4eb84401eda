--------------------------- MODULE Pipeline_proofs ---------------------------
(***************************************************************************)
(* Theorems about Recording and about Pipeline, which extends it.          *)
(*                                                                         *)
(* Recording.  RecordingInv is inductive: which ticks and numbers a line   *)
(* of the file can carry (Past, TapeOK), what the repair tool holds        *)
(* (LoadOK), and that the number the market process remembers is one after *)
(* the highest in the file unless a repair replaced the file under it      *)
(* (SeqOK).  From it: the types, that no appended record is lost, and that *)
(* no restart leaves a gap.                                                *)
(*                                                                         *)
(* Pipeline.  PipelineInv is inductive: Recording's invariant without a    *)
(* repair, the journal's bounds, an artifact file and the number its       *)
(* writer remembers (FileOK), that the snapshots the engine still has to   *)
(* do are distinct and not done, that every candidate artifact on disk is  *)
(* done or under way, that every universe in the journal is on disk unless *)
(* the file is damaged, and where settlement is in its pass.  One lemma    *)
(* per step of the engine and of settlement; the market service's steps    *)
(* are Recording's.                                                        *)
(*                                                                         *)
(* Those, the sublist every reader uses, is a recursive function:          *)
(* ThoseKeeps and the lemmas after it say what it returns, by induction    *)
(* over a set of numbers.                                                  *)
(***************************************************************************)
EXTENDS Pipeline, SequenceTheorems, WellFoundedInduction, TLAPS

-----------------------------------------------------------------------------
(* Numbers. *)

LEMMA LeastNumber ==
  ASSUME NEW S \in SUBSET Nat, S # {}
  PROVE  \E m \in S : \A n \in S : m <= n
<1>1. PICK m \in S : \A n \in S : <<n, m>> \notin OpToRel(<, Nat)
  BY WFMin, NatLessThanWellFounded
<1>2. \A n \in S : ~(n < m)
  BY <1>1 DEF OpToRel
<1> QED
  BY <1>2

LEMMA GreatestNumber ==
  ASSUME NEW k \in Int, NEW S \in SUBSET Int, S # {}, \A s \in S : s <= k
  PROVE  \E m \in S : \A n \in S : n <= m
<1> DEFINE below == {k - s : s \in S}
<1>1. below \subseteq Nat /\ below # {}
  <2>1. \A s \in S : k - s \in Nat
    OBVIOUS
  <2> QED
    BY <2>1
<1>2. PICK d \in below : \A n \in below : d <= n
  <2> HIDE DEF below
  <2> QED
    BY <1>1, LeastNumber
<1>3. PICK m \in S : d = k - m
  OBVIOUS
<1>4. \A n \in S : n <= m
  <2> TAKE n \in S
  <2>1. k - n \in below
    OBVIOUS
  <2>2. k - m <= k - n
    BY <1>2, <1>3, <2>1
  <2> HIDE DEF below
  <2> QED
    BY <2>2
<1> QED
  BY <1>4

LEMMA Induction ==
  ASSUME NEW S, 0 \in S, \A n \in Nat : n \in S => n + 1 \in S
  PROVE  \A n \in Nat : n \in S
<1> SUFFICES ASSUME Nat \ S # {} PROVE FALSE
  OBVIOUS
<1>1. PICK m \in Nat \ S : \A n \in Nat \ S : m <= n
  BY LeastNumber
<1>2. m - 1 \in Nat /\ m - 1 \in S
  BY <1>1
<1> QED
  BY <1>1, <1>2

-----------------------------------------------------------------------------
(* The elements of a sequence that are in a set. *)

\* What Those keeps of each prefix of s.
Keeps(g, s, S) ==
  /\ g[0] = << >>
  /\ \A n \in 1 .. Len(s) : g[n] = IF s[n] \in S THEN Append(g[n - 1], s[n]) ELSE g[n - 1]

LEMMA ThoseKeeps ==
  ASSUME NEW T, NEW S, NEW s \in Seq(T)
  PROVE  \E g : Keeps(g, s, S) /\ Those(s, S) = g[Len(s)]
<1> DEFINE Val(g, n) == IF n = 0 THEN << >>
                        ELSE IF s[n] \in S THEN Append(g[n - 1], s[n])
                        ELSE g[n - 1]
           Fits(g, m) == g = [n \in 0 .. m |-> Val(g, n)]
           Defined == {m \in Nat : \E g : Fits(g, m)}
<1>1. 0 \in Defined
  <2> DEFINE h == [n \in 0 .. 0 |-> << >>]
  <2>1. \A n \in 0 .. 0 : Val(h, n) = << >>
    OBVIOUS
  <2>2. Fits(h, 0)
    <3> HIDE DEF Val
    <3> QED
      BY <2>1
  <2> HIDE DEF Fits, h
  <2> QED
    BY <2>2
<1>2. ASSUME NEW m \in Nat, m \in Defined PROVE m + 1 \in Defined
  <2>1. PICK g : Fits(g, m)
    BY <1>2
  <2> DEFINE h == [n \in 0 .. m + 1 |-> IF n <= m THEN g[n] ELSE Val(g, n)]
  <2>2. \A n \in 0 .. m + 1 : h[n] = Val(g, n)
    <3>1. \A n \in 0 .. m : g[n] = Val(g, n)
      <4> HIDE DEF Val
      <4> QED
        BY <2>1
    <3> HIDE DEF Val, Fits
    <3> QED
      BY <3>1
  <2>3. \A n \in 0 .. m + 1 : n # 0 => h[n - 1] = g[n - 1]
    OBVIOUS
  <2>4. \A n \in 0 .. m + 1 : Val(g, n) = Val(h, n)
    BY <2>3
  <2>5. h = [n \in 0 .. m + 1 |-> h[n]]
    OBVIOUS
  <2>6. Fits(h, m + 1)
    <3> HIDE DEF h, Val
    <3> QED
      BY <2>2, <2>4, <2>5
  <2> HIDE DEF Fits, h
  <2> QED
    BY <2>6
<1>3. \E g : Fits(g, Len(s))
  <2> HIDE DEF Defined
  <2>1. Len(s) \in Defined
    BY <1>1, <1>2, Induction
  <2> QED
    BY <2>1 DEF Defined
<1> DEFINE kept == CHOOSE g : Fits(g, Len(s))
<1>4. Fits(kept, Len(s))
  <2> HIDE DEF Fits
  <2> QED
    BY <1>3
<1>5. Those(s, S) = kept[Len(s)]
  BY DEF Those
<1> HIDE DEF kept
<1>6. \A n \in 0 .. Len(s) : kept[n] = Val(kept, n)
  <2> HIDE DEF Val
  <2> QED
    BY <1>4
<1>7. Keeps(kept, s, S)
  BY <1>6 DEF Keeps
<1> QED
  BY <1>5, <1>7

\* t is what is left of the first n elements of s without those outside S.
Finds(h, t, s, S, n) ==
  /\ h \in [1 .. Len(t) -> 1 .. n]
  /\ \A k \in 1 .. Len(t) : t[k] = s[h[k]] /\ s[h[k]] \in S
  /\ \A k, l \in 1 .. Len(t) : k < l => h[k] < h[l]
  /\ \A j \in 1 .. n : s[j] \in S => \E k \in 1 .. Len(t) : h[k] = j

Picked(t, s, S, n) == Len(t) <= n /\ \E h : Finds(h, t, s, S, n)

LEMMA PickedStep ==
  ASSUME NEW T, NEW S, NEW s \in Seq(T), NEW n \in Nat, n + 1 \in 1 .. Len(s),
         NEW t \in Seq(T), Picked(t, s, S, n)
  PROVE  LET u == IF s[n + 1] \in S THEN Append(t, s[n + 1]) ELSE t
         IN  u \in Seq(T) /\ Picked(u, s, S, n + 1)
<1>1. PICK h : Finds(h, t, s, S, n)
  BY DEF Picked
<1>2. Len(t) \in Nat /\ Len(t) <= n
  BY DEF Picked
<1> USE DEF Finds
<1>3. CASE s[n + 1] \notin S
  <2>1. h \in [1 .. Len(t) -> 1 .. n + 1]
    BY <1>1
  <2>2. \A j \in 1 .. n + 1 : s[j] \in S => \E k \in 1 .. Len(t) : h[k] = j
    <3>1. \A j \in 1 .. n + 1 : j = n + 1 \/ j \in 1 .. n
      OBVIOUS
    <3> QED
      BY <1>1, <1>3, <3>1
  <2>3. Finds(h, t, s, S, n + 1)
    BY <1>1, <2>1, <2>2
  <2>4. Picked(t, s, S, n + 1)
    <3> HIDE DEF Finds
    <3> QED
      BY <1>2, <2>3 DEF Picked
  <2> QED
    BY <1>3, <2>4
<1>4. CASE s[n + 1] \in S
  <2> DEFINE u == Append(t, s[n + 1])
             g == [k \in 1 .. Len(t) + 1 |-> IF k <= Len(t) THEN h[k] ELSE n + 1]
  <2>1. /\ u \in Seq(T) /\ Len(u) = Len(t) + 1 /\ u[Len(t) + 1] = s[n + 1]
        /\ \A k \in 1 .. Len(t) : u[k] = t[k]
    OBVIOUS
  <2>2. /\ g \in [1 .. Len(t) + 1 -> 1 .. n + 1] /\ g[Len(t) + 1] = n + 1
        /\ \A k \in 1 .. Len(t) : g[k] = h[k] /\ h[k] \in 1 .. n
    <3>1. \A k \in 1 .. Len(t) : h[k] \in 1 .. n
      BY <1>1
    <3>2. \A k \in 1 .. Len(t) + 1 : k <= Len(t) <=> k \in 1 .. Len(t)
      BY <1>2
    <3> HIDE DEF Finds
    <3> QED
      BY <1>2, <3>1, <3>2
  <2> HIDE DEF u, g
  <2>3. \A k \in 1 .. Len(u) : u[k] = s[g[k]] /\ s[g[k]] \in S
    <3> TAKE k \in 1 .. Len(u)
    <3>1. k \in 1 .. Len(t) \/ k = Len(t) + 1
      BY <1>2, <2>1
    <3> QED
      BY <1>1, <1>4, <2>1, <2>2, <3>1
  <2>4. \A k, l \in 1 .. Len(u) : k < l => g[k] < g[l]
    <3> TAKE k, l \in 1 .. Len(u)
    <3>1. k < l => k \in 1 .. Len(t) /\ (l \in 1 .. Len(t) \/ l = Len(t) + 1)
      <4>1. k \in 1 .. Len(t) + 1 /\ l \in 1 .. Len(t) + 1
        BY <2>1
      <4> QED
        BY <1>2, <4>1
    <3>2. \A i \in 1 .. Len(t) : g[i] < n + 1
      BY <2>2
    <3> QED
      BY <1>1, <2>2, <3>1, <3>2
  <2>5. \A j \in 1 .. n + 1 : s[j] \in S => \E k \in 1 .. Len(u) : g[k] = j
    <3> TAKE j \in 1 .. n + 1
    <3>1. CASE j \in 1 .. n
      <4> HAVE s[j] \in S
      <4>1. PICK k \in 1 .. Len(t) : h[k] = j
        BY <1>1, <3>1
      <4> QED
        BY <1>2, <2>1, <2>2, <4>1
    <3>2. CASE j = n + 1
      <4>1. Len(t) + 1 \in 1 .. Len(u)
        BY <1>2, <2>1
      <4> QED
        BY <2>2, <3>2, <4>1
    <3> QED
      BY <3>1, <3>2
  <2>6. Len(u) <= n + 1 /\ g \in [1 .. Len(u) -> 1 .. n + 1]
    BY <1>2, <2>1, <2>2
  <2>7. Finds(g, u, s, S, n + 1)
    BY <2>3, <2>4, <2>5, <2>6
  <2>8. Picked(u, s, S, n + 1)
    <3> HIDE DEF Finds
    <3> QED
      BY <2>6, <2>7 DEF Picked
  <2> QED
    BY <1>4, <2>1, <2>8 DEF u
<1> QED
  BY <1>3, <1>4

LEMMA ThosePicked ==
  ASSUME NEW T, NEW S, NEW s \in Seq(T)
  PROVE  Those(s, S) \in Seq(T) /\ Picked(Those(s, S), s, S, Len(s))
<1>1. PICK g : Keeps(g, s, S) /\ Those(s, S) = g[Len(s)]
  BY ThoseKeeps
<1> DEFINE Holds == {n \in Nat : n <= Len(s) => g[n] \in Seq(T) /\ Picked(g[n], s, S, n)}
<1>2. 0 \in Holds
  <2>1. << >> \in Seq(T) /\ Len(<< >>) = 0
    OBVIOUS
  <2>2. Finds([k \in 1 .. 0 |-> k], << >>, s, S, 0)
    BY <2>1 DEF Finds
  <2>3. Picked(<< >>, s, S, 0)
    BY <2>1, <2>2 DEF Picked
  <2>4. g[0] = << >>
    BY <1>1 DEF Keeps
  <2> QED
    BY <2>1, <2>3, <2>4
<1>3. ASSUME NEW n \in Nat, n \in Holds PROVE n + 1 \in Holds
  <2> SUFFICES ASSUME n + 1 <= Len(s)
               PROVE  g[n + 1] \in Seq(T) /\ Picked(g[n + 1], s, S, n + 1)
    OBVIOUS
  <2>1. g[n] \in Seq(T) /\ Picked(g[n], s, S, n)
    BY <1>3
  <2>2. n + 1 \in 1 .. Len(s) /\ (n + 1) - 1 = n
    OBVIOUS
  <2>3. g[n + 1] = IF s[n + 1] \in S THEN Append(g[n], s[n + 1]) ELSE g[n]
    BY <1>1, <2>2 DEF Keeps
  <2> QED
    BY <2>1, <2>2, <2>3, PickedStep
<1> HIDE DEF Holds
<1>4. Len(s) \in Holds
  BY <1>2, <1>3, Induction
<1> QED
  BY <1>1, <1>4 DEF Holds

\* One more element.
LEMMA ThoseAppend ==
  ASSUME NEW T, NEW S, NEW s \in Seq(T), NEW e \in T
  PROVE  Those(Append(s, e), S) = IF e \in S THEN Append(Those(s, S), e) ELSE Those(s, S)
<1> DEFINE r == Append(s, e)
<1>1. r \in Seq(T) /\ Len(r) = Len(s) + 1 /\ r[Len(s) + 1] = e /\ \A n \in 1 .. Len(s) : r[n] = s[n]
  OBVIOUS
<1> HIDE DEF r
<1>2. PICK g : Keeps(g, s, S) /\ Those(s, S) = g[Len(s)]
  BY ThoseKeeps
<1>3. PICK h : Keeps(h, r, S) /\ Those(r, S) = h[Len(r)]
  BY <1>1, ThoseKeeps
<1> DEFINE Agree == {n \in Nat : n <= Len(s) => h[n] = g[n]}
<1>4. 0 \in Agree
  BY <1>2, <1>3 DEF Keeps
<1>5. ASSUME NEW n \in Nat, n \in Agree PROVE n + 1 \in Agree
  <2> SUFFICES ASSUME n + 1 <= Len(s) PROVE h[n + 1] = g[n + 1]
    OBVIOUS
  <2>1. n + 1 \in 1 .. Len(s) /\ n + 1 \in 1 .. Len(r) /\ (n + 1) - 1 = n
    BY <1>1
  <2>2. h[n] = g[n]
    BY <1>5
  <2> QED
    BY <1>1, <1>2, <1>3, <2>1, <2>2 DEF Keeps
<1>6. h[Len(s)] = g[Len(s)]
  <2> HIDE DEF Agree
  <2>1. Len(s) \in Agree
    BY <1>4, <1>5, Induction
  <2> QED
    BY <2>1 DEF Agree
<1>7. Len(s) + 1 \in 1 .. Len(r) /\ (Len(s) + 1) - 1 = Len(s)
  BY <1>1
<1>8. h[Len(r)] = IF e \in S THEN Append(h[Len(s)], e) ELSE h[Len(s)]
  BY <1>1, <1>3, <1>7 DEF Keeps
<1> QED
  BY <1>2, <1>3, <1>6, <1>8 DEF r

\* Nothing is left out of a sequence over S.
LEMMA ThoseOfAll ==
  ASSUME NEW S, NEW s \in Seq(S)
  PROVE  Those(s, S) = s
<1>1. PICK g : Keeps(g, s, S) /\ Those(s, S) = g[Len(s)]
  BY ThoseKeeps
<1> DEFINE Same == {n \in Nat : n <= Len(s) =>
                      /\ g[n] \in Seq(S) /\ Len(g[n]) = n
                      /\ \A i \in 1 .. n : g[n][i] = s[i]}
<1>2. 0 \in Same
  <2>1. << >> \in Seq(S) /\ Len(<< >>) = 0
    OBVIOUS
  <2>2. g[0] = << >>
    BY <1>1 DEF Keeps
  <2>3. \A i \in 1 .. 0 : g[0][i] = s[i]
    OBVIOUS
  <2> QED
    BY <2>1, <2>2, <2>3
<1>3. ASSUME NEW n \in Nat, n \in Same PROVE n + 1 \in Same
  <2> SUFFICES ASSUME n + 1 <= Len(s)
               PROVE  /\ g[n + 1] \in Seq(S) /\ Len(g[n + 1]) = n + 1
                      /\ \A i \in 1 .. n + 1 : g[n + 1][i] = s[i]
    OBVIOUS
  <2>1. n + 1 \in 1 .. Len(s) /\ (n + 1) - 1 = n /\ s[n + 1] \in S
    OBVIOUS
  <2>2. g[n + 1] = Append(g[n], s[n + 1])
    BY <1>1, <2>1 DEF Keeps
  <2>3. g[n] \in Seq(S) /\ Len(g[n]) = n /\ \A i \in 1 .. n : g[n][i] = s[i]
    BY <1>3
  <2> QED
    BY <2>1, <2>2, <2>3
<1>4. g[Len(s)] \in Seq(S) /\ Len(g[Len(s)]) = Len(s) /\ \A i \in 1 .. Len(s) : g[Len(s)][i] = s[i]
  <2> HIDE DEF Same
  <2>1. Len(s) \in Same
    BY <1>2, <1>3, Induction
  <2> QED
    BY <2>1 DEF Same
<1> QED
  BY <1>1, <1>4, SeqEqual

\* The same elements, their order aside.
LEMMA ThoseFound ==
  ASSUME NEW T, NEW S, NEW s \in Seq(T)
  PROVE  /\ \A k \in DOMAIN Those(s, S) : \E j \in DOMAIN s : s[j] \in S /\ Those(s, S)[k] = s[j]
         /\ \A j \in DOMAIN s : s[j] \in S => \E k \in DOMAIN Those(s, S) : Those(s, S)[k] = s[j]
<1> DEFINE t == Those(s, S)
<1>1. t \in Seq(T) /\ Picked(t, s, S, Len(s))
  BY ThosePicked
<1> HIDE DEF t
<1>2. PICK h : Finds(h, t, s, S, Len(s))
  BY <1>1 DEF Picked
<1>3. DOMAIN t = 1 .. Len(t) /\ DOMAIN s = 1 .. Len(s)
  BY <1>1
<1>4. \A k \in DOMAIN t : h[k] \in DOMAIN s /\ t[k] = s[h[k]] /\ s[h[k]] \in S
  BY <1>2, <1>3 DEF Finds
<1>5. \A j \in DOMAIN s : s[j] \in S => \E k \in DOMAIN t : h[k] = j
  BY <1>2, <1>3 DEF Finds
<1> QED
  BY <1>4, <1>5 DEF t

-----------------------------------------------------------------------------
(* Lines of a file. *)

\* Lines that hold nothing later than tick k.
Record(k) == [ok : {TRUE}, seq : 0 .. k - 1, id : 1 .. k]
Lines(k) == Record(k) \cup {Garbled}

InOrder(lines) ==
  \A i, j \in DOMAIN lines : i < j /\ lines[i].ok /\ lines[j].ok => lines[i].id < lines[j].id

Highest(lines, m) ==
  /\ m \in Int /\ m >= -1
  /\ \A i \in DOMAIN lines : lines[i].seq <= m
  /\ m = -1 \/ \E i \in DOMAIN lines : lines[i].seq = m

LEMMA LineFields ==
  ASSUME NEW k \in Nat, NEW e \in Lines(k)
  PROVE  /\ e.ok \in BOOLEAN /\ e.seq \in -1 .. k - 1 /\ e.id \in 0 .. k
         /\ e.ok <=> e \in Record(k)
         /\ e.ok <=> e \in Parsed
         /\ e.ok => e.id \in 1 .. k /\ e.seq \in 0 .. k - 1
<1>1. CASE e = Garbled
  <2>1. e.ok = FALSE /\ e.seq = -1 /\ e.id = 0
    BY <1>1 DEF Garbled
  <2>2. \A x \in Parsed : x.ok = TRUE
    BY DEF Parsed
  <2>3. \A x \in Record(k) : x.ok = TRUE
    BY DEF Record
  <2>4. e \notin Parsed /\ e \notin Record(k)
    BY <2>1, <2>2, <2>3
  <2>5. e.seq \in -1 .. k - 1 /\ e.id \in 0 .. k
    BY <2>1
  <2> QED
    BY <2>1, <2>4, <2>5, Zenon
<1>2. CASE e \in Record(k)
  <2>1. e.ok = TRUE /\ e.seq \in 0 .. k - 1 /\ e.id \in 1 .. k
    BY <1>2 DEF Record
  <2>2. e \in Parsed
    <3>1. e = [ok |-> e.ok, seq |-> e.seq, id |-> e.id]
      BY <1>2 DEF Record
    <3>2. e.seq \in Int /\ e.id \in Int
      BY <2>1
    <3> QED
      BY <2>1, <3>1, <3>2 DEF Parsed
  <2>3. e.seq \in -1 .. k - 1 /\ e.id \in 0 .. k
    BY <2>1
  <2> QED
    BY <1>2, <2>1, <2>2, <2>3, Zenon
<1> QED
  BY <1>1, <1>2 DEF Lines

LEMMA MoreLines ==
  ASSUME NEW k \in Nat, NEW m \in Nat, k <= m
  PROVE  /\ Record(k) \subseteq Record(m) /\ Lines(k) \subseteq Lines(m)
         /\ Seq(Record(k)) \subseteq Seq(Record(m)) /\ Seq(Lines(k)) \subseteq Seq(Lines(m))
<1>1. Record(k) \subseteq Record(m) /\ Lines(k) \subseteq Lines(m)
  <2>1. 0 .. k - 1 \subseteq 0 .. m - 1 /\ 1 .. k \subseteq 1 .. m
    OBVIOUS
  <2> QED
    BY <2>1 DEF Record, Lines
<1> QED
  BY <1>1

LEMMA LastLine ==
  ASSUME NEW T, NEW s \in Seq(T), s # << >>, NEW e \in T
  PROVE  LET front == SubSeq(s, 1, Len(s) - 1)
         IN  /\ front \in Seq(T) /\ Len(front) = Len(s) - 1
             /\ s = Append(front, s[Len(s)])
             /\ [s EXCEPT ![Len(s)] = e] = Append(front, e)
<1> DEFINE front == SubSeq(s, 1, Len(s) - 1)
<1>1. Len(s) \in Nat \ {0}
  OBVIOUS
<1>2. front \in Seq(T) /\ Len(front) = Len(s) - 1 /\ \A i \in 1 .. Len(s) - 1 : front[i] = s[i]
  <2>1. front = [i \in 1 .. Len(s) - 1 |-> s[i]]
    BY <1>1
  <2>2. Len(s) - 1 \in Nat /\ \A i \in 1 .. Len(s) - 1 : s[i] \in T
    BY <1>1
  <2> HIDE DEF front
  <2> QED
    BY <2>1, <2>2
<1> HIDE DEF front
<1>3. ASSUME NEW x \in T
      PROVE  /\ Append(front, x) \in Seq(T) /\ Len(Append(front, x)) = Len(s)
             /\ Append(front, x)[Len(s)] = x
             /\ \A i \in 1 .. Len(s) - 1 : Append(front, x)[i] = s[i]
  BY <1>1, <1>2
<1>4. s = Append(front, s[Len(s)])
  <2>1. s[Len(s)] \in T
    BY <1>1
  <2>2. \A i \in 1 .. Len(s) : Append(front, s[Len(s)])[i] = s[i]
    BY <1>1, <1>3, <2>1
  <2> QED
    BY <1>3, <2>1, <2>2, SeqEqual
<1>5. [s EXCEPT ![Len(s)] = e] = Append(front, e)
  <2> DEFINE r == [s EXCEPT ![Len(s)] = e]
  <2>1. r \in Seq(T) /\ Len(r) = Len(s)
    BY <1>1
  <2>2. \A i \in 1 .. Len(s) : Append(front, e)[i] = r[i]
    BY <1>1, <1>3
  <2> HIDE DEF r
  <2>3. r = Append(front, e)
    BY <1>3, <2>1, <2>2, SeqEqual
  <2> QED
    BY <2>3 DEF r
<1> QED
  BY <1>2, <1>4, <1>5 DEF front

\* What one more line changes.
LEMMA OneMoreLine ==
  ASSUME NEW T, NEW b \in Seq(T), NEW e \in T
  PROVE  LET r == Append(b, e)
         IN  /\ r \in Seq(T) /\ Len(r) = Len(b) + 1 /\ DOMAIN r = 1 .. Len(b) + 1
             /\ DOMAIN b = 1 .. Len(b)
             /\ r[Len(b) + 1] = e /\ \A i \in 1 .. Len(b) : r[i] = b[i]
             /\ \A i \in DOMAIN r : i \in DOMAIN b \/ i = Len(b) + 1
OBVIOUS

LEMMA IdsOfOneMore ==
  ASSUME NEW T, NEW b \in Seq(T), NEW e \in T, NEW f, NEW g,
         f.lines = b, g.lines = Append(b, e)
  PROVE  IdsIn(g) = IF e.ok THEN IdsIn(f) \cup {e.id} ELSE IdsIn(f)
<1> DEFINE r == Append(b, e)
<1>1. /\ DOMAIN b = 1 .. Len(b) /\ DOMAIN r = 1 .. Len(b) + 1 /\ r[Len(b) + 1] = e
      /\ \A i \in DOMAIN b : i \in DOMAIN r /\ r[i] = b[i]
      /\ \A i \in DOMAIN r : i \in DOMAIN b \/ i = Len(b) + 1
  BY OneMoreLine
<1>2. Len(b) + 1 \in DOMAIN r
  BY <1>1
<1>3. g.lines = r
  OBVIOUS
<1> HIDE DEF r
<1>4. \A x : (\E i \in DOMAIN r : r[i].ok /\ x = r[i].id)
              <=> (\E i \in DOMAIN b : b[i].ok /\ x = b[i].id) \/ (e.ok /\ x = e.id)
  BY <1>1, <1>2
<1>5. \A x : x \in IdsIn(f) <=> \E i \in DOMAIN b : b[i].ok /\ x = b[i].id
  BY DEF IdsIn
<1>6. \A x : x \in IdsIn(g) <=> \E i \in DOMAIN r : r[i].ok /\ x = r[i].id
  BY <1>3 DEF IdsIn
<1>7. \A x : x \in IdsIn(g) <=> x \in IdsIn(f) \/ (e.ok /\ x = e.id)
  BY <1>4, <1>5, <1>6
<1> QED
  BY <1>7

LEMMA OrderOfOneMore ==
  ASSUME NEW k \in Nat, NEW b \in Seq(Lines(k)), NEW e \in Lines(k)
  PROVE  /\ InOrder(Append(b, e)) => InOrder(b)
         /\ InOrder(b) /\ (e.ok => \A i \in DOMAIN b : b[i].id < e.id) => InOrder(Append(b, e))
<1> DEFINE r == Append(b, e)
<1>1. /\ DOMAIN b = 1 .. Len(b) /\ DOMAIN r = 1 .. Len(b) + 1 /\ r[Len(b) + 1] = e
      /\ \A i \in DOMAIN b : i \in DOMAIN r /\ r[i] = b[i] /\ i < Len(b) + 1
      /\ \A i \in DOMAIN r : i \in DOMAIN b \/ i = Len(b) + 1
  BY OneMoreLine
<1> HIDE DEF r
<1>2. InOrder(r) => InOrder(b)
  BY <1>1 DEF InOrder
<1>3. ASSUME InOrder(b), e.ok => \A i \in DOMAIN b : b[i].id < e.id,
             NEW i \in DOMAIN r, NEW j \in DOMAIN r, i < j, r[i].ok, r[j].ok
      PROVE  r[i].id < r[j].id
  <2>1. i \in DOMAIN b
    BY <1>1, <1>3
  <2>2. CASE j \in DOMAIN b
    BY <1>1, <1>3, <2>1, <2>2 DEF InOrder
  <2>3. CASE j = Len(b) + 1
    BY <1>1, <1>3, <2>1, <2>3
  <2> QED
    BY <1>1, <2>2, <2>3
<1> QED
  BY <1>2, <1>3 DEF InOrder, r

LEMMA HighestOfOneMore ==
  ASSUME NEW k \in Nat, NEW b \in Seq(Lines(k)), NEW e \in Lines(k), NEW m \in Int
  PROVE  /\ ~e.ok => (Highest(b, m) <=> Highest(Append(b, e), m))
         /\ Highest(b, m) /\ e.seq = m + 1 => Highest(Append(b, e), m + 1)
<1> DEFINE r == Append(b, e)
<1>1. /\ DOMAIN b = 1 .. Len(b) /\ DOMAIN r = 1 .. Len(b) + 1 /\ r[Len(b) + 1] = e
      /\ \A i \in DOMAIN b : i \in DOMAIN r /\ r[i] = b[i]
      /\ \A i \in DOMAIN r : i \in DOMAIN b \/ i = Len(b) + 1
      /\ Len(b) + 1 \in DOMAIN r
  BY OneMoreLine
<1>2. \A i \in DOMAIN b : b[i].seq \in Int
  BY LineFields
<1> HIDE DEF r
<1>3. ASSUME ~e.ok PROVE Highest(b, m) <=> Highest(r, m)
  <2>1. e.seq = -1
    <3>1. e = Garbled
      BY <1>3, LineFields DEF Lines
    <3> QED
      BY <3>1 DEF Garbled
  <2> QED
    BY <1>1, <2>1 DEF Highest
<1>4. ASSUME Highest(b, m), e.seq = m + 1 PROVE Highest(r, m + 1)
  BY <1>1, <1>2, <1>4 DEF Highest
<1> QED
  BY <1>3, <1>4 DEF r

\* What market_service._last_seq returns.
LEMMA HighestSeqIs ==
  ASSUME NEW k \in Nat, NEW f, f.lines \in Seq(Lines(k))
  PROVE  Highest(f.lines, HighestSeq(f)) /\ HighestSeq(f) \in -1 .. k - 1
<1> DEFINE seqs == {-1} \cup {f.lines[i].seq : i \in DOMAIN f.lines}
<1>1. seqs \subseteq -1 .. k - 1
  BY LineFields
<1>2. -1 \in seqs
  OBVIOUS
<1>3. \E m \in seqs : \A t \in seqs : t <= m
  <2> HIDE DEF seqs
  <2>1. k - 1 \in Int /\ seqs \in SUBSET Int /\ seqs # {} /\ \A t \in seqs : t <= k - 1
    BY <1>1, <1>2
  <2> QED
    BY <2>1, GreatestNumber
<1>6. HighestSeq(f) = CHOOSE u \in seqs : \A t \in seqs : t <= u
  BY DEF HighestSeq
<1>7. HighestSeq(f) \in seqs /\ \A t \in seqs : t <= HighestSeq(f)
  <2> HIDE DEF seqs
  <2> QED
    BY <1>3, <1>6
<1>8. HighestSeq(f) \in -1 .. k - 1
  <2> HIDE DEF seqs
  <2> QED
    BY <1>1, <1>7
<1>9. \A i \in DOMAIN f.lines : f.lines[i].seq <= HighestSeq(f)
  BY <1>7
<1>10. HighestSeq(f) = -1 \/ \E i \in DOMAIN f.lines : f.lines[i].seq = HighestSeq(f)
  BY <1>7
<1>11. HighestSeq(f) \in Int /\ HighestSeq(f) >= -1
  BY <1>8
<1> HIDE DEF seqs
<1> QED
  BY <1>8, <1>9, <1>10, <1>11 DEF Highest

-----------------------------------------------------------------------------
(* The records of a file, and the repair tool's renumbering of them. *)

LEMMA ParsableIs ==
  ASSUME NEW k \in Nat, NEW f, f.lines \in Seq(Lines(k))
  PROVE  /\ Parsable(f) \in Seq(Record(k))
         /\ Len(Parsable(f)) <= Len(f.lines)
         /\ InOrder(f.lines) => InOrder(Parsable(f))
         /\ \A n \in DOMAIN Parsable(f) : \E i \in DOMAIN f.lines : f.lines[i].ok /\ Parsable(f)[n] = f.lines[i]
         /\ \A i \in DOMAIN f.lines : f.lines[i].ok => \E n \in DOMAIN Parsable(f) : Parsable(f)[n] = f.lines[i]
<1> DEFINE s == f.lines
           t == Those(s, Parsed)
<1>1. Parsable(f) = t
  BY DEF Parsable
<1>2. s \in Seq(Lines(k))
  OBVIOUS
<1> HIDE DEF s
<1>3. t \in Seq(Lines(k)) /\ Picked(t, s, Parsed, Len(s))
  BY <1>2, ThosePicked
<1>4. /\ \A n \in DOMAIN t : \E j \in DOMAIN s : s[j] \in Parsed /\ t[n] = s[j]
      /\ \A j \in DOMAIN s : s[j] \in Parsed => \E n \in DOMAIN t : t[n] = s[j]
  BY <1>2, ThoseFound
<1>5. \A j \in DOMAIN s : s[j] \in Lines(k) /\ (s[j] \in Parsed <=> s[j].ok) /\ (s[j].ok <=> s[j] \in Record(k))
  BY <1>2, LineFields
<1> HIDE DEF t
<1>6. PICK h : Finds(h, t, s, Parsed, Len(s))
  BY <1>3 DEF Picked
<1>7. DOMAIN t = 1 .. Len(t) /\ DOMAIN s = 1 .. Len(s) /\ Len(t) \in Nat /\ Len(s) \in Nat
  BY <1>2, <1>3
<1>8. \A n \in DOMAIN t : h[n] \in DOMAIN s /\ t[n] = s[h[n]] /\ s[h[n]] \in Parsed
  BY <1>6, <1>7 DEF Finds
<1>9. \A n, l \in DOMAIN t : n < l => h[n] < h[l]
  BY <1>6, <1>7 DEF Finds
<1>10. t \in Seq(Record(k))
  <2>1. \A n \in DOMAIN t : t[n] \in Record(k)
    BY <1>5, <1>8
  <2> QED
    BY <1>3, <1>7, <2>1
<1>11. Len(t) <= Len(s)
  BY <1>3 DEF Picked
<1>12. ASSUME InOrder(s) PROVE InOrder(t)
  <2> SUFFICES ASSUME NEW i \in DOMAIN t, NEW j \in DOMAIN t, i < j, t[i].ok, t[j].ok
               PROVE  t[i].id < t[j].id
    BY DEF InOrder
  <2> QED
    BY <1>8, <1>9, <1>12 DEF InOrder
<1>13. /\ \A n \in DOMAIN t : \E j \in DOMAIN s : s[j].ok /\ t[n] = s[j]
       /\ \A j \in DOMAIN s : s[j].ok => \E n \in DOMAIN t : t[n] = s[j]
  BY <1>4, <1>5
<1> QED
  BY <1>1, <1>10, <1>11, <1>12, <1>13 DEF s

LEMMA RecordFields ==
  ASSUME NEW k \in Nat, NEW e \in Record(k)
  PROVE  e.ok = TRUE /\ e.seq \in 0 .. k - 1 /\ e.id \in 1 .. k
BY DEF Record

LEMMA MakeRecord ==
  ASSUME NEW k \in Nat, NEW q \in 0 .. k - 1, NEW id \in 1 .. k
  PROVE  [ok |-> TRUE, seq |-> q, id |-> id] \in Record(k)
BY DEF Record

LEMMA IdsOfParsable ==
  ASSUME NEW k \in Nat, NEW f, f.lines \in Seq(Lines(k))
  PROVE  IdsIn(f) = {Parsable(f)[n].id : n \in DOMAIN Parsable(f)}
<1> DEFINE t == Parsable(f)
           s == f.lines
<1>1. /\ \A n \in DOMAIN t : \E i \in DOMAIN s : s[i].ok /\ t[n] = s[i]
      /\ \A i \in DOMAIN s : s[i].ok => \E n \in DOMAIN t : t[n] = s[i]
  <2> HIDE DEF t, s
  <2>1. \A n \in DOMAIN Parsable(f) : \E i \in DOMAIN f.lines : f.lines[i].ok /\ Parsable(f)[n] = f.lines[i]
    BY ParsableIs
  <2>2. \A i \in DOMAIN f.lines : f.lines[i].ok => \E n \in DOMAIN Parsable(f) : Parsable(f)[n] = f.lines[i]
    BY ParsableIs
  <2> QED
    BY <2>1, <2>2, Zenon DEF t, s
<1>2. IdsIn(f) = {s[i].id : i \in {j \in DOMAIN s : s[j].ok}}
  BY DEF IdsIn
<1> HIDE DEF t, s
<1>3. \A y : y \in IdsIn(f) <=> \E i \in DOMAIN s : s[i].ok /\ y = s[i].id
  BY <1>2
<1>4. \A y : y \in IdsIn(f) <=> \E n \in DOMAIN t : y = t[n].id
  BY <1>1, <1>3
<1>5. IdsIn(f) = {t[n].id : n \in DOMAIN t}
  BY <1>4
<1> QED
  BY <1>5 DEF t

LEMMA ParsableOfOneMore ==
  ASSUME NEW k \in Nat, NEW b \in Seq(Lines(k)), NEW e \in Lines(k), NEW f, NEW g,
         f.lines = b, g.lines = Append(b, e)
  PROVE  Parsable(g) = IF e.ok THEN Append(Parsable(f), e) ELSE Parsable(f)
BY ThoseAppend, LineFields DEF Parsable

LEMMA RenumberIs ==
  ASSUME NEW k \in Nat, NEW s \in Seq(Record(k)), Len(s) <= k, InOrder(s)
  PROVE  LET r == Renumber(s)
         IN  /\ r \in Seq(Record(k)) /\ Len(r) = Len(s)
             /\ \A i \in DOMAIN r : r[i].seq = i - 1
             /\ InOrder(r)
             /\ {r[i].id : i \in DOMAIN r} = {s[i].id : i \in DOMAIN s}
<1> DEFINE r == Renumber(s)
<1>1. DOMAIN s = 1 .. Len(s) /\ Len(s) \in Nat
  OBVIOUS
<1>2. r = [i \in 1 .. Len(s) |-> [s[i] EXCEPT !.seq = i - 1]]
  BY <1>1 DEF Renumber
<1>3. \A i \in 1 .. Len(s) : s[i] \in Record(k) /\ i - 1 \in 0 .. k - 1
  OBVIOUS
<1>4. ASSUME NEW i \in 1 .. Len(s)
      PROVE  /\ r[i] \in Record(k) /\ r[i].seq = i - 1 /\ r[i].id = s[i].id
             /\ r[i].ok = TRUE /\ s[i].ok = TRUE
  <2> DEFINE d == r[i]
             e == s[i]
             q == i - 1
  <2>1. d = [e EXCEPT !.seq = q]
    BY <1>2
  <2>2. e \in Record(k) /\ q \in 0 .. k - 1
    BY <1>3
  <2> HIDE DEF d, e, q
  <2>3. e.ok = TRUE /\ e.id \in 1 .. k
    BY <2>2, RecordFields
  <2>4. d = [ok |-> e.ok, seq |-> q, id |-> e.id]
    BY <2>1, <2>2 DEF Record
  <2>5. d = [ok |-> TRUE, seq |-> q, id |-> e.id]
    BY <2>3, <2>4
  <2>6. d \in Record(k)
    BY <2>2, <2>3, <2>5 DEF Record
  <2> QED
    BY <2>3, <2>5, <2>6 DEF d, e, q
<1>5. r \in Seq(Record(k)) /\ Len(r) = Len(s) /\ DOMAIN r = 1 .. Len(s)
  <2>1. r = [i \in 1 .. Len(s) |-> r[i]]
    BY <1>2
  <2>2. \A i \in 1 .. Len(s) : r[i] \in Record(k)
    BY <1>4
  <2> HIDE DEF r
  <2> QED
    BY <1>1, <2>1, <2>2
<1> HIDE DEF r
<1>6. InOrder(r)
  BY <1>1, <1>4, <1>5 DEF InOrder
<1>7. {r[i].id : i \in DOMAIN r} = {s[i].id : i \in DOMAIN s}
  BY <1>1, <1>4, <1>5
<1> QED
  BY <1>4, <1>5, <1>6, <1>7 DEF r

\* Numbered from 0 without a gap.
LEMMA NumberedIsContiguous ==
  ASSUME NEW k \in Nat, NEW s \in Seq(Record(k)), \A i \in DOMAIN s : s[i].seq = i - 1
  PROVE  Contiguous(s)
<1> SUFFICES ASSUME NEW i \in DOMAIN s, i > 1
             PROVE  s[i].seq = s[i - 1].seq + 1
  BY DEF Contiguous
<1>1. i \in 1 .. Len(s) /\ i - 1 \in DOMAIN s
  OBVIOUS
<1> QED
  BY <1>1

LEMMA LastIsHighest ==
  ASSUME NEW k \in Nat, NEW s \in Seq(Record(k)), Contiguous(s), NEW i \in DOMAIN s
  PROVE  s[i].seq <= s[Len(s)].seq
<1>1. DOMAIN s = 1 .. Len(s) /\ Len(s) \in Nat /\ \A j \in DOMAIN s : s[j].seq \in Int
  <2>1. \A j \in DOMAIN s : s[j] \in Record(k)
    OBVIOUS
  <2>2. \A j \in DOMAIN s : s[j].seq \in 0 .. k - 1
    BY <2>1, RecordFields
  <2> QED
    BY <2>2
<1> DEFINE From == {n \in Nat : n < Len(s) => s[Len(s) - n].seq <= s[Len(s)].seq}
<1>2. 0 \in From
  BY <1>1
<1>3. ASSUME NEW n \in Nat, n \in From PROVE n + 1 \in From
  <2> SUFFICES ASSUME n + 1 < Len(s)
               PROVE  s[Len(s) - (n + 1)].seq <= s[Len(s)].seq
    OBVIOUS
  <2>1. /\ Len(s) - n \in DOMAIN s /\ Len(s) - n > 1 /\ Len(s) \in DOMAIN s
        /\ (Len(s) - n) - 1 = Len(s) - (n + 1) /\ Len(s) - (n + 1) \in DOMAIN s
    BY <1>1
  <2>2. s[Len(s) - n].seq = s[Len(s) - (n + 1)].seq + 1
    BY <2>1 DEF Contiguous
  <2>3. s[Len(s) - n].seq <= s[Len(s)].seq
    BY <1>1, <1>3
  <2>4. s[Len(s) - n].seq \in Int /\ s[Len(s) - (n + 1)].seq \in Int /\ s[Len(s)].seq \in Int
    BY <1>1, <2>1
  <2> QED
    <3> DEFINE x == s[Len(s) - n].seq
               y == s[Len(s) - (n + 1)].seq
               z == s[Len(s)].seq
    <3>1. x = y + 1 /\ x <= z /\ x \in Int /\ y \in Int /\ z \in Int
      BY <2>2, <2>3, <2>4
    <3> HIDE DEF x, y, z
    <3>2. y <= z
      BY <3>1
    <3> QED
      BY <3>2 DEF y, z
<1> HIDE DEF From
<1>4. Len(s) - i \in From
  BY <1>1, <1>2, <1>3, Induction
<1>5. Len(s) - i < Len(s) /\ Len(s) - (Len(s) - i) = i
  BY <1>1
<1> QED
  BY <1>4, <1>5 DEF From

\* A record numbered one after the highest sequence of a file opens no gap.
LEMMA NextOpensNoGap ==
  ASSUME NEW k \in Nat, NEW f, f.lines \in Seq(Lines(k)), Contiguous(Parsable(f)),
         NEW m \in Int, Highest(f.lines, m), NEW e, e.seq = m + 1
  PROVE  Contiguous(Append(Parsable(f), e))
<1> DEFINE t == Parsable(f)
           s == f.lines
<1>1. /\ t \in Seq(Record(k))
      /\ \A n \in DOMAIN t : \E i \in DOMAIN s : s[i].ok /\ t[n] = s[i]
      /\ \A i \in DOMAIN s : s[i].ok => \E n \in DOMAIN t : t[n] = s[i]
  BY ParsableIs
<1>2. Contiguous(t) /\ Highest(s, m) /\ s \in Seq(Lines(k))
  OBVIOUS
<1> HIDE DEF t, s
<1>3. DOMAIN t = 1 .. Len(t) /\ Len(t) \in Nat /\ \A n \in DOMAIN t : t[n].seq \in Nat
  <2>1. \A n \in DOMAIN t : t[n] \in Record(k)
    BY <1>1
  <2>2. \A n \in DOMAIN t : t[n].seq \in 0 .. k - 1
    <3> TAKE n \in DOMAIN t
    <3> QED
      BY <2>1, RecordFields
  <2> QED
    BY <1>1, <2>2
<1>4. \A n \in DOMAIN t : \E i \in DOMAIN s : t[n] = s[i]
  BY <1>1
<1>5. \A i \in DOMAIN s : s[i].ok => \E n \in DOMAIN t : t[n] = s[i]
  BY <1>1
<1>6. \A i \in DOMAIN s : s[i].ok \/ s[i].seq = -1
  <2> TAKE i \in DOMAIN s
  <2>1. s[i] \in Lines(k)
    BY <1>2
  <2> QED
    BY <2>1, LineFields DEF Lines, Garbled
<1>7. ASSUME Len(t) # 0 PROVE t[Len(t)].seq = m
  <2>1. Len(t) \in DOMAIN t
    BY <1>3, <1>7
  <2>2. t[Len(t)].seq <= m /\ t[Len(t)].seq \in Nat
    BY <1>2, <1>3, <1>4, <2>1 DEF Highest
  <2>3. PICK i \in DOMAIN s : s[i].seq = m
    BY <1>2, <2>2 DEF Highest
  <2>4. PICK n \in DOMAIN t : t[n] = s[i]
    BY <1>5, <1>6, <2>2, <2>3
  <2>5. m <= t[Len(t)].seq
    BY <1>1, <1>2, <2>3, <2>4, LastIsHighest
  <2> QED
    BY <2>2, <2>5
<1> DEFINE r == Append(t, e)
<1>8. /\ DOMAIN r = 1 .. Len(t) + 1 /\ r[Len(t) + 1] = e
      /\ \A n \in 1 .. Len(t) : r[n] = t[n]
  BY <1>1
<1> HIDE DEF r
<1>9. ASSUME NEW n \in DOMAIN r, n > 1
      PROVE  r[n].seq = r[n - 1].seq + 1
  <2>1. CASE n \in 1 .. Len(t)
    <3>1. n - 1 \in 1 .. Len(t)
      BY <1>3, <1>9, <2>1
    <3> QED
      BY <1>2, <1>3, <1>8, <1>9, <2>1, <3>1 DEF Contiguous
  <2>2. CASE n = Len(t) + 1
    <3>1. Len(t) # 0 /\ n - 1 = Len(t) /\ Len(t) \in 1 .. Len(t)
      BY <1>3, <1>9, <2>2
    <3> QED
      BY <1>7, <1>8, <2>2, <3>1
  <2> QED
    BY <1>3, <1>8, <2>1, <2>2
<1>10. Contiguous(r)
  BY <1>9 DEF Contiguous
<1> QED
  BY <1>10 DEF r, t

-----------------------------------------------------------------------------
(* Recording: the inductive invariant. *)

ProcessesOK ==
  /\ clock \in 0 .. N
  /\ mpc \in {"idle", "open", "partial"}
  /\ mseq \in {Unset} \cup 1 .. clock
  /\ mfile \in BOOLEAN
  /\ written \in SUBSET (1 .. clock)
  /\ rpc \in {"idle", "gap", "loaded", "done"}
  /\ rquiet \in BOOLEAN /\ live \in BOOLEAN
  /\ rstatus \in {"none", "empty", "sequence_gap", "clean", "repaired"}
  /\ mpc # "idle" => mseq # Unset
  /\ ~mfile => live

\* The last tick whose record can be in the file.
Past == IF mpc = "idle" \/ ~mfile THEN clock ELSE clock - 1

TapeOK ==
  /\ tape \in [lines : Seq(Lines(Past)), nl : BOOLEAN]
  /\ Len(tape.lines) <= (IF mpc = "partial" THEN clock ELSE Past)
  /\ InOrder(tape.lines)
  /\ mpc = "open" /\ mfile => tape.nl = TRUE
  /\ mpc = "partial" /\ mfile =>
       tape.lines # << >> /\ tape.lines[Len(tape.lines)] = Garbled

\* What the repair tool holds; and while the market process leaves the file
\* alone, nothing it wrote is missing from that.
LoadOK ==
  /\ rload \in Seq(Record(clock)) /\ Len(rload) <= clock
  /\ \A i \in DOMAIN rload : rload[i].seq = i - 1
  /\ InOrder(rload)
  /\ rpc = "loaded" /\ rquiet =>
       /\ mpc = "idle" /\ mseq = Unset
       /\ ~live => written \subseteq {rload[i].id : i \in DOMAIN rload}

\* The number the process remembers continues the file.
SeqOK ==
  ~live /\ mseq # Unset => Highest(tape.lines, IF mpc = "idle" THEN mseq - 1 ELSE mseq - 2)

RecordingInv == ProcessesOK /\ TapeOK /\ LoadOK /\ SeqOK /\ AppendedRecordsSurvive

LEMMA FileSteps ==
  ASSUME NEW S, NEW f \in [lines : Seq(S), nl : BOOLEAN], NEW e \in S, NEW b \in BOOLEAN
  PROVE  /\ f.lines \in Seq(S) /\ f.nl \in BOOLEAN
         /\ Terminate(f) = [lines |-> f.lines, nl |-> TRUE]
         /\ f.nl = TRUE => WriteLine(f, e, b) = [lines |-> Append(f.lines, e), nl |-> b]
<1>1. f = [lines |-> f.lines, nl |-> f.nl] /\ f.lines \in Seq(S) /\ f.nl \in BOOLEAN
  OBVIOUS
<1>2. Terminate(f) = [lines |-> f.lines, nl |-> TRUE]
  <2> DEFINE l == f.lines
             n == f.nl
  <2>1. f = [lines |-> l, nl |-> n]
    BY <1>1
  <2> HIDE DEF l, n
  <2>2. ASSUME NEW x PROVE [f EXCEPT !.nl = x] = [lines |-> l, nl |-> x]
    BY <2>1
  <2>3. [f EXCEPT !.nl = TRUE] = [lines |-> l, nl |-> TRUE]
    BY <2>2, Zenon
  <2> QED
    BY <2>3, Zenon DEF Terminate, l
<1>3. ASSUME f.nl = TRUE PROVE WriteLine(f, e, b) = [lines |-> Append(f.lines, e), nl |-> b]
  BY <1>3, Zenon DEF WriteLine
<1> QED
  BY <1>1, <1>2, <1>3

\* The record of the tick under way, after the lines of the ticks before.
LEMMA RecordLands ==
  ASSUME N \in Nat, ProcessesOK, mpc # "idle", NEW b \in Seq(Lines(clock - 1)), Len(b) <= clock - 1,
         InOrder(b)
  PROVE  LET r == Append(b, MarketRecord)
         IN  /\ MarketRecord \in Record(clock) /\ MarketRecord \in Lines(clock)
             /\ MarketRecord.seq = mseq - 1 /\ MarketRecord.id = clock /\ MarketRecord.ok = TRUE
             /\ b \in Seq(Lines(clock))
             /\ r \in Seq(Lines(clock)) /\ Len(r) <= clock /\ InOrder(r)
<1>1. clock \in Nat /\ clock - 1 \in Nat /\ mseq \in 1 .. clock
  BY DEF ProcessesOK, Unset
<1>2. MarketRecord = [ok |-> TRUE, seq |-> mseq - 1, id |-> clock]
  BY DEF MarketRecord, Entry
<1>3. /\ MarketRecord \in Record(clock) /\ MarketRecord \in Lines(clock)
      /\ MarketRecord.seq = mseq - 1 /\ MarketRecord.id = clock /\ MarketRecord.ok = TRUE
  BY <1>1, <1>2 DEF Record, Lines
<1>4. b \in Seq(Lines(clock))
  BY <1>1, MoreLines
<1>5. \A i \in DOMAIN b : b[i].id < clock
  <2> TAKE i \in DOMAIN b
  <2>1. b[i] \in Lines(clock - 1)
    OBVIOUS
  <2>2. b[i].id \in 0 .. clock - 1
    BY <1>1, <2>1, LineFields
  <2> QED
    BY <1>1, <2>2
<1> HIDE DEF MarketRecord
<1>6. Append(b, MarketRecord) \in Seq(Lines(clock)) /\ Len(Append(b, MarketRecord)) = Len(b) + 1
  BY <1>3, <1>4
<1>7. InOrder(Append(b, MarketRecord))
  BY <1>1, <1>3, <1>4, <1>5, OrderOfOneMore
<1> QED
  BY <1>1, <1>3, <1>4, <1>6, <1>7

\* A record under way, in pieces: what the file holds before it.
LEMMA UnderWay ==
  ASSUME N \in Nat, RecordingInv, mpc = "partial", mfile = TRUE
  PROVE  \E b \in Seq(Lines(clock - 1)) :
           /\ Len(b) <= clock - 1 /\ InOrder(b)
           /\ tape.lines = Append(b, Garbled)
           /\ [tape.lines EXCEPT ![Len(tape.lines)] = MarketRecord] = Append(b, MarketRecord)
<1> DEFINE s == tape.lines
<1>1. clock \in Nat /\ clock - 1 \in Nat /\ Past = clock - 1
  BY DEF RecordingInv, ProcessesOK, Unset, Past
<1>2. s \in Seq(Lines(clock - 1)) /\ Len(s) <= clock /\ InOrder(s) /\ s # << >> /\ s[Len(s)] = Garbled
  BY <1>1 DEF RecordingInv, TapeOK
<1>3. MarketRecord \in Lines(clock)
  <2>1. MarketRecord = [ok |-> TRUE, seq |-> mseq - 1, id |-> clock]
    BY DEF MarketRecord, Entry
  <2>2. mseq \in 1 .. clock
    BY DEF RecordingInv, ProcessesOK, Unset
  <2> QED
    BY <1>1, <2>1, <2>2 DEF Record, Lines
<1> DEFINE b == SubSeq(s, 1, Len(s) - 1)
<1> HIDE DEF MarketRecord, s
<1>4. b \in Seq(Lines(clock - 1)) /\ Len(b) = Len(s) - 1 /\ s = Append(b, Garbled)
  <2>1. Garbled \in Lines(clock - 1)
    BY DEF Lines
  <2> QED
    BY <1>2, <2>1, LastLine
<1>5. s \in Seq(Lines(clock))
  BY <1>1, <1>2, MoreLines
<1>6. [s EXCEPT ![Len(s)] = MarketRecord] = Append(b, MarketRecord)
  BY <1>2, <1>3, <1>5, LastLine
<1> HIDE DEF b
<1>7. InOrder(b)
  <2>1. Garbled \in Lines(clock - 1)
    BY DEF Lines
  <2> QED
    BY <1>1, <1>2, <1>4, <2>1, OrderOfOneMore
<1>8. Len(b) <= clock - 1
  BY <1>1, <1>2, <1>4
<1> QED
  BY <1>4, <1>6, <1>7, <1>8 DEF s

-----------------------------------------------------------------------------
(* Recording: every step keeps it. *)

\* The market process's record is in the file: what its end, and its death
\* after the last byte but one, have in common.
LEMMA LandingKeeps ==
  ASSUME N \in Nat, RecordingInv, NEW b \in Seq(Lines(clock - 1)), Len(b) <= clock - 1, InOrder(b),
         mpc # "idle", mfile = TRUE,
         tape.lines = b \/ tape.lines = Append(b, Garbled),
         NEW f, f.lines = Append(b, MarketRecord)
  PROVE  /\ f.lines \in Seq(Lines(clock)) /\ Len(f.lines) <= clock /\ InOrder(f.lines)
         /\ IdsIn(f) = IdsIn(tape) \cup {clock}
         /\ ~live => Highest(f.lines, mseq - 1)
         /\ ~live /\ Contiguous(Parsable(tape)) => Contiguous(Parsable(f))
         /\ Parsable(f) = Append(Parsable(tape), MarketRecord)
         /\ ~live => Highest(tape.lines, mseq - 2)
         /\ \A t \in IdsIn(tape) : t < clock
<1>1. clock \in Nat /\ clock - 1 \in Nat /\ mseq \in 1 .. clock /\ mseq # Unset /\ ProcessesOK
  BY DEF RecordingInv, ProcessesOK, Unset
<1>2. /\ MarketRecord \in Lines(clock) /\ MarketRecord.seq = mseq - 1
      /\ MarketRecord.id = clock /\ MarketRecord.ok = TRUE
      /\ b \in Seq(Lines(clock))
      /\ f.lines \in Seq(Lines(clock)) /\ Len(f.lines) <= clock /\ InOrder(f.lines)
  BY <1>1, RecordLands
<1>3. Garbled \in Lines(clock) /\ ~Garbled.ok
  BY DEF Lines, Garbled
<1> HIDE DEF MarketRecord
<1> DEFINE g == [lines |-> b]
<1>4. g.lines = b
  OBVIOUS
<1> HIDE DEF g
<1>5. IdsIn(g) = IdsIn(tape) /\ Parsable(g) = Parsable(tape)
  <2>1. CASE tape.lines = b
    BY <1>4, <2>1 DEF IdsIn, Parsable
  <2>2. CASE tape.lines = Append(b, Garbled)
    <3>1. IdsIn(g) = IdsIn(tape)
      BY <1>1, <1>2, <1>3, <1>4, <2>2, IdsOfOneMore
    <3>2. Parsable(g) = Parsable(tape)
      BY <1>1, <1>2, <1>3, <1>4, <2>2, ParsableOfOneMore
    <3> QED
      BY <3>1, <3>2
  <2> QED
    BY <2>1, <2>2
<1>6. IdsIn(f) = IdsIn(tape) \cup {clock}
  BY <1>1, <1>2, <1>4, <1>5, IdsOfOneMore
<1>7. ASSUME ~live PROVE Highest(b, mseq - 2)
  <2>1. Highest(tape.lines, mseq - 2)
    BY <1>1, <1>7 DEF RecordingInv, SeqOK
  <2>2. mseq - 2 \in Int
    BY <1>1
  <2>3. CASE tape.lines = Append(b, Garbled)
    <3>1. Highest(Append(b, Garbled), mseq - 2)
      BY <2>1, <2>3
    <3> QED
      BY <1>1, <1>2, <1>3, <2>2, <3>1, HighestOfOneMore
  <2> QED
    BY <2>1, <2>3
<1>8. ASSUME ~live PROVE Highest(f.lines, mseq - 1)
  <2>1. mseq - 2 \in Int /\ (mseq - 2) + 1 = mseq - 1
    BY <1>1
  <2>2. Highest(Append(b, MarketRecord), (mseq - 2) + 1)
    BY <1>1, <1>2, <1>7, <1>8, <2>1, HighestOfOneMore
  <2> QED
    BY <2>1, <2>2
<1>9. Parsable(f) = Append(Parsable(g), MarketRecord)
  BY <1>1, <1>2, <1>4, ParsableOfOneMore
<1>10. ASSUME ~live, Contiguous(Parsable(tape)) PROVE Contiguous(Parsable(f))
  <2>1. mseq - 2 \in Int /\ (mseq - 2) + 1 = mseq - 1
    BY <1>1
  <2>2. Highest(g.lines, mseq - 2) /\ g.lines \in Seq(Lines(clock)) /\ Contiguous(Parsable(g))
    BY <1>2, <1>4, <1>5, <1>7, <1>10
  <2> QED
    BY <1>1, <1>2, <1>9, <2>1, <2>2, NextOpensNoGap
<1>11. ASSUME ~live PROVE Highest(tape.lines, mseq - 2)
  BY <1>1, <1>11 DEF RecordingInv, SeqOK
<1>12. \A t \in IdsIn(tape) : t < clock
  <2> SUFFICES ASSUME NEW i \in DOMAIN b, b[i].ok PROVE b[i].id < clock
    BY <1>4, <1>5 DEF IdsIn
  <2>1. b[i] \in Lines(clock - 1)
    OBVIOUS
  <2>2. b[i] \in Record(clock - 1)
    BY <2>1, <1>3 DEF Lines
  <2>3. b[i].id \in 1 .. clock - 1
    BY <1>1, <2>2, RecordFields
  <2> QED
    BY <1>1, <2>3
<1> QED
  BY <1>2, <1>5, <1>6, <1>8, <1>9, <1>10, <1>11, <1>12

\* Whole lines under a write that ends, and what it makes of them.
LEMMA WrittenLands ==
  ASSUME N \in Nat, RecordingInv, TickWritten, mfile = TRUE
  PROVE  \E b \in Seq(Lines(clock - 1)) :
           /\ Len(b) <= clock - 1 /\ InOrder(b)
           /\ tape.lines = b \/ tape.lines = Append(b, Garbled)
           /\ tape' = [lines |-> Append(b, MarketRecord), nl |-> TRUE]
<1>1. mpc \in {"open", "partial"} /\ mpc # "idle"
  BY DEF TickWritten
<1>2. CASE mpc = "open"
  <2> DEFINE b == tape.lines
  <2>1. Past = clock - 1
    BY <1>1 DEF Past
  <2>2. tape \in [lines : Seq(Lines(clock - 1)), nl : BOOLEAN] /\ tape.nl = TRUE
    BY <1>2, <2>1 DEF RecordingInv, TapeOK
  <2>3. b \in Seq(Lines(clock - 1)) /\ Len(b) <= clock - 1 /\ InOrder(b)
    BY <1>2, <2>1 DEF RecordingInv, TapeOK
  <2>4. tape' = WriteLine(tape, MarketRecord, TRUE)
    BY <1>2 DEF TickWritten, AppendRecord
  <2>5. tape' = [lines |-> Append(b, MarketRecord), nl |-> TRUE]
    BY <2>2, <2>4, Zenon DEF WriteLine
  <2> HIDE DEF b
  <2> QED
    BY <2>3, <2>5 DEF b
<1>3. CASE mpc = "partial"
  <2>1. tape' = [lines |-> [tape.lines EXCEPT ![Len(tape.lines)] = MarketRecord], nl |-> TRUE]
    BY <1>3 DEF TickWritten
  <2>2. PICK b \in Seq(Lines(clock - 1)) :
          /\ Len(b) <= clock - 1 /\ InOrder(b)
          /\ tape.lines = Append(b, Garbled)
          /\ [tape.lines EXCEPT ![Len(tape.lines)] = MarketRecord] = Append(b, MarketRecord)
    BY <1>3, UnderWay
  <2> QED
    BY <2>1, <2>2
<1> QED
  BY <1>1, <1>2, <1>3

\* The same under a write that a death ends before the newline.
LEMMA DeathLands ==
  ASSUME N \in Nat, RecordingInv, mpc = "partial", mfile = TRUE,
         tape' = [tape EXCEPT !.lines[Len(tape.lines)] = MarketRecord]
  PROVE  \E b \in Seq(Lines(clock - 1)) :
           /\ Len(b) <= clock - 1 /\ InOrder(b)
           /\ tape.lines = Append(b, Garbled)
           /\ tape' = [lines |-> Append(b, MarketRecord), nl |-> tape.nl]
<1>1. PICK b \in Seq(Lines(clock - 1)) :
        /\ Len(b) <= clock - 1 /\ InOrder(b)
        /\ tape.lines = Append(b, Garbled)
        /\ [tape.lines EXCEPT ![Len(tape.lines)] = MarketRecord] = Append(b, MarketRecord)
  BY UnderWay
<1>2. tape = [lines |-> tape.lines, nl |-> tape.nl] /\ tape.nl \in BOOLEAN
  BY DEF RecordingInv, TapeOK
<1>3. tape' = [lines |-> Append(b, MarketRecord), nl |-> tape.nl]
  <2> DEFINE l == tape.lines
             n == tape.nl
             r == [l EXCEPT ![Len(l)] = MarketRecord]
  <2>1. tape' = [tape EXCEPT !.lines = [@ EXCEPT ![Len(l)] = MarketRecord]]
    OBVIOUS
  <2>2. tape' = [tape EXCEPT !.lines = r]
    BY <2>1
  <2>3. r = Append(b, MarketRecord)
    BY <1>1
  <2>4. tape = [lines |-> l, nl |-> n]
    BY <1>2
  <2> HIDE DEF r, l, n
  <2> QED
    BY <2>2, <2>3, <2>4 DEF n
<1> QED
  BY <1>1, <1>3

LEMMA TickMissedKeeps ==
  ASSUME N \in Nat, RecordingInv, TickMissed
  PROVE  RecordingInv'
<1>1. clock \in Nat /\ clock' = clock + 1 /\ clock < N /\ mpc = "idle"
  BY DEF RecordingInv, ProcessesOK, TickMissed
<1>2. UNCHANGED <<tape, mpc, mseq, mfile, written, rpc, rload, rquiet, live, rstatus>>
  BY DEF TickMissed, marketVars, repairVars
<1>3. 1 .. clock \subseteq 1 .. clock'
  BY <1>1
<1>4. ProcessesOK'
  BY <1>1, <1>2, <1>3 DEF RecordingInv, ProcessesOK
<1>5. TapeOK'
  <2>1. Past = clock /\ Past' = clock'
    BY <1>1, <1>2 DEF Past
  <2>2. Seq(Lines(clock)) \subseteq Seq(Lines(clock'))
    BY <1>1, MoreLines
  <2>3. tape \in [lines : Seq(Lines(clock')), nl : BOOLEAN]
    BY <2>1, <2>2 DEF RecordingInv, TapeOK
  <2>4. Len(tape.lines) <= clock
    BY <1>1, <2>1 DEF RecordingInv, TapeOK
  <2>5. Len(tape.lines) <= clock'
    BY <1>1, <2>3, <2>4
  <2> QED
    BY <1>1, <1>2, <2>1, <2>3, <2>5 DEF RecordingInv, TapeOK
<1>6. LoadOK'
  <2>1. Seq(Record(clock)) \subseteq Seq(Record(clock'))
    BY <1>1, MoreLines
  <2>2. rload \in Seq(Record(clock)) /\ Len(rload) <= clock
    BY DEF RecordingInv, LoadOK
  <2>3. Len(rload) <= clock'
    BY <1>1, <2>2
  <2> QED
    BY <1>2, <2>1, <2>2, <2>3 DEF RecordingInv, LoadOK
<1>7. SeqOK'
  BY <1>2 DEF RecordingInv, SeqOK
<1>8. AppendedRecordsSurvive'
  BY <1>2 DEF RecordingInv, AppendedRecordsSurvive, IdsIn
<1> QED
  BY <1>4, <1>5, <1>6, <1>7, <1>8 DEF RecordingInv

LEMMA TickOpenKeeps ==
  ASSUME N \in Nat, RecordingInv, TickOpen
  PROVE  RecordingInv' /\ Parsable(tape)' = Parsable(tape) /\ IdsIn(tape') = IdsIn(tape)
<1>1. /\ clock \in Nat /\ clock' = clock + 1 /\ clock < N /\ mpc = "idle"
      /\ mpc' = "open" /\ mfile' = TRUE /\ mseq' = NextSeq + 1
      /\ rquiet' = (rquiet /\ rpc # "loaded")
      /\ UNCHANGED <<written, rpc, rload, live, rstatus>>
  BY DEF RecordingInv, ProcessesOK, TickOpen
<1>2. Past = clock /\ Past' = clock /\ 1 .. clock \subseteq 1 .. clock'
  BY <1>1 DEF Past
<1>3. tape \in [lines : Seq(Lines(clock)), nl : BOOLEAN]
  BY <1>2 DEF RecordingInv, TapeOK
<1>4. tape' = [lines |-> tape.lines, nl |-> TRUE] /\ tape.lines \in Seq(Lines(clock))
  <2>1. Garbled \in Lines(clock)
    BY DEF Lines
  <2>2. tape' = Terminate(tape)
    BY DEF TickOpen
  <2> QED
    BY <1>3, <2>1, <2>2, FileSteps
<1>5. tape'.lines = tape.lines /\ tape'.nl = TRUE /\ tape' \in [lines : Seq(Lines(clock)), nl : BOOLEAN]
  BY <1>4
<1>6. mseq' \in 1 .. clock' /\ mseq' # Unset
  <2>1. CASE mseq # Unset
    BY <1>1, <2>1 DEF RecordingInv, ProcessesOK, NextSeq, Unset
  <2>2. CASE mseq = Unset
    <3>1. HighestSeq(tape) \in -1 .. clock - 1
      BY <1>1, <1>4, HighestSeqIs
    <3> QED
      BY <1>1, <2>2, <3>1 DEF NextSeq, Unset
  <2> QED
    BY <2>1, <2>2
<1>7. ProcessesOK'
  <2>1. clock' \in 0 .. N
    BY <1>1
  <2> QED
    BY <1>1, <1>2, <1>6, <2>1 DEF RecordingInv, ProcessesOK
<1>8. TapeOK'
  <2>1. Len(tape.lines) <= clock /\ InOrder(tape.lines)
    BY <1>1, <1>2 DEF RecordingInv, TapeOK
  <2> QED
    BY <1>1, <1>2, <1>5, <2>1 DEF TapeOK
<1>9. LoadOK'
  <2>1. Seq(Record(clock)) \subseteq Seq(Record(clock'))
    BY <1>1, MoreLines
  <2>2. rload \in Seq(Record(clock)) /\ Len(rload) <= clock
    BY DEF RecordingInv, LoadOK
  <2>3. Len(rload) <= clock'
    BY <1>1, <2>2
  <2> QED
    BY <1>1, <2>1, <2>2, <2>3 DEF RecordingInv, LoadOK
<1>10. SeqOK'
  <2> SUFFICES ASSUME ~live PROVE Highest(tape.lines, mseq' - 2)
    BY <1>1, <1>5 DEF SeqOK
  <2>1. CASE mseq # Unset
    <3>1. Highest(tape.lines, mseq - 1)
      BY <1>1, <2>1 DEF RecordingInv, SeqOK
    <3>2. mseq' - 2 = mseq - 1
      BY <1>1, <2>1 DEF RecordingInv, ProcessesOK, NextSeq, Unset
    <3> QED
      BY <3>1, <3>2
  <2>2. CASE mseq = Unset
    <3>1. HighestSeq(tape) \in -1 .. clock - 1 /\ Highest(tape.lines, HighestSeq(tape))
      BY <1>1, <1>4, HighestSeqIs
    <3>2. mseq' - 2 = HighestSeq(tape)
      BY <1>1, <2>2, <3>1 DEF NextSeq
    <3> QED
      BY <3>1, <3>2
  <2> QED
    BY <2>1, <2>2
<1>11. AppendedRecordsSurvive'
  BY <1>1, <1>5 DEF RecordingInv, AppendedRecordsSurvive, IdsIn
<1>12. Parsable(tape)' = Parsable(tape) /\ IdsIn(tape') = IdsIn(tape)
  BY <1>5 DEF Parsable, IdsIn
<1> QED
  BY <1>7, <1>8, <1>9, <1>10, <1>11, <1>12 DEF RecordingInv

LEMMA TickWriteSomeKeeps ==
  ASSUME N \in Nat, RecordingInv, TickWriteSome
  PROVE  RecordingInv' /\ Parsable(tape)' = Parsable(tape) /\ IdsIn(tape') = IdsIn(tape)
<1>1. /\ clock \in Nat /\ clock' = clock /\ mpc = "open" /\ mpc' = "partial"
      /\ UNCHANGED <<clock, mseq, mfile, written, rpc, rload, rquiet, live, rstatus>>
      /\ mfile \in BOOLEAN
  BY DEF RecordingInv, ProcessesOK, TickWriteSome, repairVars
<1>2. Past' = Past /\ Past \in Nat
  <2>1. clock - 1 \in Nat
    BY <1>1 DEF RecordingInv, ProcessesOK, Unset
  <2> QED
    BY <1>1, <2>1 DEF Past
<1>3. /\ tape \in [lines : Seq(Lines(Past)), nl : BOOLEAN] /\ tape.lines \in Seq(Lines(Past))
      /\ InOrder(tape.lines) /\ Len(tape.lines) <= Past
  BY <1>1 DEF RecordingInv, TapeOK
<1>4. Garbled \in Lines(Past) /\ Garbled.ok = FALSE
  BY DEF Lines, Garbled
<1>5. ASSUME mfile = TRUE
      PROVE  tape' = [lines |-> Append(tape.lines, Garbled), nl |-> FALSE]
  <2>1. tape.nl = TRUE
    BY <1>1, <1>5 DEF RecordingInv, TapeOK
  <2>2. tape' = WriteLine(tape, Garbled, FALSE)
    BY <1>5 DEF TickWriteSome
  <2> QED
    BY <1>3, <1>4, <2>1, <2>2, FileSteps
<1>6. ASSUME mfile = FALSE PROVE tape' = tape /\ live = TRUE
  <2>1. tape' = tape
    BY <1>6 DEF TickWriteSome
  <2>2. live = TRUE
    BY <1>6 DEF RecordingInv, ProcessesOK
  <2> QED
    BY <2>1, <2>2
<1>7. ProcessesOK'
  BY <1>1 DEF RecordingInv, ProcessesOK
<1>8. TapeOK'
  <2>1. CASE mfile = TRUE
    <3> DEFINE r == Append(tape.lines, Garbled)
    <3>1. r \in Seq(Lines(Past)) /\ Len(r) = Len(tape.lines) + 1 /\ r[Len(r)] = Garbled /\ r # << >>
      BY <1>3, <1>4
    <3>2. InOrder(r)
      BY <1>2, <1>3, <1>4, OrderOfOneMore
    <3>3. Len(r) <= clock
      <4>1. Past = clock - 1 /\ Len(tape.lines) \in Nat
        BY <1>1, <1>3, <2>1 DEF Past
      <4> QED
        BY <1>1, <1>3, <3>1, <4>1
    <3> HIDE DEF r
    <3>4. tape' = [lines |-> r, nl |-> FALSE]
      BY <1>5, <2>1 DEF r
    <3>5. tape'.lines = r /\ tape' \in [lines : Seq(Lines(Past)), nl : BOOLEAN]
      BY <3>1, <3>4
    <3> QED
      BY <1>1, <1>2, <2>1, <3>1, <3>2, <3>3, <3>5 DEF TapeOK
  <2>2. CASE mfile = FALSE
    <3>1. tape' = tape /\ Past = clock
      BY <1>6, <2>2 DEF Past
    <3> QED
      BY <1>1, <1>2, <1>3, <2>2, <3>1 DEF TapeOK
  <2> QED
    BY <1>1, <2>1, <2>2
<1>9. LoadOK'
  BY <1>1 DEF RecordingInv, LoadOK
<1>10. SeqOK'
  <2> SUFFICES ASSUME ~live, mseq # Unset PROVE Highest(tape'.lines, mseq - 2)
    BY <1>1 DEF SeqOK
  <2>1. Highest(tape.lines, mseq - 2)
    BY <1>1 DEF RecordingInv, SeqOK
  <2>2. mfile = TRUE
    BY <1>1, <1>6
  <2>3. tape' = [lines |-> Append(tape.lines, Garbled), nl |-> FALSE]
    BY <1>5, <2>2
  <2>4. tape'.lines = Append(tape.lines, Garbled)
    BY <2>3
  <2>5. mseq - 2 \in Int
    BY DEF RecordingInv, ProcessesOK, Unset
  <2> QED
    BY <1>2, <1>3, <1>4, <2>1, <2>4, <2>5, HighestOfOneMore
<1>11. IdsIn(tape') = IdsIn(tape) /\ Parsable(tape') = Parsable(tape)
  <2>1. CASE mfile = TRUE
    <3>1. tape'.lines = Append(tape.lines, Garbled)
      BY <1>5, <2>1
    <3>2. IdsIn(tape') = IdsIn(tape)
      BY <1>2, <1>3, <1>4, <3>1, IdsOfOneMore
    <3>3. Parsable(tape') = Parsable(tape)
      BY <1>2, <1>3, <1>4, <3>1, ParsableOfOneMore
    <3> QED
      BY <3>2, <3>3
  <2> QED
    BY <1>1, <1>6, <2>1
<1>12. AppendedRecordsSurvive'
  BY <1>1, <1>11 DEF RecordingInv, AppendedRecordsSurvive
<1> QED
  BY <1>7, <1>8, <1>9, <1>10, <1>11, <1>12 DEF RecordingInv

LEMMA TickWrittenKeeps ==
  ASSUME N \in Nat, RecordingInv, TickWritten
  PROVE  /\ RecordingInv' /\ IdsIn(tape) \subseteq IdsIn(tape')
         /\ ~live /\ Contiguous(Parsable(tape)) => Contiguous(Parsable(tape'))
<1>1. /\ clock \in Nat /\ clock' = clock /\ mpc \in {"open", "partial"} /\ mpc # "idle" /\ mpc' = "idle"
      /\ written' = written \cup {clock}
      /\ UNCHANGED <<clock, mseq, mfile, rpc, rload, rquiet, live, rstatus>>
      /\ mfile \in BOOLEAN /\ clock \in 1 .. clock /\ clock - 1 \in Nat /\ Past' = clock
  BY DEF RecordingInv, ProcessesOK, TickWritten, repairVars, Unset, Past
<1>2. ProcessesOK'
  BY <1>1 DEF RecordingInv, ProcessesOK
<1>3. LoadOK'
  BY <1>1 DEF RecordingInv, LoadOK
<1>4. CASE mfile = TRUE
  <2>1. PICK b \in Seq(Lines(clock - 1)) :
          /\ Len(b) <= clock - 1 /\ InOrder(b)
          /\ tape.lines = b \/ tape.lines = Append(b, Garbled)
          /\ tape' = [lines |-> Append(b, MarketRecord), nl |-> TRUE]
    BY <1>4, WrittenLands
  <2>2. tape'.lines = Append(b, MarketRecord)
    BY <2>1
  <2>3. /\ tape'.lines \in Seq(Lines(clock)) /\ Len(tape'.lines) <= clock /\ InOrder(tape'.lines)
        /\ IdsIn(tape') = IdsIn(tape) \cup {clock}
        /\ ~live => Highest(tape'.lines, mseq - 1)
        /\ ~live /\ Contiguous(Parsable(tape)) => Contiguous(Parsable(tape'))
    BY <1>1, <1>4, <2>1, <2>2, LandingKeeps
  <2>4. tape' \in [lines : Seq(Lines(clock)), nl : BOOLEAN]
    BY <2>1, <2>2, <2>3
  <2>5. TapeOK'
    BY <1>1, <2>3, <2>4 DEF TapeOK
  <2>6. SeqOK'
    BY <1>1, <2>3 DEF SeqOK
  <2>7. AppendedRecordsSurvive'
    BY <1>1, <2>3 DEF RecordingInv, AppendedRecordsSurvive
  <2> QED
    BY <1>2, <1>3, <2>3, <2>5, <2>6, <2>7 DEF RecordingInv
<1>5. CASE mfile = FALSE
  <2>1. tape' = tape
    BY <1>5 DEF TickWritten
  <2>2. live = TRUE
    BY <1>5 DEF RecordingInv, ProcessesOK
  <2>3. TapeOK'
    <3>1. Past = clock
      BY <1>5 DEF Past
    <3> QED
      BY <1>1, <1>5, <2>1, <3>1 DEF RecordingInv, TapeOK
  <2>4. SeqOK'
    BY <1>1, <2>2 DEF SeqOK
  <2>5. AppendedRecordsSurvive'
    BY <1>1, <2>2 DEF AppendedRecordsSurvive
  <2> QED
    BY <1>2, <1>3, <2>1, <2>2, <2>3, <2>4, <2>5 DEF RecordingInv
<1> QED
  BY <1>1, <1>4, <1>5

LEMMA MarketCrashKeeps ==
  ASSUME N \in Nat, RecordingInv, MarketCrash
  PROVE  /\ RecordingInv'
         /\ ~live /\ Contiguous(Parsable(tape)) => Contiguous(Parsable(tape'))
         /\ IdsIn(tape) \subseteq IdsIn(tape')
<1>1. /\ clock \in Nat /\ clock' = clock /\ mpc' = "idle" /\ mfile' = TRUE /\ mseq' = Unset
      /\ UNCHANGED <<clock, written, rpc, rload, rquiet, live, rstatus>>
      /\ mfile \in BOOLEAN /\ Past' = clock
  BY DEF RecordingInv, ProcessesOK, MarketCrash, repairVars, Unset, Past
<1>2. ProcessesOK'
  BY <1>1 DEF RecordingInv, ProcessesOK
<1>3. LoadOK'
  BY <1>1 DEF RecordingInv, LoadOK
<1>4. SeqOK'
  BY <1>1 DEF SeqOK
<1>5. CASE tape' = tape
  <2>1. TapeOK'
    <3>1. Past \in Nat /\ Past <= clock
      BY <1>1 DEF RecordingInv, ProcessesOK, Past, Unset
    <3>2. tape \in [lines : Seq(Lines(Past)), nl : BOOLEAN] /\ Len(tape.lines) <= clock /\ InOrder(tape.lines)
      BY <1>1, <3>1 DEF RecordingInv, TapeOK
    <3>3. tape \in [lines : Seq(Lines(clock)), nl : BOOLEAN]
      BY <1>1, <3>1, <3>2, MoreLines
    <3> QED
      BY <1>1, <1>5, <3>2, <3>3 DEF TapeOK
  <2>2. AppendedRecordsSurvive'
    BY <1>1, <1>5 DEF RecordingInv, AppendedRecordsSurvive
  <2> QED
    BY <1>2, <1>3, <1>4, <1>5, <2>1, <2>2 DEF RecordingInv
<1>6. CASE /\ mpc = "partial" /\ mfile = TRUE
           /\ tape' = [tape EXCEPT !.lines[Len(tape.lines)] = MarketRecord]
  <2>1. PICK b \in Seq(Lines(clock - 1)) :
          /\ Len(b) <= clock - 1 /\ InOrder(b)
          /\ tape.lines = Append(b, Garbled)
          /\ tape' = [lines |-> Append(b, MarketRecord), nl |-> tape.nl]
    BY <1>6, DeathLands
  <2>2. tape.nl \in BOOLEAN
    BY DEF RecordingInv, TapeOK
  <2>4. tape'.lines = Append(b, MarketRecord)
    BY <2>1
  <2>5. /\ tape'.lines \in Seq(Lines(clock)) /\ Len(tape'.lines) <= clock /\ InOrder(tape'.lines)
        /\ IdsIn(tape') = IdsIn(tape) \cup {clock}
        /\ ~live /\ Contiguous(Parsable(tape)) => Contiguous(Parsable(tape'))
    <3>1. mpc # "idle"
      BY <1>6
    <3> QED
      BY <1>6, <2>1, <2>4, <3>1, LandingKeeps
  <2>6. tape' \in [lines : Seq(Lines(clock)), nl : BOOLEAN]
    BY <2>1, <2>2, <2>4, <2>5
  <2>7. TapeOK'
    BY <1>1, <2>5, <2>6 DEF TapeOK
  <2>8. AppendedRecordsSurvive'
    BY <1>1, <2>5 DEF RecordingInv, AppendedRecordsSurvive
  <2> QED
    BY <1>2, <1>3, <1>4, <2>5, <2>7, <2>8 DEF RecordingInv
<1> QED
  BY <1>1, <1>5, <1>6 DEF MarketCrash

LEMMA RepairInspectKeeps ==
  ASSUME RecordingInv, RepairInspect
  PROVE  RecordingInv' /\ tape' = tape
<1>1. /\ UNCHANGED <<tape, clock, mpc, mseq, mfile, written, rload, rquiet, live>>
      /\ rpc' \in {"gap", "done"} /\ rstatus' \in {"empty", "sequence_gap", "clean"}
  <2>1. Classify(tape) \in {"empty", "sequence_gap", "clean"}
    BY DEF Classify
  <2> QED
    BY <2>1 DEF RepairInspect, marketVars
<1>2. ProcessesOK'
  BY <1>1 DEF RecordingInv, ProcessesOK
<1>3. TapeOK' /\ SeqOK' /\ AppendedRecordsSurvive'
  BY <1>1 DEF RecordingInv, TapeOK, Past, SeqOK, AppendedRecordsSurvive
<1>4. LoadOK'
  BY <1>1 DEF RecordingInv, LoadOK
<1> QED
  BY <1>1, <1>2, <1>3, <1>4 DEF RecordingInv

LEMMA RepairLoadKeeps ==
  ASSUME RecordingInv, RepairLoad
  PROVE  RecordingInv' /\ tape' = tape
<1>1. /\ UNCHANGED <<tape, clock, mpc, mseq, mfile, written, live, rstatus>>
      /\ rpc' = "loaded" /\ rload' = Renumber(Parsable(tape))
      /\ rquiet' = (mpc = "idle" /\ mseq = Unset)
  BY DEF RepairLoad, marketVars
<1>2. clock \in Nat /\ Past \in Nat /\ Past <= clock
  BY DEF RecordingInv, ProcessesOK, Past, Unset
<1>3. ProcessesOK'
  BY <1>1 DEF RecordingInv, ProcessesOK
<1>4. TapeOK' /\ SeqOK' /\ AppendedRecordsSurvive'
  BY <1>1 DEF RecordingInv, TapeOK, Past, SeqOK, AppendedRecordsSurvive
<1>5. LoadOK'
  <2>1. tape.lines \in Seq(Lines(clock)) /\ Len(tape.lines) <= clock /\ InOrder(tape.lines)
    <3>1. tape.lines \in Seq(Lines(Past))
      BY DEF RecordingInv, TapeOK
    <3>2. Len(tape.lines) \in Nat
      BY <3>1
    <3>3. Len(tape.lines) <= clock
      BY <1>2, <3>2 DEF RecordingInv, TapeOK
    <3> QED
      BY <1>2, <3>1, <3>3, MoreLines DEF RecordingInv, TapeOK
  <2> DEFINE t == Parsable(tape)
  <2>2. t \in Seq(Record(clock)) /\ Len(t) <= Len(tape.lines) /\ InOrder(t)
    BY <1>2, <2>1, ParsableIs
  <2>3. IdsIn(tape) = {t[n].id : n \in DOMAIN t}
    BY <1>2, <2>1, IdsOfParsable
  <2> HIDE DEF t
  <2>4. Len(t) <= clock
    BY <1>2, <2>1, <2>2
  <2> DEFINE r == Renumber(t)
  <2>5. /\ r \in Seq(Record(clock)) /\ Len(r) = Len(t) /\ \A i \in DOMAIN r : r[i].seq = i - 1
        /\ InOrder(r) /\ {r[i].id : i \in DOMAIN r} = IdsIn(tape)
    BY <1>2, <2>2, <2>3, <2>4, RenumberIs
  <2>6. rload' = r
    BY <1>1 DEF t
  <2> HIDE DEF r
  <2>7. ~live => written \subseteq {r[i].id : i \in DOMAIN r}
    BY <2>5 DEF RecordingInv, AppendedRecordsSurvive
  <2> QED
    BY <1>1, <2>4, <2>5, <2>6, <2>7 DEF LoadOK
<1> QED
  BY <1>1, <1>3, <1>4, <1>5 DEF RecordingInv

LEMMA RepairReplaceKeeps ==
  ASSUME RecordingInv, RepairReplace
  PROVE  RecordingInv' /\ Parsable(tape') = rload /\ Contiguous(Parsable(tape'))
<1>1. /\ UNCHANGED <<clock, mpc, mseq, written, rload, rquiet>>
      /\ rpc = "loaded" /\ rpc' = "done" /\ rstatus' = "repaired"
      /\ tape' = [lines |-> rload, nl |-> TRUE] /\ tape'.lines = rload
      /\ mfile' = (mpc = "idle") /\ live' = (live \/ ~rquiet)
  BY DEF RepairReplace
<1>2. clock \in Nat /\ Past' = clock
  <2>1. clock \in Nat
    BY DEF RecordingInv, ProcessesOK
  <2>2. Past' = IF mpc = "idle" \/ ~(mpc = "idle") THEN clock ELSE clock - 1
    BY <1>1 DEF Past
  <2> QED
    BY <2>1, <2>2
<1>3. /\ rload \in Seq(Record(clock)) /\ Len(rload) <= clock /\ InOrder(rload)
      /\ \A i \in DOMAIN rload : rload[i].seq = i - 1
  BY DEF RecordingInv, LoadOK
<1>4. rquiet => mpc = "idle" /\ mseq = Unset /\ (~live => written \subseteq {rload[i].id : i \in DOMAIN rload})
  BY <1>1 DEF RecordingInv, LoadOK
<1>5. ProcessesOK'
  <2>1. mfile' \in BOOLEAN /\ live' \in BOOLEAN
    BY <1>1
  <2>2. ~mfile' => live'
    BY <1>1, <1>4
  <2>3. mpc' # "idle" => mseq' # Unset
    BY <1>1 DEF RecordingInv, ProcessesOK
  <2> QED
    BY <1>1, <2>1, <2>2, <2>3 DEF RecordingInv, ProcessesOK
<1>6. TapeOK'
  <2>1. rload \in Seq(Lines(clock))
    <3>1. Record(clock) \subseteq Lines(clock)
      BY DEF Lines
    <3> QED
      BY <1>3, <3>1
  <2>2. tape' \in [lines : Seq(Lines(clock)), nl : BOOLEAN]
    BY <1>1, <2>1
  <2>3. tape'.nl = TRUE
    BY <1>1
  <2>4. ~(mpc' = "partial" /\ mfile')
    BY <1>1
  <2> QED
    BY <1>1, <1>2, <1>3, <2>2, <2>3, <2>4 DEF TapeOK
<1>7. LoadOK'
  BY <1>1, <1>3 DEF LoadOK
<1>8. SeqOK'
  BY <1>1, <1>4 DEF SeqOK
<1>9. AppendedRecordsSurvive'
  <2> SUFFICES ASSUME ~live' PROVE written \subseteq IdsIn(tape')
    BY <1>1 DEF AppendedRecordsSurvive
  <2>1. \A i \in DOMAIN rload : rload[i].ok
    <3>1. \A i \in DOMAIN rload : rload[i] \in Record(clock)
      BY <1>3
    <3>2. \A i \in DOMAIN rload : rload[i].ok = TRUE
      BY <1>2, <3>1, RecordFields
    <3> QED
      BY <3>2
  <2>2. {i \in DOMAIN rload : rload[i].ok} = DOMAIN rload
    BY <2>1
  <2>3. IdsIn(tape') = {rload[i].id : i \in DOMAIN rload}
    BY <1>1, <2>2 DEF IdsIn
  <2> QED
    BY <1>1, <1>4, <2>3
<1>10. Parsable(tape') = rload
  <2>1. Record(clock) \subseteq Parsed
    <3>1. \A e \in Record(clock) : e \in Lines(clock) /\ e.ok
      BY <1>2, RecordFields DEF Lines
    <3> QED
      BY <1>2, <3>1, LineFields
  <2>2. rload \in Seq(Parsed)
    BY <1>3, <2>1
  <2> QED
    BY <1>1, <2>2, ThoseOfAll DEF Parsable
<1>11. Contiguous(Parsable(tape'))
  BY <1>2, <1>3, <1>10, NumberedIsContiguous
<1> QED
  BY <1>5, <1>6, <1>7, <1>8, <1>9, <1>10, <1>11 DEF RecordingInv

LEMMA RepairAgainKeeps ==
  ASSUME RecordingInv, RepairAgain
  PROVE  RecordingInv' /\ tape' = tape
<1>1. /\ UNCHANGED <<tape, clock, mpc, mseq, mfile, written, rquiet, live, rstatus>>
      /\ rpc' = "idle" /\ rload' = << >>
  BY DEF RepairAgain, marketVars
<1>2. ProcessesOK'
  BY <1>1 DEF RecordingInv, ProcessesOK
<1>3. TapeOK' /\ SeqOK' /\ AppendedRecordsSurvive'
  BY <1>1 DEF RecordingInv, TapeOK, Past, SeqOK, AppendedRecordsSurvive
<1>4. LoadOK'
  <2>1. clock \in Nat
    BY DEF RecordingInv, ProcessesOK
  <2>2. << >> \in Seq(Record(clock)) /\ Len(<< >>) = 0 /\ DOMAIN << >> = {}
    OBVIOUS
  <2>3. InOrder(<< >>)
    BY <2>2 DEF InOrder
  <2> QED
    BY <1>1, <2>1, <2>2, <2>3 DEF LoadOK
<1> QED
  BY <1>1, <1>2, <1>3, <1>4 DEF RecordingInv

LEMMA RecordingInit ==
  ASSUME Init
  PROVE  RecordingInv
<1>1. /\ tape \in {EmptyFile} \cup Legacy /\ clock = Len(tape.lines)
      /\ mpc = "idle" /\ mseq = Unset /\ mfile = TRUE /\ written = IdsIn(tape)
      /\ rpc = "idle" /\ rload = << >> /\ rquiet = FALSE /\ live = FALSE /\ rstatus = "none"
  BY DEF Init
<1>2. N \in Nat \ {0}
  BY RecordingAssumption
<1>3. /\ tape \in [lines : Seq([ok : {TRUE}, seq : Nat, id : Nat]), nl : {TRUE}]
      /\ Len(tape.lines) <= N
      /\ \A i \in DOMAIN tape.lines : tape.lines[i].id = i /\ tape.lines[i].seq \in 0 .. i - 1
  <2>1. CASE tape = EmptyFile
    <3>1. tape = [lines |-> << >>, nl |-> TRUE]
      BY <2>1 DEF EmptyFile
    <3>2. << >> \in Seq([ok : {TRUE}, seq : Nat, id : Nat]) /\ Len(<< >>) = 0 /\ DOMAIN << >> = {}
      OBVIOUS
    <3> DEFINE T == Seq([ok : {TRUE}, seq : Nat, id : Nat])
    <3>3. << >> \in T
      BY <3>2
    <3> HIDE DEF T
    <3>4. tape.lines = << >> /\ tape \in [lines : T, nl : {TRUE}]
      BY <3>1, <3>3
    <3>5. Len(tape.lines) = 0 /\ DOMAIN tape.lines = {}
      BY <3>2, <3>4
    <3>6. \A i \in DOMAIN tape.lines : tape.lines[i].id = i /\ tape.lines[i].seq \in 0 .. i - 1
      BY <3>5
    <3>7. Len(tape.lines) <= N
      BY <1>2, <3>5
    <3> QED
      BY <3>4, <3>6, <3>7, Zenon DEF T
  <2>2. CASE tape \in Legacy
    <3>1. tape \in [lines : Seq([ok : {TRUE}, seq : Nat, id : Nat]), nl : {TRUE}]
      BY <2>2, RecordingAssumption, Zenon
    <3>2. /\ Len(tape.lines) \in 1 .. N
          /\ \A i \in DOMAIN tape.lines : tape.lines[i].id = i /\ tape.lines[i].seq \in 0 .. i - 1
      BY <2>2, RecordingAssumption, Zenon
    <3>3. Len(tape.lines) <= N
      BY <1>2, <3>2
    <3> QED
      BY <3>1, <3>2, <3>3
  <2> QED
    BY <1>1, <2>1, <2>2
<1> DEFINE s == tape.lines
<1>4. s \in Seq([ok : {TRUE}, seq : Nat, id : Nat]) /\ DOMAIN s = 1 .. clock /\ clock \in Nat /\ clock <= N
  BY <1>1, <1>2, <1>3
<1>5. \A i \in DOMAIN s : s[i] \in Record(clock) /\ s[i].id = i
  <2> TAKE i \in DOMAIN s
  <2> DEFINE T == [ok : {TRUE}, seq : Nat, id : Nat]
             e == s[i]
  <2>1. i \in 1 .. clock
    BY <1>4
  <2>2. e \in T
    <3>1. s \in Seq(T)
      BY <1>4
    <3> HIDE DEF s, T
    <3> QED
      BY <3>1
  <2>3. e.id = i /\ e.seq \in 0 .. i - 1
    BY <1>3
  <2>4. e.seq \in 0 .. clock - 1 /\ e.id \in 1 .. clock
    BY <1>4, <2>1, <2>3
  <2> HIDE DEF e
  <2>5. e = [ok |-> TRUE, seq |-> e.seq, id |-> e.id]
    BY <2>2
  <2>6. e \in Record(clock)
    BY <1>4, <2>4, <2>5, MakeRecord
  <2> QED
    BY <2>3, <2>6 DEF e
<1>6. s \in Seq(Record(clock)) /\ s \in Seq(Lines(clock))
  <2>1. Record(clock) \subseteq Lines(clock)
    BY DEF Lines
  <2>2. s \in Seq(Record(clock))
    <3> HIDE DEF s
    <3> QED
      BY <1>4, <1>5
  <2> QED
    BY <2>1, <2>2
<1>7. ProcessesOK
  <2>1. IdsIn(tape) \subseteq 1 .. clock
    BY <1>4, <1>5 DEF IdsIn
  <2>2. clock \in 0 .. N
    BY <1>2, <1>4
  <2> QED
    BY <1>1, <2>1, <2>2 DEF ProcessesOK
<1>8. TapeOK
  <2>1. Past = clock
    BY <1>1 DEF Past
  <2>2. tape.nl = TRUE /\ tape = [lines |-> tape.lines, nl |-> tape.nl]
    BY <1>3
  <2>3. tape \in [lines : Seq(Lines(clock)), nl : BOOLEAN]
    BY <1>6, <2>2
  <2>4. InOrder(tape.lines)
    BY <1>4, <1>5 DEF InOrder
  <2> QED
    BY <1>1, <1>4, <2>1, <2>3, <2>4 DEF TapeOK
<1>9. LoadOK
  <2>1. << >> \in Seq(Record(clock)) /\ Len(<< >>) = 0 /\ DOMAIN << >> = {}
    OBVIOUS
  <2>2. InOrder(<< >>)
    BY <2>1 DEF InOrder
  <2> QED
    BY <1>1, <1>4, <2>1, <2>2 DEF LoadOK
<1>10. SeqOK /\ AppendedRecordsSurvive
  BY <1>1 DEF SeqOK, AppendedRecordsSurvive
<1> QED
  BY <1>7, <1>8, <1>9, <1>10 DEF RecordingInv

LEMMA RecordingLeft ==
  ASSUME RecordingInv,
         UNCHANGED <<tape, clock, mpc, mseq, mfile, written, rpc, rload, rquiet, live, rstatus>>
  PROVE  RecordingInv'
BY DEF RecordingInv, ProcessesOK, TapeOK, Past, LoadOK, SeqOK, AppendedRecordsSurvive

\* A step of any of Recording's processes, or of none.
LEMMA RecordingStep ==
  ASSUME RecordingInv, Next \/ UNCHANGED vars
  PROVE  /\ RecordingInv'
         /\ Contiguous(Parsable(tape)) => live' \/ Contiguous(Parsable(tape'))
         /\ MarketNext => IdsIn(tape) \subseteq IdsIn(tape')
<1>1. N \in Nat
  BY RecordingAssumption
<1>2. CASE TickMissed
  BY <1>1, <1>2, TickMissedKeeps DEF TickMissed
<1>3. CASE TickOpen
  <2>1. RecordingInv' /\ Parsable(tape)' = Parsable(tape) /\ IdsIn(tape') = IdsIn(tape)
    BY <1>1, <1>3, TickOpenKeeps
  <2> QED
    BY <2>1
<1>4. CASE TickWriteSome
  <2>1. RecordingInv' /\ Parsable(tape)' = Parsable(tape) /\ IdsIn(tape') = IdsIn(tape)
    BY <1>1, <1>4, TickWriteSomeKeeps
  <2> QED
    BY <2>1
<1>5. CASE TickWritten
  BY <1>1, <1>5, TickWrittenKeeps DEF TickWritten, repairVars
<1>6. CASE MarketCrash
  BY <1>1, <1>6, MarketCrashKeeps DEF MarketCrash, repairVars
<1>7. CASE RepairInspect
  <2>1. RecordingInv' /\ tape' = tape
    BY <1>7, RepairInspectKeeps
  <2> QED
    BY <2>1
<1>8. CASE RepairLoad
  <2>1. RecordingInv' /\ tape' = tape
    BY <1>8, RepairLoadKeeps
  <2> QED
    BY <2>1
<1>9. CASE RepairReplace
  <2>1. ~MarketNext
    BY <1>9 DEF RepairReplace, MarketNext, TickMissed, TickOpen, TickWriteSome, TickWritten,
                MarketCrash, repairVars
  <2> QED
    BY <1>9, <2>1, RepairReplaceKeeps
<1>10. CASE RepairAgain
  <2>1. RecordingInv' /\ tape' = tape
    BY <1>10, RepairAgainKeeps
  <2> QED
    BY <2>1
<1>11. CASE UNCHANGED vars
  <2>1. UNCHANGED <<tape, clock, mpc, mseq, mfile, written, rpc, rload, rquiet, live, rstatus>>
    BY <1>11 DEF vars, marketVars, repairVars
  <2> QED
    BY <2>1, RecordingLeft
<1> QED
  BY <1>2, <1>3, <1>4, <1>5, <1>6, <1>7, <1>8, <1>9, <1>10, <1>11
     DEF Next, MarketNext, RepairNext

LEMMA RecordingInvariant == Spec => []RecordingInv
<1>1. Init => RecordingInv
  BY RecordingInit
<1>2. RecordingInv /\ [Next]_vars => RecordingInv'
  BY RecordingStep
<1> QED
  BY <1>1, <1>2, PTL DEF Spec

-----------------------------------------------------------------------------
(* Recording: the theorems. *)

LEMMA RecordingTypes ==
  ASSUME RecordingInv, crashes \in 0 .. MaxCrashes
  PROVE  TypeOK
<1>1. N \in Nat \ {0}
  BY RecordingAssumption
<1>2. clock \in 0 .. N /\ Past \in Nat /\ Past <= N /\ Past <= clock
  BY <1>1 DEF RecordingInv, ProcessesOK, Past, Unset
<1>3. ASSUME NEW k \in Nat, k <= N PROVE Lines(k) \subseteq Line
  <2> SUFFICES ASSUME NEW e \in Lines(k) PROVE e \in Line
    OBVIOUS
  <2>1. CASE e = Garbled
    <3>1. -1 \in -1 .. N - 1 /\ 0 \in 0 .. N
      BY <1>1
    <3> QED
      BY <2>1, <3>1 DEF Garbled, Line
  <2>2. CASE e \in Record(k)
    <3>1. e.ok = TRUE /\ e.seq \in -1 .. N - 1 /\ e.id \in 0 .. N
      <4>1. e.ok = TRUE /\ e.seq \in 0 .. k - 1 /\ e.id \in 1 .. k
        BY <2>2, RecordFields
      <4> QED
        BY <1>1, <1>3, <4>1
    <3>2. e = [ok |-> e.ok, seq |-> e.seq, id |-> e.id]
      BY <2>2 DEF Record
    <3> QED
      BY <3>1, <3>2 DEF Line
  <2> QED
    BY <2>1, <2>2 DEF Lines
<1>4. tape.lines \in Seq(Line) /\ tape.nl \in BOOLEAN
  <2>1. Lines(Past) \subseteq Line
    BY <1>2, <1>3
  <2>2. tape.lines \in Seq(Lines(Past)) /\ tape.nl \in BOOLEAN
    BY DEF RecordingInv, TapeOK
  <2> QED
    BY <2>1, <2>2
<1>5. rload \in Seq(Line)
  <2>1. Record(clock) \subseteq Line
    BY <1>1, <1>2, <1>3 DEF Lines
  <2> QED
    BY <2>1 DEF RecordingInv, LoadOK
<1>6. written \in SUBSET Ids /\ mseq \in {Unset} \cup 0 .. N
  BY <1>1, <1>2 DEF RecordingInv, ProcessesOK, Ids
<1> QED
  BY <1>4, <1>5, <1>6 DEF RecordingInv, ProcessesOK, TypeOK

\* The files the market service writes and the repair tool rewrites hold only
\* lines of this session, whatever they were when the session began
\* (market_service._tick, repair.repair_recording).
THEOREM RecordingTypeCorrect == Spec => []TypeOK
<1>1. Init => crashes \in 0 .. MaxCrashes
  BY RecordingAssumption DEF Init
<1>2. ASSUME crashes \in 0 .. MaxCrashes, [Next]_vars PROVE (crashes \in 0 .. MaxCrashes)'
  <2>1. MaxCrashes \in Nat
    BY RecordingAssumption
  <2>2. crashes' = crashes \/ (crashes < MaxCrashes /\ crashes' = crashes + 1)
    BY <1>2 DEF Next, MarketNext, RepairNext, TickMissed, TickOpen, TickWriteSome, TickWritten,
                MarketCrash, RepairInspect, RepairLoad, RepairReplace, RepairAgain, vars
  <2> QED
    BY <1>2, <2>1, <2>2
<1>3. RecordingInv /\ crashes \in 0 .. MaxCrashes => TypeOK
  BY RecordingTypes
<1> QED
  BY <1>1, <1>2, <1>3, RecordingInvariant, PTL DEF Spec

\* No crash, at any point of a write, and no repair of a file left alone loses
\* a record whose append returned (_ensure_trailing_newline, repair_recording).
THEOREM RecordsSurvive == Spec => []AppendedRecordsSurvive
<1>1. RecordingInv => AppendedRecordsSurvive
  BY DEF RecordingInv
<1> QED
  BY <1>1, RecordingInvariant, PTL

\* A recording that replay accepts stays one through any number of restarts,
\* since the number a start resumes from is the highest in the file, and that
\* is the last of a sequence without a gap (_next_seq, _last_seq).
THEOREM NoGapFromRestarts == Spec => RestartNeverGaps
<1>1. RecordingInv /\ [Next]_vars
        => [Contiguous(Parsable(tape)) => live' \/ Contiguous(Parsable(tape'))]_vars
  BY RecordingStep
<1> QED
  BY <1>1, RecordingInvariant, PTL DEF Spec, RestartNeverGaps

-----------------------------------------------------------------------------
(* Recording: to its readers, the file is the log.  A record enters it when *)
(* its write ends, or when its writer dies after the last byte but one; a   *)
(* repair of a file left alone renumbers it; every other step is a stutter. *)

LogRecords == [ok : {TRUE}, seq : 0 .. N - 1, id : Ids]

LEMMA HighestOfParsable ==
  ASSUME NEW k \in Nat, NEW f, f.lines \in Seq(Lines(k)), NEW m, Highest(f.lines, m)
  PROVE  Highest(Parsable(f), m)
<1> DEFINE t == Parsable(f)
           s == f.lines
<1>1. /\ \A n \in DOMAIN t : \E i \in DOMAIN s : s[i].ok /\ t[n] = s[i]
      /\ \A i \in DOMAIN s : s[i].ok => \E n \in DOMAIN t : t[n] = s[i]
  BY ParsableIs
<1>2. \A i \in DOMAIN s : s[i].seq # -1 => s[i].ok
  <2> TAKE i \in DOMAIN s
  <2>1. s[i] \in Lines(k)
    OBVIOUS
  <2>2. CASE s[i] = Garbled
    BY <2>2 DEF Garbled
  <2>3. CASE s[i] \in Record(k)
    BY <2>3, RecordFields
  <2> QED
    BY <2>1, <2>2, <2>3 DEF Lines
<1>3. Highest(s, m)
  OBVIOUS
<1> HIDE DEF t, s
<1>4. \A n \in DOMAIN t : t[n].seq <= m
  BY <1>1, <1>3 DEF Highest
<1>5. m = -1 \/ \E n \in DOMAIN t : t[n].seq = m
  BY <1>1, <1>2, <1>3 DEF Highest
<1> QED
  BY <1>3, <1>4, <1>5 DEF Highest, t

\* What a reader finds in a file of the session.
LEMMA ReadsLog ==
  ASSUME NEW k \in 0 .. N, NEW f, f.lines \in Seq(Lines(k)), InOrder(f.lines)
  PROVE  /\ Parsable(f) \in Seq(LogRecords) /\ Log!Ordered(Parsable(f))
         /\ Log!TicksIn(Parsable(f)) = IdsIn(f)
<1>1. N \in Nat /\ k \in Nat /\ k <= N
  BY RecordingAssumption
<1> DEFINE t == Parsable(f)
<1>2. t \in Seq(Record(k)) /\ InOrder(t) /\ IdsIn(f) = {t[n].id : n \in DOMAIN t}
  BY <1>1, ParsableIs, IdsOfParsable
<1> HIDE DEF t
<1>3. Record(k) \subseteq LogRecords
  <2> SUFFICES ASSUME NEW e \in Record(k) PROVE e \in LogRecords
    OBVIOUS
  <2>1. PICK q \in 0 .. k - 1, d \in 1 .. k : e = [ok |-> TRUE, seq |-> q, id |-> d]
    BY DEF Record
  <2>2. q \in 0 .. N - 1 /\ d \in Ids
    BY <1>1 DEF Ids
  <2> QED
    BY <2>1, <2>2 DEF LogRecords
<1>4. t \in Seq(LogRecords)
  BY <1>2, <1>3
<1>5. \A i \in DOMAIN t : t[i].ok = TRUE
  <2> TAKE i \in DOMAIN t
  <2>1. t[i] \in Record(k)
    BY <1>2
  <2> QED
    BY <1>1, <2>1, RecordFields
<1>6. Log!Ordered(t)
  BY <1>2, <1>5 DEF Log!Ordered, InOrder
<1> QED
  BY <1>2, <1>4, <1>6 DEF t, Log!TicksIn

LEMMA TapeIsLog ==
  ASSUME RecordingInv
  PROVE  /\ Past \in 0 .. N /\ tape.lines \in Seq(Lines(Past)) /\ InOrder(tape.lines)
         /\ Parsable(tape) \in Seq(LogRecords) /\ Log!Ordered(Parsable(tape))
         /\ Log!TicksIn(Parsable(tape)) = IdsIn(tape)
<1>1. N \in Nat \ {0}
  BY RecordingAssumption
<1>2. Past \in 0 .. N
  BY <1>1 DEF RecordingInv, ProcessesOK, Past, Unset
<1>3. tape.lines \in Seq(Lines(Past)) /\ InOrder(tape.lines)
  BY DEF RecordingInv, TapeOK
<1> QED
  BY <1>2, <1>3, ReadsLog

\* The repair tool's records are the log renumbered, while the market process
\* leaves the file alone.
LoadIsCurrent == rpc = "loaded" /\ rquiet => rload = Renumber(Parsable(tape))

LEMMA LoadStaysCurrent ==
  ASSUME RecordingInv, LoadIsCurrent, Next \/ UNCHANGED vars
  PROVE  LoadIsCurrent'
<1>1. rpc = "loaded" /\ rquiet => mpc = "idle"
  BY DEF RecordingInv, LoadOK
<1>2. CASE RepairLoad
  BY <1>2 DEF RepairLoad, LoadIsCurrent
<1>3. CASE TickOpen
  BY <1>3 DEF TickOpen, LoadIsCurrent
<1>4. CASE RepairInspect \/ RepairReplace \/ RepairAgain
  BY <1>4 DEF RepairInspect, RepairReplace, RepairAgain, LoadIsCurrent
<1>5. CASE TickMissed \/ TickWriteSome \/ TickWritten \/ MarketCrash
  <2>1. UNCHANGED <<rpc, rload, rquiet>>
    BY <1>5 DEF TickMissed, TickWriteSome, TickWritten, MarketCrash, repairVars
  <2>2. mpc = "idle" => tape' = tape
    BY <1>5 DEF TickMissed, TickWriteSome, TickWritten, MarketCrash
  <2> QED
    BY <1>1, <2>1, <2>2 DEF LoadIsCurrent
<1>6. CASE UNCHANGED vars
  BY <1>6 DEF vars, repairVars, LoadIsCurrent
<1> QED
  BY <1>2, <1>3, <1>4, <1>5, <1>6 DEF Next, MarketNext, RepairNext

LEMMA RecordEnters ==
  ASSUME RecordingInv, live = FALSE, live' = FALSE,
         mpc # "idle", mfile = TRUE,
         NEW b \in Seq(Lines(clock - 1)), Len(b) <= clock - 1, InOrder(b),
         tape.lines = b \/ tape.lines = Append(b, Garbled),
         tape'.lines = Append(b, MarketRecord),
         written' = written \/ written' = written \cup {clock}
  PROVE  \E r \in LogRecords : Log!Enter(r)
<1>1. N \in Nat /\ clock \in 1 .. N /\ mseq \in 1 .. clock /\ ProcessesOK
  BY RecordingAssumption DEF RecordingInv, ProcessesOK, Unset
<1>2. MarketRecord = [ok |-> TRUE, seq |-> mseq - 1, id |-> clock]
  BY DEF MarketRecord, Entry
<1>3. MarketRecord \in LogRecords /\ MarketRecord.seq = mseq - 1 /\ MarketRecord.id = clock
  BY <1>1, <1>2 DEF LogRecords, Ids
<1>4. /\ Parsable(tape') = Append(Parsable(tape), MarketRecord)
      /\ Highest(tape.lines, mseq - 2)
      /\ \A t \in IdsIn(tape) : t < clock
  <2> HIDE DEF MarketRecord
  <2> QED
    BY <1>1, LandingKeeps
<1>5. /\ Past \in Nat /\ tape.lines \in Seq(Lines(Past))
      /\ Parsable(tape) \in Seq(LogRecords) /\ Log!TicksIn(Parsable(tape)) = IdsIn(tape)
  BY <1>1, TapeIsLog
<1>6. Highest(Parsable(tape), mseq - 2)
  BY <1>4, <1>5, HighestOfParsable
<1>7. Log!NextNumber(mseq - 1)
  <2> DEFINE t == Parsable(tape)
  <2>1. \A i \in DOMAIN t : t[i].seq \in Int
    <3>1. \A i \in DOMAIN t : t[i] \in LogRecords
      BY <1>5
    <3>2. \A e \in LogRecords : e.seq \in 0 .. N - 1
      BY DEF LogRecords
    <3>3. 0 .. N - 1 \subseteq Int
      BY <1>1
    <3> QED
      BY <3>1, <3>2, <3>3
  <2>2. /\ \A i \in DOMAIN t : t[i].seq <= mseq - 2
        /\ mseq - 2 = -1 \/ \E i \in DOMAIN t : t[i].seq = mseq - 2
    BY <1>6 DEF Highest
  <2> HIDE DEF t
  <2>3. /\ \A i \in DOMAIN t : t[i].seq < mseq - 1
        /\ mseq - 1 = 0 \/ \E i \in DOMAIN t : t[i].seq = (mseq - 1) - 1
    BY <1>1, <2>1, <2>2
  <2> QED
    BY <2>3 DEF Log!NextNumber, t
<1> HIDE DEF MarketRecord
<1>8. Log!Enter(MarketRecord)
  BY <1>3, <1>4, <1>5, <1>7 DEF Log!Enter
<1> QED
  BY <1>3, <1>8

LEMMA RecordingRefines ==
  ASSUME RecordingInv, LoadIsCurrent, Next \/ UNCHANGED vars
  PROVE  Log!Next \/ UNCHANGED <<Parsable(tape), written, live>>
<1>1. N \in Nat /\ live \in BOOLEAN
  BY RecordingAssumption DEF RecordingInv, ProcessesOK
<1>2. RecordingInv'
  BY RecordingStep
<1>3. live' \in BOOLEAN /\ (live => live') /\ written \subseteq written'
  <2>1. live' \in BOOLEAN
    BY <1>2 DEF RecordingInv, ProcessesOK
  <2>2. live => live'
    BY DEF Next, MarketNext, RepairNext, TickMissed, TickOpen, TickWriteSome, TickWritten,
           MarketCrash, RepairInspect, RepairLoad, RepairReplace, RepairAgain, vars, repairVars
  <2>3. written \subseteq written'
    BY DEF Next, MarketNext, RepairNext, TickMissed, TickOpen, TickWriteSome, TickWritten,
           MarketCrash, RepairInspect, RepairLoad, RepairReplace, RepairAgain, vars, marketVars
  <2> QED
    BY <2>1, <2>2, <2>3
<1>4. CASE live'
  <2>1. Past' \in 0 .. N /\ tape'.lines \in Seq(Lines(Past')) /\ InOrder(tape'.lines)
    <3>1. tape'.lines \in Seq(Lines(Past')) /\ InOrder(tape'.lines)
      BY <1>2 DEF RecordingInv, TapeOK
    <3>2. clock' \in 0 .. N /\ (mpc' # "idle" => mseq' \in 1 .. clock')
      BY <1>2 DEF RecordingInv, ProcessesOK
    <3>3. CASE mpc' = "idle"
      <4>1. Past' = clock'
        BY <3>3 DEF Past
      <4> QED
        BY <3>1, <3>2, <4>1
    <3>4. CASE mpc' # "idle"
      <4>1. Past' = clock' \/ Past' = clock' - 1
        BY DEF Past
      <4>2. clock' \in 1 .. N
        BY <1>1, <3>2, <3>4
      <4> DEFINE p == Past'
      <4>3. p = clock' \/ p = clock' - 1
        BY <4>1
      <4> HIDE DEF p
      <4>4. p \in 0 .. N
        BY <1>1, <4>2, <4>3
      <4> QED
        BY <3>1, <4>4 DEF p
    <3> QED
      BY <3>3, <3>4
  <2>2. Parsable(tape') \in Seq(LogRecords) /\ Log!Ordered(Parsable(tape'))
    BY <2>1, ReadsLog
  <2>3. Log!Break
    BY <1>3, <1>4, <2>2 DEF Log!Break, LogRecords
  <2> QED
    BY <2>3 DEF Log!Next
<1>5. CASE ~live'
  <2>1. live = FALSE /\ live' = FALSE /\ mfile = TRUE
    BY <1>1, <1>3, <1>5 DEF RecordingInv, ProcessesOK
  <2>2. CASE TickMissed \/ RepairInspect \/ RepairLoad \/ RepairAgain \/ UNCHANGED vars
    <3>1. UNCHANGED <<tape, written>>
      BY <2>2 DEF TickMissed, RepairInspect, RepairLoad, RepairAgain, vars, marketVars
    <3> QED
      BY <2>1, <3>1
  <2>3. CASE TickOpen
    <3>1. Parsable(tape)' = Parsable(tape) /\ written' = written
      BY <1>1, <2>3, TickOpenKeeps DEF TickOpen
    <3> QED
      BY <2>1, <3>1
  <2>4. CASE TickWriteSome
    <3>1. Parsable(tape)' = Parsable(tape) /\ written' = written
      BY <1>1, <2>4, TickWriteSomeKeeps DEF TickWriteSome
    <3> QED
      BY <2>1, <3>1
  <2>5. CASE TickWritten
    <3>1. mpc # "idle" /\ written' = written \cup {clock}
      BY <2>5 DEF TickWritten
    <3>2. PICK b \in Seq(Lines(clock - 1)) :
            /\ Len(b) <= clock - 1 /\ InOrder(b)
            /\ tape.lines = b \/ tape.lines = Append(b, Garbled)
            /\ tape' = [lines |-> Append(b, MarketRecord), nl |-> TRUE]
      BY <1>1, <2>1, <2>5, WrittenLands
    <3> HIDE DEF MarketRecord
    <3>3. tape'.lines = Append(b, MarketRecord)
      BY <3>2
    <3>4. \E r \in LogRecords : Log!Enter(r)
      BY <2>1, <3>1, <3>2, <3>3, RecordEnters
    <3> QED
      BY <3>4 DEF Log!Next, LogRecords
  <2>6. CASE MarketCrash
    <3>1. written' = written
      BY <2>6 DEF MarketCrash
    <3>2. CASE tape' = tape
      BY <2>1, <3>1, <3>2
    <3>3. CASE /\ mpc = "partial"
               /\ tape' = [tape EXCEPT !.lines[Len(tape.lines)] = MarketRecord]
      <4>1. PICK b \in Seq(Lines(clock - 1)) :
              /\ Len(b) <= clock - 1 /\ InOrder(b)
              /\ tape.lines = Append(b, Garbled)
              /\ tape' = [lines |-> Append(b, MarketRecord), nl |-> tape.nl]
        BY <1>1, <2>1, <3>3, DeathLands
      <4> HIDE DEF MarketRecord
      <4>2. mpc # "idle"
        BY <3>3
      <4>3. tape'.lines = Append(b, MarketRecord)
        BY <4>1
      <4>4. \E r \in LogRecords : Log!Enter(r)
        BY <2>1, <3>1, <4>1, <4>2, <4>3, RecordEnters
      <4> QED
        BY <4>4 DEF Log!Next, LogRecords
    <3> QED
      BY <2>6, <3>2, <3>3 DEF MarketCrash
  <2>7. CASE RepairReplace
    <3>1. /\ rpc = "loaded" /\ written' = written /\ tape'.lines = rload
          /\ live' = (live \/ ~rquiet)
      BY <2>7 DEF RepairReplace
    <3>2. rload = Renumber(Parsable(tape))
      BY <1>5, <3>1 DEF LoadIsCurrent
    <3>3. Parsable(tape') = Renumber(Parsable(tape))
      BY <2>7, <3>2, RepairReplaceKeeps
    <3>4. Log!Renumbered
      BY <2>1, <3>1, <3>3 DEF Log!Renumbered, Renumber
    <3> QED
      BY <3>4 DEF Log!Next
  <2> QED
    BY <2>2, <2>3, <2>4, <2>5, <2>6, <2>7 DEF Next, MarketNext, RepairNext
<1> QED
  BY <1>4, <1>5

LEMMA RecordingStartsAsLog == Init => Log!Init
<1> SUFFICES ASSUME Init PROVE Log!Init
  OBVIOUS
<1>1. RecordingInv /\ written = IdsIn(tape) /\ live = FALSE
  BY RecordingInit DEF Init
<1>2. /\ Parsable(tape) \in Seq(LogRecords) /\ Log!Ordered(Parsable(tape))
      /\ Log!TicksIn(Parsable(tape)) = IdsIn(tape)
  BY <1>1, TapeIsLog
<1> QED
  BY <1>1, <1>2 DEF Log!Init, LogRecords

\* A file written in pieces by processes that die and resume is, to those who
\* read it, a log that grows by whole records, each numbered one after the
\* highest, and that a repair of a file left alone only renumbers (_tick,
\* _next_seq, repair_recording).
THEOREM RecordingIsALog == Spec => ImplementsLog
<1>1. Init => LoadIsCurrent
  BY DEF Init, LoadIsCurrent
<1>2. RecordingInv /\ LoadIsCurrent /\ [Next]_vars => LoadIsCurrent'
  BY LoadStaysCurrent
<1>3. RecordingInv /\ LoadIsCurrent /\ [Next]_vars
        => [Log!Next]_<<Parsable(tape), written, live>>
  BY RecordingRefines
<1> QED
  BY <1>1, <1>2, <1>3, RecordingStartsAsLog, RecordingInvariant, PTL DEF Spec, ImplementsLog, Log!Spec

-----------------------------------------------------------------------------
(* Artifact files. *)

ArtifactRecords == [ok : {TRUE}, seq : Nat, id : 0 .. N]
ArtifactLines == ArtifactRecords \cup {Garbled}
Files == [lines : Seq(ArtifactLines), nl : BOOLEAN]

Intact(f) == \A i \in DOMAIN f.lines : f.lines[i].ok
OnceEach(f) ==
  \A i, j \in DOMAIN f.lines :
    f.lines[i].ok /\ f.lines[j].ok /\ f.lines[i].id = f.lines[j].id => i = j

\* A file and the next number its writer remembers for it.
FileOK(f, cached) ==
  /\ f \in Files /\ cached \in {Unset} \cup Nat
  /\ f.nl = FALSE => f.lines # << >>
  /\ Intact(f) => \A i \in DOMAIN f.lines : f.lines[i].seq = i - 1
  /\ Intact(f) /\ cached # Unset => cached = Len(f.lines)

LEMMA ArtifactLineFields ==
  ASSUME NEW e \in ArtifactLines
  PROVE  /\ e.ok \in BOOLEAN
         /\ e.ok <=> e \in ArtifactRecords
         /\ e.ok => e.seq \in Nat /\ e.id \in 0 .. N
<1>1. CASE e = Garbled
  <2>1. e.ok = FALSE
    BY <1>1 DEF Garbled
  <2>2. \A x \in ArtifactRecords : x.ok = TRUE
    BY DEF ArtifactRecords
  <2>3. e \notin ArtifactRecords
    BY <2>1, <2>2
  <2> QED
    BY <2>1, <2>3, Zenon
<1>2. CASE e \in ArtifactRecords
  <2>1. e.ok = TRUE /\ e.seq \in Nat /\ e.id \in 0 .. N
    BY <1>2 DEF ArtifactRecords
  <2> QED
    BY <1>2, <2>1, Zenon
<1> QED
  BY <1>1, <1>2 DEF ArtifactLines

LEMMA IntactOrDamaged ==
  ASSUME NEW f \in Files
  PROVE  Intact(f) <=> ~Damaged(f)
BY DEF Intact, Damaged

\* f with the line e at its end, and what the readers make of it.
OneMore(f, e, b, g) ==
  /\ g \in Files /\ g.nl = b /\ g.lines = Append(f.lines, e)
  /\ Len(g.lines) = Len(f.lines) + 1
  /\ Damaged(f) => Damaged(g)
  /\ IdsIn(g) = IF e.ok THEN IdsIn(f) \cup {e.id} ELSE IdsIn(f)
  /\ ~e.ok => Damaged(g)
  /\ Intact(g) <=> Intact(f) /\ e.ok
  /\ OnceEach(f) /\ (e.ok => e.id \notin IdsIn(f)) => OnceEach(g)

\* A write at the end of a file that ends in a newline.
LEMMA WriteAtEnd ==
  ASSUME NEW f \in Files, f.nl = TRUE, NEW e \in ArtifactLines, NEW b, b \in BOOLEAN,
         NEW g, g = WriteLine(f, e, b)
  PROVE  OneMore(f, e, b, g)
<1> DEFINE s == f.lines
           r == g.lines
<1>1. s \in Seq(ArtifactLines) /\ g = [lines |-> Append(s, e), nl |-> b]
  <2>1. f \in [lines : Seq(ArtifactLines), nl : BOOLEAN]
    BY DEF Files
  <2>2. s \in Seq(ArtifactLines)
    BY <2>1
  <2>3. WriteLine(f, e, b) = [lines |-> Append(s, e), nl |-> b]
    <3> HIDE DEF s
    <3>1. f.nl = TRUE => WriteLine(f, e, b) = [lines |-> Append(f.lines, e), nl |-> b]
      BY Zenon DEF WriteLine
    <3> QED
      BY <3>1 DEF s
  <2> QED
    BY <2>2, <2>3
<1>2. r = Append(s, e) /\ g.nl = b /\ r \in Seq(ArtifactLines)
  BY <1>1
<1>3. g \in Files
  <2> HIDE DEF s
  <2> QED
    BY <1>1, <1>2 DEF Files
<1>4. /\ DOMAIN s = 1 .. Len(s) /\ DOMAIN r = 1 .. Len(s) + 1 /\ r[Len(s) + 1] = e
      /\ Len(r) = Len(s) + 1
      /\ \A i \in DOMAIN s : i \in DOMAIN r /\ r[i] = s[i]
      /\ \A i \in DOMAIN r : i \in DOMAIN s \/ i = Len(s) + 1
      /\ Len(s) + 1 \in DOMAIN r
  BY <1>1, <1>2
<1>5. IdsIn(g) = IF e.ok THEN IdsIn(f) \cup {e.id} ELSE IdsIn(f)
  <2>1. f.lines \in Seq(ArtifactLines) /\ g.lines = Append(f.lines, e)
    BY <1>1, <1>2
  <2> QED
    BY <2>1, IdsOfOneMore
<1> HIDE DEF s, r
<1>6. (Damaged(f) => Damaged(g)) /\ (~e.ok => Damaged(g)) /\ (Intact(g) <=> Intact(f) /\ e.ok)
  BY <1>4 DEF Damaged, Intact, s, r
<1>7. ASSUME OnceEach(f), e.ok => e.id \notin IdsIn(f) PROVE OnceEach(g)
  <2>1. \A i, j \in DOMAIN s : s[i].ok /\ s[j].ok /\ s[i].id = s[j].id => i = j
    BY <1>7 DEF OnceEach, s
  <2>2. e.ok => \A i \in DOMAIN s : s[i].ok => s[i].id # e.id
    BY <1>7 DEF IdsIn, s
  <2>3. \A i, j \in DOMAIN r : r[i].ok /\ r[j].ok /\ r[i].id = r[j].id => i = j
    BY <1>4, <2>1, <2>2
  <2> QED
    BY <2>3 DEF OnceEach, r
<1>8. Len(g.lines) = Len(f.lines) + 1
  BY <1>4 DEF s, r
<1> QED
  BY <1>2, <1>3, <1>5, <1>6, <1>7, <1>8, Zenon DEF OneMore, s, r

\* A write that runs into an unterminated line.
LEMMA WriteIntoLine ==
  ASSUME NEW f \in Files, f.nl = FALSE, f.lines # << >>, NEW e \in ArtifactLines, NEW b, b \in BOOLEAN,
         NEW g, g = WriteLine(f, e, b)
  PROVE  /\ g \in Files /\ g.nl = b /\ g.lines # << >> /\ Damaged(g)
         /\ IdsIn(g) \subseteq IdsIn(f)
         /\ OnceEach(f) => OnceEach(g)
<1> DEFINE s == f.lines
           r == [s EXCEPT ![Len(s)] = Garbled]
<1>1. s \in Seq(ArtifactLines) /\ s # << >>
  BY DEF Files
<1>2. g = [lines |-> r, nl |-> b]
  BY Zenon DEF WriteLine
<1>3. Garbled \in ArtifactLines /\ Garbled.ok = FALSE
  BY DEF ArtifactLines, Garbled
<1>4. /\ r \in Seq(ArtifactLines) /\ Len(r) = Len(s) /\ DOMAIN r = DOMAIN s /\ Len(s) \in DOMAIN s
      /\ r[Len(s)] = Garbled
      /\ \A i \in DOMAIN s : i # Len(s) => r[i] = s[i]
  <2> HIDE DEF s
  <2> QED
    BY <1>1, <1>3
<1> HIDE DEF r, s
<1>5. g.lines = r /\ g.nl = b /\ g \in Files /\ r # << >>
  <2>1. g.lines = r /\ g.nl = b
    BY <1>2
  <2>2. g \in Files
    BY <1>2, <1>4 DEF Files
  <2>3. r # << >>
    BY <1>1, <1>4
  <2> QED
    BY <2>1, <2>2, <2>3
<1>6. Damaged(g)
  BY <1>3, <1>4, <1>5 DEF Damaged
<1>7. \A i \in DOMAIN r : r[i].ok => i \in DOMAIN s /\ r[i] = s[i]
  BY <1>3, <1>4
<1>8. IdsIn(g) \subseteq IdsIn(f)
  <2>1. \A x : x \in IdsIn(g) <=> \E i \in DOMAIN r : r[i].ok /\ x = r[i].id
    BY <1>5 DEF IdsIn
  <2>2. \A x : x \in IdsIn(f) <=> \E i \in DOMAIN s : s[i].ok /\ x = s[i].id
    BY DEF IdsIn, s
  <2> QED
    BY <1>7, <2>1, <2>2
<1>9. ASSUME OnceEach(f) PROVE OnceEach(g)
  <2>1. \A i, j \in DOMAIN s : s[i].ok /\ s[j].ok /\ s[i].id = s[j].id => i = j
    BY <1>9 DEF OnceEach, s
  <2>2. \A i, j \in DOMAIN r : r[i].ok /\ r[j].ok /\ r[i].id = r[j].id => i = j
    BY <1>7, <2>1
  <2> QED
    BY <1>5, <2>2 DEF OnceEach
<1> QED
  BY <1>5, <1>6, <1>8, <1>9

\* StageArtifactStore._next_seq.
LEMMA SeqAfterLastIs ==
  ASSUME NEW f \in Files
  PROVE  /\ SeqAfterLast(f) \in Nat
         /\ Intact(f) /\ (\A i \in DOMAIN f.lines : f.lines[i].seq = i - 1)
              => SeqAfterLast(f) = Len(f.lines)
<1> DEFINE s == f.lines
           read == {i \in DOMAIN s : s[i].ok}
<1>1. s \in Seq(ArtifactLines) /\ DOMAIN s = 1 .. Len(s) /\ Len(s) \in Nat
  BY DEF Files
<1>2. \A i \in DOMAIN s : s[i].ok => s[i].seq \in Nat
  <2> TAKE i \in DOMAIN s
  <2>1. s[i] \in ArtifactLines
    BY <1>1
  <2> QED
    BY <2>1, ArtifactLineFields
<1>3. CASE read = {}
  <2>1. SeqAfterLast(f) = 0
    BY <1>3 DEF SeqAfterLast
  <2>2. Intact(f) => DOMAIN s = {}
    BY <1>3 DEF Intact
  <2>3. Intact(f) => Len(s) = 0
    BY <1>1, <2>2
  <2> QED
    BY <2>1, <2>3
<1>4. CASE read # {}
  <2> DEFINE last == CHOOSE i \in read : \A j \in read : j <= i
  <2>1. SeqAfterLast(f) = s[last].seq + 1
    BY <1>4 DEF SeqAfterLast
  <2>2. \E i \in read : \A j \in read : j <= i
    <3>1. Len(s) \in Int /\ read \in SUBSET Int /\ \A i \in read : i <= Len(s)
      BY <1>1
    <3> HIDE DEF read
    <3> QED
      BY <1>4, <3>1, GreatestNumber
  <2>3. last \in read /\ \A j \in read : j <= last
    <3> HIDE DEF read
    <3> QED
      BY <2>2
  <2> HIDE DEF last
  <2>4. SeqAfterLast(f) \in Nat
    BY <1>2, <2>1, <2>3
  <2>5. ASSUME Intact(f), \A i \in DOMAIN s : s[i].seq = i - 1
        PROVE  SeqAfterLast(f) = Len(s)
    <3>1. read = DOMAIN s
      BY <2>5 DEF Intact
    <3>2. Len(s) \in read /\ last \in 1 .. Len(s)
      BY <1>1, <2>3, <3>1
    <3>3. last = Len(s)
      BY <1>1, <2>3, <3>2
    <3> QED
      BY <1>1, <2>1, <2>5, <3>1, <3>2, <3>3
  <2> QED
    BY <2>4, <2>5
<1> QED
  BY <1>3, <1>4

\* StageArtifactStore.append, whole or but for its newline.
LEMMA RecordWritten ==
  ASSUME N \in Nat, NEW f, NEW cached, FileOK(f, cached), NEW id \in 0 .. N, NEW b \in BOOLEAN,
         NEW e, e = ArtifactRecord(cached, f, id), NEW g, g = WriteLine(f, e, b)
  PROVE  /\ e \in ArtifactRecords /\ e.seq \in Nat /\ e.id = id /\ e.ok
         /\ FileOK(g, e.seq + 1) /\ FileOK(g, Unset) /\ g.lines # << >>
         /\ Damaged(f) => Damaged(g)
         /\ Damaged(g) \/ (IdsIn(f) \subseteq IdsIn(g) /\ id \in IdsIn(g))
         /\ IdsIn(g) \subseteq IdsIn(f) \cup {id}
         /\ OnceEach(f) /\ id \notin IdsIn(f) => OnceEach(g)
         /\ Intact(f) /\ f.nl = TRUE => Intact(g) /\ g.nl = b
<1> DEFINE q == NextArtifactSeq(cached, f)
<1>1. f \in Files /\ cached \in {Unset} \cup Nat /\ (f.nl = FALSE => f.lines # << >>)
  BY DEF FileOK
<1>2. q \in Nat
  BY <1>1, SeqAfterLastIs DEF NextArtifactSeq, Unset
<1>3. Intact(f) => q = Len(f.lines)
  BY <1>1, SeqAfterLastIs DEF NextArtifactSeq, FileOK
<1>4. e = [ok |-> TRUE, seq |-> q, id |-> id]
  BY DEF ArtifactRecord, Entry
<1> HIDE DEF q
<1>5. e \in ArtifactRecords /\ e \in ArtifactLines /\ e.seq = q /\ e.id = id /\ e.ok = TRUE
  BY <1>2, <1>4 DEF ArtifactRecords, ArtifactLines
<1>6. q + 1 \in {Unset} \cup Nat /\ Unset \in {Unset} \cup Nat
  BY <1>2 DEF Unset
<1>7. CASE f.nl = TRUE
  <2>1. /\ g \in Files /\ g.nl = b /\ g.lines = Append(f.lines, e)
        /\ Len(g.lines) = Len(f.lines) + 1
        /\ Damaged(f) => Damaged(g)
        /\ IdsIn(g) = IdsIn(f) \cup {id}
        /\ Intact(g) <=> Intact(f)
        /\ OnceEach(f) /\ id \notin IdsIn(f) => OnceEach(g)
    <3>1. /\ g \in Files /\ g.nl = b /\ g.lines = Append(f.lines, e)
          /\ Len(g.lines) = Len(f.lines) + 1
          /\ Damaged(f) => Damaged(g)
          /\ IdsIn(g) = IF e.ok THEN IdsIn(f) \cup {e.id} ELSE IdsIn(f)
          /\ Intact(g) <=> Intact(f) /\ e.ok
          /\ OnceEach(f) /\ (e.ok => e.id \notin IdsIn(f)) => OnceEach(g)
      <4>1. e \in ArtifactLines
        BY <1>5
      <4>2. OneMore(f, e, b, g)
        BY <1>1, <1>7, <4>1, WriteAtEnd
      <4> QED
        BY <4>2, Zenon DEF OneMore
    <3>2. e.ok /\ e.id = id
      BY <1>5
    <3> QED
      BY <3>1, <3>2, Zenon
  <2>2. f.lines \in Seq(ArtifactLines) /\ Len(f.lines) \in Nat
    BY <1>1 DEF Files
  <2>3. g.lines # << >>
    BY <2>1, <2>2
  <2>4. ASSUME Intact(g)
        PROVE  (\A i \in DOMAIN g.lines : g.lines[i].seq = i - 1) /\ q + 1 = Len(g.lines)
    <3>1. q = Len(f.lines) /\ \A i \in DOMAIN f.lines : f.lines[i].seq = i - 1
      BY <1>3, <2>1, <2>4 DEF FileOK
    <3> DEFINE s == f.lines
               r == Append(s, e)
    <3>2. /\ DOMAIN s = 1 .. Len(s) /\ r[Len(s) + 1] = e
          /\ \A i \in DOMAIN s : r[i] = s[i]
          /\ \A i \in DOMAIN r : i \in DOMAIN s \/ i = Len(s) + 1
      BY <1>5, <2>2
    <3> HIDE DEF s, r
    <3>3. \A i \in DOMAIN s : s[i].seq = i - 1
      BY <3>1 DEF s
    <3>4. Len(s) \in Nat /\ e.seq = Len(s)
      BY <1>5, <2>2, <3>1 DEF s
    <3>5. \A i \in DOMAIN r : r[i].seq = i - 1
      BY <3>2, <3>3, <3>4
    <3> QED
      BY <2>1, <3>1, <3>5 DEF r, s
  <2>5. FileOK(g, q + 1)
    BY <1>6, <2>1, <2>3, <2>4 DEF FileOK
  <2>6. FileOK(g, Unset)
    BY <1>6, <2>1, <2>3, <2>4 DEF FileOK
  <2> QED
    BY <1>2, <1>5, <2>1, <2>3, <2>5, <2>6
<1>8. CASE f.nl = FALSE
  <2>1. /\ g \in Files /\ g.nl = b /\ g.lines # << >> /\ Damaged(g)
        /\ IdsIn(g) \subseteq IdsIn(f)
        /\ OnceEach(f) => OnceEach(g)
    BY <1>1, <1>5, <1>8, WriteIntoLine
  <2>2. ~Intact(g)
    BY <2>1, IntactOrDamaged
  <2>3. FileOK(g, q + 1)
    BY <1>6, <2>1, <2>2 DEF FileOK
  <2>4. FileOK(g, Unset)
    BY <1>6, <2>1, <2>2 DEF FileOK
  <2>5. ~(f.nl = TRUE)
    BY <1>8
  <2> QED
    BY <1>2, <1>5, <2>1, <2>3, <2>4, <2>5
<1>9. f.nl \in BOOLEAN
  BY <1>1 DEF Files
<1> QED
  BY <1>7, <1>8, <1>9

\* An append cut short before the end of its record.
LEMMA FragmentWritten ==
  ASSUME NEW f, NEW cached, FileOK(f, cached), NEW g, g = WriteLine(f, Garbled, FALSE)
  PROVE  FileOK(g, Unset) /\ Damaged(g) /\ IdsIn(g) \subseteq IdsIn(f) /\ (OnceEach(f) => OnceEach(g))
         /\ g.lines # << >>
<1>1. f \in Files /\ (f.nl = FALSE => f.lines # << >>) /\ f.nl \in BOOLEAN
  BY DEF FileOK, Files
<1>2. Garbled \in ArtifactLines /\ ~Garbled.ok
  BY DEF ArtifactLines, Garbled
<1>3. /\ g \in Files /\ Damaged(g) /\ IdsIn(g) \subseteq IdsIn(f) /\ (OnceEach(f) => OnceEach(g))
      /\ g.lines # << >>
  <2>1. CASE f.nl = TRUE
    <3>1. /\ g \in Files /\ Len(g.lines) = Len(f.lines) + 1 /\ Damaged(g)
          /\ IdsIn(g) = IdsIn(f) /\ (OnceEach(f) => OnceEach(g))
      <4>1. OneMore(f, Garbled, FALSE, g)
        BY <1>1, <1>2, <2>1, WriteAtEnd
      <4> QED
        BY <1>2, <4>1 DEF OneMore
    <3>2. f.lines \in Seq(ArtifactLines) /\ Len(f.lines) \in Nat
      BY <1>1 DEF Files
    <3> DEFINE n == Len(f.lines)
               l == g.lines
    <3>3. n \in Nat /\ Len(l) = n + 1
      BY <3>1, <3>2, Zenon
    <3> HIDE DEF n, l
    <3>4. l # << >>
      BY <3>3
    <3> QED
      BY <3>1, <3>4 DEF l
  <2>2. CASE f.nl = FALSE
    BY <1>1, <1>2, <2>2, WriteIntoLine
  <2> QED
    BY <1>1, <2>1, <2>2
<1>4. ~Intact(g)
  BY <1>3, IntactOrDamaged
<1> QED
  BY <1>3, <1>4 DEF FileOK

-----------------------------------------------------------------------------
(* The journal. *)

LEMMA JournaledIs ==
  ASSUME NEW events \in [Events -> Nat], Cap \in [EventTypes -> Nat \ {0}],
         \A e \in Events : events[e] <= Cap[e[1]],
         NEW type \in EventTypes, NEW id \in 0 .. N,
         NEW after, after = Journaled(events, type, id)
  PROVE  /\ after \in [Events -> Nat]
         /\ \A e \in Events : after[e] <= Cap[e[1]] /\ events[e] <= after[e]
         /\ \A e \in Events : e # <<type, id>> => after[e] = events[e]
         /\ after[<<type, id>>] > 0
         /\ after[<<type, id>>] <= events[<<type, id>>] + 1
<1> DEFINE k == <<type, id>>
<1>1. k \in Events /\ k[1] = type
  BY DEF Events
<1>2. Cap[type] \in Nat \ {0}
  OBVIOUS
<1>3. after = [events EXCEPT ![k] = IF events[k] < Cap[type] THEN events[k] + 1 ELSE events[k]]
  BY DEF Journaled
<1> HIDE DEF k
<1>4. events[k] \in Nat /\ events[k] <= Cap[type]
  BY <1>1
<1>5. after \in [Events -> Nat] /\ \A e \in Events : e # k => after[e] = events[e]
  BY <1>1, <1>3, <1>4
<1>6. after[k] = IF events[k] < Cap[type] THEN events[k] + 1 ELSE events[k]
  BY <1>1, <1>3
<1>7. after[k] > 0 /\ after[k] <= events[k] + 1 /\ after[k] <= Cap[type] /\ events[k] <= after[k]
  BY <1>2, <1>4, <1>6
<1>8. \A e \in Events : after[e] <= Cap[e[1]] /\ events[e] <= after[e]
  <2> TAKE e \in Events
  <2>1. CASE e = k
    BY <1>1, <1>7, <2>1
  <2>2. CASE e # k
    <3>1. after[e] = events[e] /\ events[e] \in Nat
      BY <1>5, <2>2
    <3> QED
      BY <3>1
  <2> QED
    BY <2>1, <2>2
<1> QED
  BY <1>5, <1>7, <1>8 DEF k

-----------------------------------------------------------------------------
(* Pipeline: the inductive invariant. *)

Distinct(s) == \A i, j \in DOMAIN s : s[i] = s[j] => i = j
InSeq(s) == {s[i] : i \in DOMAIN s}

\* One process of Recording runs here, and no repair.
Unrepaired ==
  /\ RecordingInv /\ crashes \in 0 .. MaxCrashes
  /\ rpc = "idle" /\ live = FALSE /\ mfile = TRUE

JournalOK ==
  /\ journal \in [Events -> Nat]
  /\ \A e \in Events : journal[e] <= Cap[e[1]]

FilesOK ==
  /\ arts \in [Stages -> Files]
  /\ eseq \in [EngineStages -> {Unset} \cup Nat]
  /\ \A s \in EngineStages : FileOK(arts[s], eseq[s])
  /\ FileOK(arts["settlements"], sseq)
  /\ crashes = 0 => \A s \in Stages : arts[s].nl = TRUE /\ Intact(arts[s])

\* The snapshot whose universe is on disk and not yet in the journal.
Underway == IF epc = "universe" THEN {cur} ELSE {}

EngineOK ==
  /\ epc \in EnginePC /\ feed \in Seq(Ids) /\ (epc = "idle" <=> feed = << >>)
  /\ done \in SUBSET Ids /\ loaded \in BOOLEAN
  /\ Distinct(feed) /\ \A id \in InSeq(feed) : id \notin done
  /\ epc # "idle" => loaded
  /\ loaded => IdsIn(arts["candidates"]) \subseteq done \cup Underway
  /\ loaded => \A id \in Ids : Count("candidates_generated", id) > 0 => id \in done

UniversesOK ==
  /\ IdsIn(arts["candidates"]) \subseteq Ids /\ OnceEach(arts["candidates"])
  /\ \/ Damaged(arts["candidates"])
     \/ /\ \A id \in Ids : Count("candidates_generated", id) > 0 => id \in IdsIn(arts["candidates"])
        /\ Underway \subseteq IdsIn(arts["candidates"])
  /\ \A id \in Ids : Count("candidates_generated", id) <= 1

Over == clock >= RolloverAt \/ \E last \in IdsIn(tape) : last >= CloseAt

SettlementOK ==
  /\ spc \in {"idle", "read", "outcomes", "artifact", "marker"}
  /\ settled \in BOOLEAN /\ blocked \in SUBSET Ids
  /\ todo \in Seq(Ids) /\ (spc \in {"read", "outcomes"} <=> todo # << >>)
  /\ settled <=> Count("outcome_settled", SessionKey) > 0
  /\ spc # "idle" => ~settled
  /\ Count("outcome_settled", SessionKey) <= 1
  /\ todo # << >> => InSeq(todo) \subseteq IdsIn(tape) /\ Over
  /\ spc = "outcomes" => InSeq(todo) \subseteq Generated
  /\ spc \in {"outcomes", "artifact", "marker"} =>
       \A id \in blocked : id \in InSeq(todo) \/ Count("counterfactual_settled", id) > 0
  /\ spc = "marker" => arts["settlements"].lines # << >>

\* While no process dies, a pass is the first to settle what it settles.
FirstPassOK ==
  /\ Distinct(todo)
  /\ crashes = 0 => \A id \in Ids :
       /\ Count("counterfactual_settled", id) <= 1
       /\ Count("counterfactual_settled", id) > 0 =>
            settled \/ (spc \in {"outcomes", "artifact", "marker"} /\ id \notin InSeq(todo))

PipelineInv ==
  /\ Unrepaired /\ JournalOK /\ FilesOK /\ EngineOK /\ UniversesOK
  /\ SettlementOK /\ FirstPassOK /\ OutcomesAreEarned

LEMMA SeqParts ==
  ASSUME NEW T, NEW s \in Seq(T), s # << >>
  PROVE  /\ Head(s) \in T /\ Head(s) \in InSeq(s)
         /\ Tail(s) \in Seq(T) /\ InSeq(Tail(s)) \subseteq InSeq(s)
         /\ Len(s) = 1 <=> Tail(s) = << >>
         /\ \A x \in InSeq(s) : x = Head(s) \/ x \in InSeq(Tail(s))
         /\ Distinct(s) => Distinct(Tail(s)) /\ Head(s) \notin InSeq(Tail(s))
<1> DEFINE h == Head(s)
           t == Tail(s)
<1>1. /\ Len(s) \in Nat \ {0} /\ DOMAIN s = 1 .. Len(s)
      /\ h = s[1] /\ h \in T /\ t \in Seq(T) /\ Len(t) = Len(s) - 1 /\ DOMAIN t = 1 .. Len(s) - 1
      /\ \A i \in 1 .. Len(s) - 1 : t[i] = s[i + 1]
  OBVIOUS
<1>2. Len(s) = 1 <=> t = << >>
  BY <1>1
<1> HIDE DEF h, t
<1>3. 1 \in DOMAIN s /\ \A i \in DOMAIN t : i + 1 \in DOMAIN s /\ t[i] = s[i + 1] /\ i + 1 # 1
  BY <1>1
<1>4. \A i \in DOMAIN s : i = 1 \/ (i - 1 \in DOMAIN t /\ t[i - 1] = s[i])
  BY <1>1
<1>5. h \in InSeq(s) /\ InSeq(t) \subseteq InSeq(s) /\ \A x \in InSeq(s) : x = h \/ x \in InSeq(t)
  BY <1>1, <1>3, <1>4 DEF InSeq
<1>6. ASSUME Distinct(s) PROVE Distinct(t) /\ h \notin InSeq(t)
  <2>1. \A i, j \in DOMAIN t : t[i] = t[j] => i = j
    <3> TAKE i, j \in DOMAIN t
    <3> HAVE t[i] = t[j]
    <3>1. i + 1 = j + 1
      BY <1>3, <1>6 DEF Distinct
    <3> QED
      BY <1>1, <3>1
  <2>2. \A i \in DOMAIN t : t[i] # h
    BY <1>1, <1>3, <1>6 DEF Distinct
  <2> QED
    BY <2>1, <2>2 DEF Distinct, InSeq
<1> QED
  BY <1>1, <1>2, <1>5, <1>6 DEF h, t

LEMMA EmptySeqParts ==
  ASSUME NEW T
  PROVE  << >> \in Seq(T) /\ InSeq(<< >>) = {} /\ Distinct(<< >>)
<1>1. << >> \in Seq(T) /\ DOMAIN << >> = {}
  OBVIOUS
<1> QED
  BY <1>1 DEF InSeq, Distinct

\* What Those keeps of a sequence without repetitions.
LEMMA ThoseDistinct ==
  ASSUME NEW T, NEW S, NEW s \in Seq(T)
  PROVE  /\ Those(s, S) \in Seq(T)
         /\ InSeq(Those(s, S)) = InSeq(s) \cap S
         /\ Distinct(s) => Distinct(Those(s, S))
<1> DEFINE t == Those(s, S)
<1>1. t \in Seq(T) /\ Picked(t, s, S, Len(s))
  BY ThosePicked
<1>2. /\ \A k \in DOMAIN t : \E j \in DOMAIN s : s[j] \in S /\ t[k] = s[j]
      /\ \A j \in DOMAIN s : s[j] \in S => \E k \in DOMAIN t : t[k] = s[j]
  BY ThoseFound
<1> HIDE DEF t
<1>3. InSeq(t) = InSeq(s) \cap S
  <2>1. \A x : x \in InSeq(t) <=> x \in InSeq(s) /\ x \in S
    BY <1>2 DEF InSeq
  <2> QED
    BY <2>1
<1>4. ASSUME Distinct(s) PROVE Distinct(t)
  <2>1. PICK h : Finds(h, t, s, S, Len(s))
    BY <1>1 DEF Picked
  <2>2. DOMAIN t = 1 .. Len(t) /\ DOMAIN s = 1 .. Len(s) /\ Len(t) \in Nat /\ Len(s) \in Nat
    BY <1>1
  <2>3. \A k \in DOMAIN t : h[k] \in DOMAIN s /\ t[k] = s[h[k]]
    BY <2>1, <2>2 DEF Finds
  <2>4. \A k, l \in DOMAIN t : k < l => h[k] < h[l]
    BY <2>1, <2>2 DEF Finds
  <2> SUFFICES ASSUME NEW k \in DOMAIN t, NEW l \in DOMAIN t, t[k] = t[l]
               PROVE  k = l
    BY DEF Distinct
  <2>5. h[k] = h[l]
    BY <1>4, <2>3 DEF Distinct
  <2>6. ~(k < l) /\ ~(l < k)
    BY <2>2, <2>3, <2>4, <2>5
  <2> QED
    BY <2>2, <2>6
<1> QED
  BY <1>1, <1>3, <1>4 DEF t

-----------------------------------------------------------------------------
(* Pipeline: steps of the journal and of an artifact file. *)

LEMMA Constants ==
  /\ N \in Nat \ {0} /\ Ids = 1 .. N /\ Ids \subseteq 0 .. N /\ SessionKey \in 0 .. N
  /\ MaxCrashes \in Nat /\ CloseAt \in Nat \ {0} /\ RolloverAt \in Nat
  /\ Cap \in [EventTypes -> Nat \ {0}]
BY RecordingAssumption, PipelineAssumption DEF Ids, SessionKey

LEMMA CountsAreNumbers ==
  ASSUME JournalOK, NEW type \in EventTypes, NEW id \in 0 .. N
  PROVE  Count(type, id) \in Nat
<1>1. <<type, id>> \in Events
  BY DEF Events
<1> QED
  BY <1>1 DEF JournalOK, Count

\* One event, and every other count as it was.
LEMMA EventJournaled ==
  ASSUME JournalOK, NEW type \in EventTypes, NEW id \in 0 .. N,
         journal' = Journaled(journal, type, id)
  PROVE  /\ JournalOK'
         /\ \A t \in EventTypes, i \in 0 .. N :
              /\ Count(t, i) \in Nat /\ Count(t, i)' \in Nat /\ Count(t, i) <= Count(t, i)'
              /\ t # type \/ i # id => Count(t, i)' = Count(t, i)
         /\ Count(type, id)' > 0 /\ Count(type, id)' <= Count(type, id) + 1
<1>1. /\ journal' \in [Events -> Nat]
      /\ \A e \in Events : journal'[e] <= Cap[e[1]] /\ journal[e] <= journal'[e]
      /\ \A e \in Events : e # <<type, id>> => journal'[e] = journal[e]
      /\ journal'[<<type, id>>] > 0
      /\ journal'[<<type, id>>] <= journal[<<type, id>>] + 1
  <2>1. /\ journal \in [Events -> Nat] /\ \A e \in Events : journal[e] <= Cap[e[1]]
        /\ Cap \in [EventTypes -> Nat \ {0}]
    BY Constants DEF JournalOK
  <2> DEFINE after == journal'
  <2>2. after = Journaled(journal, type, id)
    OBVIOUS
  <2> HIDE DEF after
  <2>3. /\ after \in [Events -> Nat]
        /\ \A e \in Events : after[e] <= Cap[e[1]] /\ journal[e] <= after[e]
        /\ \A e \in Events : e # <<type, id>> => after[e] = journal[e]
        /\ after[<<type, id>>] > 0
        /\ after[<<type, id>>] <= journal[<<type, id>>] + 1
    BY <2>1, <2>2, JournaledIs
  <2> QED
    BY <2>3 DEF after
<1>2. JournalOK'
  BY <1>1 DEF JournalOK
<1>3. ASSUME NEW t \in EventTypes, NEW i \in 0 .. N
      PROVE  /\ Count(t, i) \in Nat /\ Count(t, i)' \in Nat /\ Count(t, i) <= Count(t, i)'
             /\ t # type \/ i # id => Count(t, i)' = Count(t, i)
  <2> DEFINE e == <<t, i>>
  <2>1. e \in Events
    BY DEF Events
  <2>2. t # type \/ i # id => e # <<type, id>>
    OBVIOUS
  <2> HIDE DEF e
  <2>3. journal[e] \in Nat /\ journal'[e] \in Nat /\ journal[e] <= journal'[e]
    BY <1>1, <2>1 DEF JournalOK
  <2>4. e # <<type, id>> => journal'[e] = journal[e]
    BY <1>1, <2>1
  <2> QED
    BY <2>2, <2>3, <2>4 DEF Count, e
<1> QED
  BY <1>1, <1>2, <1>3 DEF Count

LEMMA JournalLeft ==
  ASSUME JournalOK, UNCHANGED journal
  PROVE  /\ JournalOK'
         /\ \A t \in EventTypes, i \in 0 .. N : Count(t, i) \in Nat /\ Count(t, i)' = Count(t, i)
BY CountsAreNumbers DEF JournalOK, Count

\* Neither the market service nor the engine undoes what settlement relies on.
SettlementLeft ==
  /\ UNCHANGED <<spc, settled, blocked, todo, sseq>>
  /\ \A i \in 0 .. N :
       /\ Count("counterfactual_settled", i)' = Count("counterfactual_settled", i)
       /\ Count("outcome_settled", i)' = Count("outcome_settled", i)
       /\ Count("candidates_generated", i) <= Count("candidates_generated", i)'
  /\ IdsIn(tape) \subseteq IdsIn(tape')
  /\ clock \in Nat /\ clock' \in Nat /\ clock <= clock'
  /\ arts'["settlements"] = arts["settlements"]
  /\ crashes' = 0 => crashes = 0

LEMMA SettlementStays ==
  ASSUME JournalOK, JournalOK', SettlementOK, FirstPassOK, OutcomesAreEarned, UniversesOK',
         SettlementLeft
  PROVE  SettlementOK' /\ FirstPassOK' /\ OutcomesAreEarned'
<1>1. /\ UNCHANGED <<spc, settled, blocked, todo, sseq>>
      /\ SessionKey \in 0 .. N /\ Ids \subseteq 0 .. N
      /\ IdsIn(tape) \subseteq IdsIn(tape')
      /\ arts'["settlements"] = arts["settlements"]
  BY Constants DEF SettlementLeft
<1>2. \A i \in 0 .. N :
        /\ Count("counterfactual_settled", i)' = Count("counterfactual_settled", i)
        /\ Count("outcome_settled", i)' = Count("outcome_settled", i)
  BY DEF SettlementLeft
<1>3. \A i \in Ids : /\ Count("candidates_generated", i) \in Nat /\ Count("candidates_generated", i)' \in Nat
                     /\ Count("candidates_generated", i) <= Count("candidates_generated", i)'
                     /\ Count("candidates_generated", i)' <= 1
  <2> TAKE i \in Ids
  <2>1. i \in 0 .. N /\ "candidates_generated" \in EventTypes
    BY <1>1 DEF EventTypes
  <2>2. Count("candidates_generated", i) \in Nat
    BY <2>1, CountsAreNumbers
  <2>3. Count("candidates_generated", i)' \in Nat
    <3>1. <<"candidates_generated", i>> \in Events
      BY <2>1 DEF Events
    <3> QED
      BY <3>1 DEF JournalOK, Count
  <2> QED
    BY <2>1, <2>2, <2>3 DEF SettlementLeft, UniversesOK
<1>4. Generated \subseteq Generated'
  BY <1>3 DEF Generated
<1>5. Over => Over'
  BY <1>1, Constants DEF Over, SettlementLeft
<1>6. SettlementOK'
  <2>1. todo # << >> => InSeq(todo) \subseteq IdsIn(tape') /\ Over'
    BY <1>1, <1>5 DEF SettlementOK
  <2>2. spc = "outcomes" => InSeq(todo) \subseteq Generated'
    BY <1>4 DEF SettlementOK
  <2>3. \A id \in blocked : Count("counterfactual_settled", id)' = Count("counterfactual_settled", id)
    BY <1>1, <1>2 DEF SettlementOK
  <2>4. Count("outcome_settled", SessionKey)' = Count("outcome_settled", SessionKey)
    BY <1>1, <1>2
  <2> QED
    BY <1>1, <2>1, <2>2, <2>3, <2>4 DEF SettlementOK
<1>7. FirstPassOK'
  <2>1. \A id \in Ids : Count("counterfactual_settled", id)' = Count("counterfactual_settled", id)
    BY <1>1, <1>2
  <2> QED
    BY <1>1, <2>1 DEF FirstPassOK, SettlementLeft
<1>8. OutcomesAreEarned'
  <2> SUFFICES ASSUME NEW id \in Ids, Count("counterfactual_settled", id)' > 0
               PROVE  /\ Count("candidates_generated", id)' = 1
                      /\ id \in IdsIn(tape')
                      /\ Over'
    BY DEF OutcomesAreEarned, Over
  <2>1. Count("counterfactual_settled", id) > 0
    BY <1>1, <1>2
  <2>2. Count("candidates_generated", id) = 1 /\ id \in IdsIn(tape) /\ Over
    BY <2>1 DEF OutcomesAreEarned, Over
  <2> QED
    BY <1>1, <1>3, <1>5, <2>2
<1> QED
  BY <1>6, <1>7, <1>8

-----------------------------------------------------------------------------
(* Pipeline: a turn of the market service. *)

LEMMA MarketTurnKeeps ==
  ASSUME PipelineInv, MarketTurn
  PROVE  PipelineInv'
<1>1. /\ UNCHANGED <<arts, journal, epc, feed, done, loaded, bundle, eseq,
                     spc, settled, blocked, todo, sseq>>
      /\ MarketNext
  BY DEF MarketTurn, engineVars, settlementVars
<1>2. RecordingInv' /\ IdsIn(tape) \subseteq IdsIn(tape')
  BY <1>1, RecordingStep DEF PipelineInv, Unrepaired, Next
<1>3. /\ UNCHANGED <<rpc, live>> /\ mfile' \in {mfile, TRUE}
      /\ clock' \in {clock, clock + 1}
      /\ crashes' = crashes \/ (crashes < MaxCrashes /\ crashes' = crashes + 1)
  BY <1>1 DEF MarketNext, TickMissed, TickOpen, TickWriteSome, TickWritten, MarketCrash,
              marketVars, repairVars
<1>4. clock \in Nat /\ clock' \in Nat /\ clock <= clock'
  BY <1>3 DEF PipelineInv, Unrepaired, RecordingInv, ProcessesOK
<1>5. crashes' \in 0 .. MaxCrashes /\ (crashes' = 0 => crashes = 0)
  BY <1>3, Constants DEF PipelineInv, Unrepaired
<1>6. Unrepaired'
  BY <1>2, <1>3, <1>5 DEF PipelineInv, Unrepaired
<1>7. JournalOK' /\ \A t \in EventTypes, i \in 0 .. N : Count(t, i) \in Nat /\ Count(t, i)' = Count(t, i)
  BY <1>1, JournalLeft DEF PipelineInv
<1>8. FilesOK'
  BY <1>1, <1>5 DEF PipelineInv, FilesOK
<1>9. EngineOK' /\ UniversesOK'
  BY <1>1 DEF PipelineInv, EngineOK, UniversesOK, Underway, cur, Count
<1>10. SettlementLeft
  <2>1. {"counterfactual_settled", "outcome_settled", "candidates_generated"} \subseteq EventTypes
    BY DEF EventTypes
  <2>2. \A i \in 0 .. N :
          /\ Count("counterfactual_settled", i)' = Count("counterfactual_settled", i)
          /\ Count("outcome_settled", i)' = Count("outcome_settled", i)
          /\ Count("candidates_generated", i) <= Count("candidates_generated", i)'
    BY <1>7, <2>1
  <2> QED
    BY <1>1, <1>2, <1>4, <1>5, <2>2 DEF SettlementLeft
<1>11. SettlementOK' /\ FirstPassOK' /\ OutcomesAreEarned'
  BY <1>7, <1>9, <1>10, SettlementStays DEF PipelineInv
<1> QED
  BY <1>6, <1>7, <1>8, <1>9, <1>11 DEF PipelineInv

-----------------------------------------------------------------------------
(* Pipeline: a turn of the engine. *)

LEMMA StageNames ==
  /\ Stages = EngineStages \cup {"settlements"} /\ "settlements" \notin EngineStages
  /\ "candidates" \in EngineStages /\ "candidates" # "settlements"
BY DEF Stages, EngineStages

\* One file of the engine's rewritten.
LEMMA FilesAfter ==
  ASSUME FilesOK, NEW stage \in EngineStages, NEW g, NEW q,
         arts' = [arts EXCEPT ![stage] = g], FileOK(g, q),
         eseq' \in [EngineStages -> {Unset} \cup Nat],
         eseq'[stage] = q, \A s \in EngineStages : s # stage => FileOK(arts[s], eseq'[s]),
         sseq' = sseq,
         crashes' = 0 => crashes = 0 /\ g.nl = TRUE /\ Intact(g)
  PROVE  FilesOK'
<1>1. /\ arts \in [Stages -> Files] /\ stage \in Stages /\ "settlements" \in Stages
      /\ stage # "settlements" /\ EngineStages \subseteq Stages
  BY StageNames DEF FilesOK
<1>2. g \in Files
  BY DEF FileOK
<1>3. arts' \in [Stages -> Files] /\ arts'[stage] = g /\ \A s \in Stages : s # stage => arts'[s] = arts[s]
  BY <1>1, <1>2
<1>4. \A s \in EngineStages : FileOK(arts'[s], eseq'[s])
  BY <1>1, <1>3
<1>5. FileOK(arts'["settlements"], sseq')
  BY <1>1, <1>3 DEF FilesOK
<1>6. ASSUME crashes' = 0 PROVE \A s \in Stages : arts'[s].nl = TRUE /\ Intact(arts'[s])
  <2>1. \A s \in Stages : arts[s].nl = TRUE /\ Intact(arts[s])
    BY <1>6 DEF FilesOK
  <2> QED
    BY <1>3, <1>6, <2>1
<1> QED
  BY <1>3, <1>4, <1>5, <1>6 DEF FilesOK

\* What the candidate artifacts may become in one step about snapshot id.
CandidatesGrow(id) ==
  LET C == arts["candidates"]
  IN  /\ Damaged(C) => Damaged(C')
      /\ Damaged(C') \/ (IdsIn(C) \subseteq IdsIn(C') /\ id \in IdsIn(C'))
      /\ IdsIn(C') \subseteq IdsIn(C) \cup {id}
      /\ OnceEach(C) /\ id \notin IdsIn(C) => OnceEach(C')

LEMMA ArtifactAppended ==
  ASSUME FilesOK, NEW stage \in EngineStages, cur \in Ids, AppendArtifact(stage),
         UNCHANGED <<sseq, crashes>>
  PROVE  /\ FilesOK'
         /\ arts'["settlements"] = arts["settlements"]
         /\ stage # "candidates" => arts'["candidates"] = arts["candidates"]
         /\ stage = "candidates" => CandidatesGrow(cur)
<1> DEFINE f == arts[stage]
           e == ArtifactRecord(eseq[stage], f, cur)
           g == WriteLine(f, e, TRUE)
           q == e.seq + 1
<1>1. /\ arts' = [arts EXCEPT ![stage] = g]
      /\ eseq' = [eseq EXCEPT ![stage] = q]
  BY DEF AppendArtifact, AppendRecord
<1>2. /\ arts \in [Stages -> Files] /\ stage \in Stages /\ FileOK(f, eseq[stage])
      /\ eseq \in [EngineStages -> {Unset} \cup Nat]
      /\ {"candidates", "settlements"} \subseteq Stages /\ stage # "settlements"
      /\ N \in Nat /\ cur \in 0 .. N
  BY Constants, StageNames DEF FilesOK
<1>3. /\ e.seq \in Nat /\ FileOK(g, q)
      /\ Damaged(f) => Damaged(g)
      /\ Damaged(g) \/ (IdsIn(f) \subseteq IdsIn(g) /\ cur \in IdsIn(g))
      /\ IdsIn(g) \subseteq IdsIn(f) \cup {cur}
      /\ OnceEach(f) /\ cur \notin IdsIn(f) => OnceEach(g)
      /\ Intact(f) /\ f.nl = TRUE => Intact(g) /\ g.nl = TRUE
  <2> DEFINE cached == eseq[stage]
             id == cur
  <2>1. /\ FileOK(f, cached) /\ id \in 0 .. N /\ N \in Nat /\ TRUE \in BOOLEAN
        /\ e = ArtifactRecord(cached, f, id) /\ g = WriteLine(f, e, TRUE)
    BY <1>2
  <2> HIDE DEF f, e, g, cached, id
  <2>2. e.seq \in Nat
    <3>1. f \in Files /\ cached \in {Unset} \cup Nat
      BY <2>1 DEF FileOK
    <3>2. NextArtifactSeq(cached, f) \in Nat
      BY <3>1, SeqAfterLastIs DEF NextArtifactSeq, Unset
    <3> QED
      BY <2>1, <3>2 DEF ArtifactRecord, Entry
  <2>3. FileOK(g, e.seq + 1)
    BY <2>1, RecordWritten
  <2>4. Damaged(f) => Damaged(g)
    BY <2>1, RecordWritten
  <2>5. Damaged(g) \/ (IdsIn(f) \subseteq IdsIn(g) /\ id \in IdsIn(g))
    BY <2>1, RecordWritten
  <2>6. IdsIn(g) \subseteq IdsIn(f) \cup {id}
    BY <2>1, RecordWritten
  <2>7. OnceEach(f) /\ id \notin IdsIn(f) => OnceEach(g)
    BY <2>1, RecordWritten
  <2>8. Intact(f) /\ f.nl = TRUE => Intact(g) /\ g.nl = TRUE
    BY <2>1, RecordWritten
  <2> QED
    BY <2>2, <2>3, <2>4, <2>5, <2>6, <2>7, <2>8 DEF id, q
<1> HIDE DEF e, g
<1>4. q \in Nat
  BY <1>3
<1> HIDE DEF q
<1>5. arts'[stage] = g /\ \A s \in Stages : s # stage => arts'[s] = arts[s]
  BY <1>1, <1>2
<1>6. /\ eseq' \in [EngineStages -> {Unset} \cup Nat] /\ eseq'[stage] = q
      /\ \A s \in EngineStages : s # stage => eseq'[s] = eseq[s]
  BY <1>1, <1>2, <1>4
<1>7. FilesOK'
  <2>1. \A s \in EngineStages : s # stage => FileOK(arts[s], eseq'[s])
    BY <1>6 DEF FilesOK
  <2>2. crashes' = 0 => crashes = 0 /\ g.nl = TRUE /\ Intact(g)
    BY <1>2, <1>3 DEF FilesOK
  <2> QED
    BY <1>1, <1>3, <1>6, <2>1, <2>2, FilesAfter
<1>8. stage = "candidates" => CandidatesGrow(cur)
  BY <1>3, <1>5 DEF CandidatesGrow
<1> QED
  BY <1>2, <1>5, <1>7, <1>8

\* What a reader of the whole recording gets from it.
LEMMA TapeReads ==
  ASSUME RecordingInv
  PROVE  /\ tape.lines # << >> => Len(tape.lines) \in DOMAIN tape.lines
         /\ \A i \in DOMAIN tape.lines : tape.lines[i].ok => tape.lines[i].id \in Ids
         /\ Readable(tape) =>
              /\ TapeIds \in Seq(Ids) /\ Distinct(TapeIds) /\ InSeq(TapeIds) = IdsIn(tape)
              /\ TapeIds = << >> <=> tape.lines = << >>
<1> DEFINE s == tape.lines
<1>1. Past \in Nat /\ Past <= N
  BY RecordingAssumption DEF RecordingInv, ProcessesOK, Past, Unset
<1>2. s \in Seq(Lines(Past)) /\ DOMAIN s = 1 .. Len(s) /\ Len(s) \in Nat /\ InOrder(s)
  BY DEF RecordingInv, TapeOK
<1> HIDE DEF s
<1>3. s # << >> => Len(s) \in DOMAIN s
  BY <1>2
<1>4. \A i \in DOMAIN s : s[i].ok => s[i].id \in Ids
  <2> TAKE i \in DOMAIN s
  <2>1. s[i] \in Lines(Past)
    BY <1>2
  <2>2. s[i].ok => s[i].id \in 1 .. Past
    BY <1>1, <2>1, LineFields
  <2>3. 1 .. Past \subseteq Ids
    BY <1>1, RecordingAssumption DEF Ids
  <2> QED
    BY <2>2, <2>3
<1>5. ASSUME Readable(tape)
      PROVE  /\ TapeIds \in Seq(Ids) /\ Distinct(TapeIds) /\ InSeq(TapeIds) = IdsIn(tape)
             /\ TapeIds = << >> <=> tape.lines = << >>
  <2>1. \A i \in DOMAIN s : s[i].ok
    BY <1>5 DEF Readable, s
  <2> DEFINE t == [i \in DOMAIN s |-> s[i].id]
  <2>2. t \in [1 .. Len(s) -> Ids]
    BY <1>2, <1>4, <2>1
  <2>3. t \in Seq(Ids) /\ Len(t) = Len(s) /\ DOMAIN t = DOMAIN s
    <3>1. t \in Seq(Ids)
      BY <1>2, <2>2
    <3>2. DOMAIN t = 1 .. Len(s)
      BY <1>2
    <3> HIDE DEF t
    <3> QED
      BY <1>2, <3>1, <3>2
  <2>4. \A i, j \in DOMAIN t : t[i] = t[j] => i = j
    <3> SUFFICES ASSUME NEW i \in DOMAIN s, NEW j \in DOMAIN s, s[i].id = s[j].id
                 PROVE  i = j
      OBVIOUS
    <3>1. i \in Nat /\ j \in Nat /\ s[i].id \in Int
      BY <1>2, <1>4, <2>1, RecordingAssumption DEF Ids
    <3>2. ~(i < j) /\ ~(j < i)
      BY <1>2, <2>1, <3>1 DEF InOrder
    <3> QED
      BY <3>1, <3>2
  <2>5. \A x : x \in InSeq(t) <=> x \in IdsIn(tape)
    BY <2>1 DEF InSeq, IdsIn, s
  <2>6. TapeIds = t
    BY DEF TapeIds, s
  <2>7. Distinct(t) /\ InSeq(t) = IdsIn(tape)
    BY <2>4, <2>5 DEF Distinct
  <2>8. t = << >> <=> s = << >>
    <3> HIDE DEF t
    <3> QED
      BY <1>2, <2>3
  <2> QED
    BY <2>3, <2>6, <2>7, <2>8 DEF s
<1> QED
  BY <1>3, <1>4, <1>5 DEF s

\* The snapshot the engine is at.
LEMMA Current ==
  ASSUME EngineOK, epc # "idle"
  PROVE  cur \in Ids /\ cur \in InSeq(feed) /\ cur \notin done /\ feed # << >> /\ loaded = TRUE
<1>1. feed \in Seq(Ids) /\ feed # << >> /\ loaded = TRUE /\ \A id \in InSeq(feed) : id \notin done
  BY DEF EngineOK
<1>2. Head(feed) \in Ids /\ Head(feed) \in InSeq(feed)
  BY <1>1, SeqParts
<1> QED
  BY <1>1, <1>2 DEF cur

LEMMA NextSnapshotIs ==
  ASSUME EngineOK, epc # "idle", NextSnapshot
  PROVE  /\ epc' \in {"idle", "scan"} /\ feed' \in Seq(Ids) /\ (epc' = "idle" <=> feed' = << >>)
         /\ Distinct(feed') /\ InSeq(feed') \subseteq InSeq(feed) /\ cur \notin InSeq(feed')
<1>1. feed \in Seq(Ids) /\ feed # << >> /\ Distinct(feed)
  BY Current DEF EngineOK
<1> DEFINE t == Tail(feed)
<1>2. /\ t \in Seq(Ids) /\ InSeq(t) \subseteq InSeq(feed) /\ Distinct(t) /\ cur \notin InSeq(t)
      /\ Len(feed) = 1 <=> t = << >>
  BY <1>1, SeqParts DEF cur
<1>3. feed' = t /\ epc' = IF Len(feed) = 1 THEN "idle" ELSE "scan"
  BY DEF NextSnapshot
<1> HIDE DEF t
<1> QED
  BY <1>2, <1>3

\* What no turn of the engine touches.
LEMMA EngineTurnLeaves ==
  ASSUME PipelineInv, EngineTurn
  PROVE  /\ Unrepaired'
         /\ UNCHANGED <<tape, clock, spc, settled, blocked, todo, sseq>>
         /\ crashes' = 0 => crashes = 0
<1>1. /\ UNCHANGED <<tape, clock, mpc, mseq, mfile, written, rpc, rload, rquiet, live, rstatus>>
      /\ UNCHANGED <<spc, settled, blocked, todo, sseq>>
  BY DEF EngineTurn, EngineNext, EngineStep, recordingVars, marketVars, repairVars, settlementVars,
         BeginPass, RejectSnapshot, FeatureStageFails, WriteFeatures, JournalFeatures,
         JournalFailedFamilies, ForecastUnavailable, WriteForecast, JournalForecast,
         RejectCandidates, WriteCandidates, JournalCandidates, EngineCrash
<1>2. crashes' = crashes \/ (crashes < MaxCrashes /\ crashes' = crashes + 1)
  BY DEF EngineTurn, EngineNext, EngineStep,
         BeginPass, RejectSnapshot, FeatureStageFails, WriteFeatures, JournalFeatures,
         JournalFailedFamilies, ForecastUnavailable, WriteForecast, JournalForecast,
         RejectCandidates, WriteCandidates, JournalCandidates, EngineCrash
<1>3. RecordingInv'
  BY <1>1, RecordingLeft DEF PipelineInv, Unrepaired
<1>4. crashes' \in 0 .. MaxCrashes /\ (crashes' = 0 => crashes = 0)
  BY <1>2, Constants DEF PipelineInv, Unrepaired
<1> QED
  BY <1>1, <1>3, <1>4 DEF PipelineInv, Unrepaired

\* The events the invariant counts.
Counted == {"candidates_generated", "counterfactual_settled", "outcome_settled"}
CountsLeft == \A t \in Counted, i \in 0 .. N : Count(t, i)' = Count(t, i)

LEMMA OtherEventJournaled ==
  ASSUME JournalOK, NEW type \in EventTypes \ Counted, NEW id \in Ids,
         journal' = Journaled(journal, type, id)
  PROVE  JournalOK' /\ CountsLeft
<1>1. Counted \subseteq EventTypes /\ id \in 0 .. N
  BY Constants DEF Counted, EventTypes
<1>2. JournalOK' /\ \A t \in EventTypes, i \in 0 .. N : t # type => Count(t, i)' = Count(t, i)
  BY <1>1, EventJournaled
<1> QED
  BY <1>1, <1>2 DEF CountsLeft

LEMMA NothingJournaled ==
  ASSUME JournalOK, UNCHANGED journal
  PROVE  JournalOK' /\ CountsLeft
BY JournalLeft DEF CountsLeft, Counted, EventTypes

\* The rest of the invariant after a turn of the engine.
LEMMA EngineTurnRest ==
  ASSUME PipelineInv, EngineTurn, JournalOK', FilesOK', EngineOK', UniversesOK',
         \A i \in 0 .. N :
           /\ Count("counterfactual_settled", i)' = Count("counterfactual_settled", i)
           /\ Count("outcome_settled", i)' = Count("outcome_settled", i)
           /\ Count("candidates_generated", i) <= Count("candidates_generated", i)',
         arts'["settlements"] = arts["settlements"]
  PROVE  PipelineInv'
<1>1. /\ Unrepaired'
      /\ UNCHANGED <<tape, clock, spc, settled, blocked, todo, sseq>>
      /\ crashes' = 0 => crashes = 0
  BY EngineTurnLeaves
<1>2. clock \in Nat
  BY DEF PipelineInv, Unrepaired, RecordingInv, ProcessesOK
<1>3. SettlementLeft
  BY <1>1, <1>2 DEF SettlementLeft
<1>4. SettlementOK' /\ FirstPassOK' /\ OutcomesAreEarned'
  BY <1>3, SettlementStays DEF PipelineInv
<1> QED
  BY <1>1, <1>4 DEF PipelineInv

LEMMA CountsLeftRest ==
  ASSUME JournalOK, CountsLeft
  PROVE  /\ \A i \in 0 .. N :
              /\ Count("counterfactual_settled", i)' = Count("counterfactual_settled", i)
              /\ Count("outcome_settled", i)' = Count("outcome_settled", i)
              /\ Count("candidates_generated", i) <= Count("candidates_generated", i)'
         /\ \A i \in Ids : Count("candidates_generated", i)' = Count("candidates_generated", i)
<1>1. "candidates_generated" \in EventTypes /\ Ids \subseteq 0 .. N
  BY Constants DEF EventTypes
<1>2. \A i \in 0 .. N : Count("candidates_generated", i) \in Nat
  BY <1>1, CountsAreNumbers
<1>3. \A i \in 0 .. N :
        /\ Count("counterfactual_settled", i)' = Count("counterfactual_settled", i)
        /\ Count("outcome_settled", i)' = Count("outcome_settled", i)
        /\ Count("candidates_generated", i)' = Count("candidates_generated", i)
  BY DEF CountsLeft, Counted
<1> QED
  BY <1>1, <1>2, <1>3

\* From one stage of the current snapshot to another, the candidates not yet
\* written.
LEMMA StageStep ==
  ASSUME PipelineInv, EngineTurn, UNCHANGED <<feed, done, loaded>>,
         epc \in EnginePC \ {"idle", "universe"}, epc' \in EnginePC \ {"idle", "universe"},
         JournalOK', CountsLeft, FilesOK',
         arts'["candidates"] = arts["candidates"], arts'["settlements"] = arts["settlements"]
  PROVE  PipelineInv'
<1>1. /\ \A i \in 0 .. N :
           /\ Count("counterfactual_settled", i)' = Count("counterfactual_settled", i)
           /\ Count("outcome_settled", i)' = Count("outcome_settled", i)
           /\ Count("candidates_generated", i) <= Count("candidates_generated", i)'
      /\ \A i \in Ids : Count("candidates_generated", i)' = Count("candidates_generated", i)
  BY CountsLeftRest DEF PipelineInv
<1>2. Underway = {} /\ Underway' = {}
  BY DEF Underway
<1>3. EngineOK'
  BY <1>1, <1>2 DEF PipelineInv, EngineOK
<1>4. UniversesOK'
  BY <1>1, <1>2 DEF PipelineInv, UniversesOK
<1> QED
  BY <1>1, <1>3, <1>4, EngineTurnRest

LEMMA StageTurnsKeep ==
  ASSUME PipelineInv, EngineTurn,
         \/ FeatureStageFails \/ WriteFeatures \/ JournalFeatures \/ JournalFailedFamilies
         \/ ForecastUnavailable \/ WriteForecast \/ JournalForecast
  PROVE  PipelineInv'
<1>1. /\ UNCHANGED <<feed, done, loaded, crashes>>
      /\ epc \in EnginePC \ {"idle", "universe"} /\ epc' \in EnginePC \ {"idle", "universe"}
  BY DEF FeatureStageFails, WriteFeatures, JournalFeatures, JournalFailedFamilies,
         ForecastUnavailable, WriteForecast, JournalForecast, Rebuilt, EnginePC
<1>2. cur \in Ids /\ UNCHANGED sseq
  BY <1>1, Current, EngineTurnLeaves DEF PipelineInv
<1>3. ASSUME NEW type \in EventTypes \ Counted, journal' = Journaled(journal, type, cur),
             UNCHANGED <<arts, eseq>>
      PROVE  PipelineInv'
  <2>1. JournalOK' /\ CountsLeft
    <3> DEFINE id == cur
    <3>1. id \in Ids /\ journal' = Journaled(journal, type, id)
      BY <1>2, <1>3
    <3> HIDE DEF id
    <3> QED
      BY <1>3, <3>1, OtherEventJournaled DEF PipelineInv
  <2>2. FilesOK'
    BY <1>1, <1>2, <1>3 DEF PipelineInv, FilesOK
  <2> QED
    BY <1>1, <1>3, <2>1, <2>2, StageStep
<1>4. ASSUME NEW stage \in {"features", "forecasts"}, AppendArtifact(stage), UNCHANGED journal
      PROVE  PipelineInv'
  <2>1. JournalOK' /\ CountsLeft
    BY <1>4, NothingJournaled DEF PipelineInv
  <2>2. /\ FilesOK' /\ arts'["settlements"] = arts["settlements"]
        /\ arts'["candidates"] = arts["candidates"]
    <3>1. stage \in EngineStages /\ stage # "candidates"
      BY DEF EngineStages
    <3> QED
      BY <1>1, <1>2, <1>4, <3>1, ArtifactAppended DEF PipelineInv
  <2> QED
    BY <1>1, <2>1, <2>2, StageStep
<1>5. {"feature_stage_failed", "features_computed", "forecast_unavailable", "forecast_generated"}
        \subseteq EventTypes \ Counted
  BY DEF EventTypes, Counted
<1>6. CASE FeatureStageFails
  BY <1>3, <1>5, <1>6 DEF FeatureStageFails
<1>7. CASE WriteFeatures
  BY <1>4, <1>7 DEF WriteFeatures
<1>8. CASE JournalFeatures
  BY <1>3, <1>5, <1>8 DEF JournalFeatures
<1>9. CASE JournalFailedFamilies
  BY <1>3, <1>5, <1>9 DEF JournalFailedFamilies
<1>10. CASE ForecastUnavailable
  BY <1>3, <1>5, <1>10 DEF ForecastUnavailable
<1>11. CASE WriteForecast
  BY <1>4, <1>11 DEF WriteForecast
<1>12. CASE JournalForecast
  BY <1>3, <1>5, <1>12 DEF JournalForecast
<1> QED
  BY <1>6, <1>7, <1>8, <1>9, <1>10, <1>11, <1>12

LEMMA RejectionKeeps ==
  ASSUME PipelineInv, EngineTurn, RejectSnapshot \/ RejectCandidates
  PROVE  PipelineInv'
<1>1. /\ UNCHANGED <<arts, crashes, done, loaded, eseq>> /\ NextSnapshot
      /\ epc \in {"scan", "candidates"} /\ epc # "idle"
      /\ \E type \in {"snapshot_rejected", "candidate_rejected"} : journal' = Journaled(journal, type, cur)
  BY DEF RejectSnapshot, RejectCandidates
<1>2. cur \in Ids /\ loaded = TRUE /\ UNCHANGED sseq
  BY <1>1, Current, EngineTurnLeaves DEF PipelineInv
<1>3. JournalOK' /\ CountsLeft
  <2>1. PICK type \in {"snapshot_rejected", "candidate_rejected"} : journal' = Journaled(journal, type, cur)
    BY <1>1
  <2>2. type \in EventTypes \ Counted
    BY DEF EventTypes, Counted
  <2> DEFINE id == cur
  <2>3. id \in Ids /\ journal' = Journaled(journal, type, id)
    BY <1>2, <2>1
  <2> HIDE DEF id
  <2> QED
    BY <2>2, <2>3, OtherEventJournaled DEF PipelineInv
<1>4. /\ \A i \in 0 .. N :
           /\ Count("counterfactual_settled", i)' = Count("counterfactual_settled", i)
           /\ Count("outcome_settled", i)' = Count("outcome_settled", i)
           /\ Count("candidates_generated", i) <= Count("candidates_generated", i)'
      /\ \A i \in Ids : Count("candidates_generated", i)' = Count("candidates_generated", i)
  BY <1>3, CountsLeftRest DEF PipelineInv
<1>5. FilesOK'
  BY <1>1, <1>2 DEF PipelineInv, FilesOK
<1>6. /\ epc' \in {"idle", "scan"} /\ feed' \in Seq(Ids) /\ (epc' = "idle" <=> feed' = << >>)
      /\ Distinct(feed') /\ InSeq(feed') \subseteq InSeq(feed)
  BY <1>1, NextSnapshotIs DEF PipelineInv
<1>7. Underway = {} /\ Underway' = {}
  BY <1>1, <1>6 DEF Underway
<1>8. EngineOK'
  BY <1>1, <1>4, <1>6, <1>7 DEF PipelineInv, EngineOK, EnginePC
<1>9. UniversesOK'
  BY <1>1, <1>4, <1>7 DEF PipelineInv, UniversesOK
<1> QED
  BY <1>1, <1>3, <1>4, <1>5, <1>8, <1>9, EngineTurnRest

LEMMA WriteCandidatesKeeps ==
  ASSUME PipelineInv, EngineTurn, WriteCandidates
  PROVE  PipelineInv'
<1>1. /\ epc = "candidates" /\ epc' = "universe" /\ AppendArtifact("candidates")
      /\ UNCHANGED <<journal, crashes, feed, done, loaded>>
  BY DEF WriteCandidates
<1>2. cur \in Ids /\ cur \notin done /\ loaded = TRUE /\ UNCHANGED sseq /\ cur' = cur
  BY <1>1, Current, EngineTurnLeaves DEF PipelineInv, cur
<1>3. FilesOK' /\ arts'["settlements"] = arts["settlements"] /\ CandidatesGrow(cur)
  BY <1>1, <1>2, StageNames, ArtifactAppended DEF PipelineInv
<1>4. JournalOK' /\ CountsLeft
  BY <1>1, NothingJournaled DEF PipelineInv
<1>5. /\ \A i \in 0 .. N :
           /\ Count("counterfactual_settled", i)' = Count("counterfactual_settled", i)
           /\ Count("outcome_settled", i)' = Count("outcome_settled", i)
           /\ Count("candidates_generated", i) <= Count("candidates_generated", i)'
      /\ \A i \in Ids : Count("candidates_generated", i)' = Count("candidates_generated", i)
  BY <1>4, CountsLeftRest DEF PipelineInv
<1>6. Underway = {} /\ Underway' = {cur}
  BY <1>1, <1>2 DEF Underway
<1> DEFINE C == arts["candidates"]
           D == arts'["candidates"]
           id == cur
<1>7. /\ Damaged(C) => Damaged(D)
      /\ Damaged(D) \/ (IdsIn(C) \subseteq IdsIn(D) /\ id \in IdsIn(D))
      /\ IdsIn(D) \subseteq IdsIn(C) \cup {id}
      /\ OnceEach(C) /\ id \notin IdsIn(C) => OnceEach(D)
  BY <1>3 DEF CandidatesGrow
<1>8. /\ IdsIn(C) \subseteq done /\ IdsIn(C) \subseteq Ids /\ OnceEach(C)
      /\ Damaged(C) \/ \A i \in Ids : Count("candidates_generated", i) > 0 => i \in IdsIn(C)
  BY <1>2, <1>6 DEF PipelineInv, EngineOK, UniversesOK
<1>9. id \in Ids /\ id \notin done /\ Underway' = {id}
  BY <1>2, <1>6
<1> HIDE DEF C, D, id
<1>10. /\ IdsIn(D) \subseteq done \cup {id} /\ IdsIn(D) \subseteq Ids /\ OnceEach(D)
       /\ Damaged(D) \/ (id \in IdsIn(D) /\
            \A i \in Ids : Count("candidates_generated", i) > 0 => i \in IdsIn(D))
  BY <1>7, <1>8, <1>9
<1>11. EngineOK'
  <2>1. IdsIn(arts'["candidates"]) \subseteq done' \cup Underway'
    BY <1>1, <1>9, <1>10 DEF D
  <2>2. "universe" \in EnginePC
    BY DEF EnginePC
  <2> QED
    BY <1>1, <1>5, <2>1, <2>2 DEF PipelineInv, EngineOK
<1>12. UniversesOK'
  <2>1. \A i \in Ids : Count("candidates_generated", i)' <= 1
    BY <1>5 DEF PipelineInv, UniversesOK
  <2> QED
    BY <1>5, <1>9, <1>10, <2>1 DEF UniversesOK, D
<1> QED
  BY <1>3, <1>4, <1>5, <1>11, <1>12, EngineTurnRest

LEMMA JournalCandidatesKeeps ==
  ASSUME PipelineInv, EngineTurn, JournalCandidates
  PROVE  PipelineInv'
<1>1. /\ epc = "universe" /\ epc # "idle" /\ NextSnapshot /\ done' = done \cup {cur}
      /\ journal' = Journaled(journal, "candidates_generated", cur)
      /\ UNCHANGED <<arts, crashes, loaded, eseq>>
  BY DEF JournalCandidates
<1>2. cur \in Ids /\ cur \notin done /\ loaded = TRUE /\ UNCHANGED sseq /\ Ids \subseteq 0 .. N
  BY <1>1, Current, EngineTurnLeaves, Constants DEF PipelineInv
<1>3. /\ epc' \in {"idle", "scan"} /\ feed' \in Seq(Ids) /\ (epc' = "idle" <=> feed' = << >>)
      /\ Distinct(feed') /\ InSeq(feed') \subseteq InSeq(feed) /\ cur \notin InSeq(feed')
  BY <1>1, NextSnapshotIs DEF PipelineInv
<1>4. Underway = {cur} /\ Underway' = {}
  BY <1>1, <1>3 DEF Underway
<1>0. PICK id \in Ids : id = cur
  BY <1>2
<1>5. /\ JournalOK'
      /\ \A t \in EventTypes, i \in 0 .. N :
           /\ Count(t, i) \in Nat /\ Count(t, i)' \in Nat /\ Count(t, i) <= Count(t, i)'
           /\ t # "candidates_generated" \/ i # id => Count(t, i)' = Count(t, i)
      /\ Count("candidates_generated", id)' <= Count("candidates_generated", id) + 1
  <2> DEFINE type == "candidates_generated"
  <2>1. id \in 0 .. N /\ type \in EventTypes /\ journal' = Journaled(journal, type, id)
    BY <1>1, <1>2, <1>0 DEF EventTypes
  <2> HIDE DEF type
  <2>2. /\ JournalOK'
        /\ \A t \in EventTypes, i \in 0 .. N :
             /\ Count(t, i) \in Nat /\ Count(t, i)' \in Nat /\ Count(t, i) <= Count(t, i)'
             /\ t # type \/ i # id => Count(t, i)' = Count(t, i)
        /\ Count(type, id)' > 0 /\ Count(type, id)' <= Count(type, id) + 1
    BY <2>1, EventJournaled DEF PipelineInv
  <2> QED
    BY <2>2 DEF type
<1>6. id \in Ids /\ id \notin done /\ done' = done \cup {id} /\ Underway = {id} /\ id \notin InSeq(feed')
  BY <1>1, <1>2, <1>3, <1>4, <1>0
<1>7. Counted \subseteq EventTypes /\ "candidates_generated" \in EventTypes
  BY DEF Counted, EventTypes
<1>8. \A i \in Ids : /\ Count("candidates_generated", i) \in Nat /\ Count("candidates_generated", i)' \in Nat
                     /\ i # id => Count("candidates_generated", i)' = Count("candidates_generated", i)
  BY <1>2, <1>5, <1>7
<1>9. Count("candidates_generated", id) = 0
  BY <1>2, <1>6, <1>8 DEF PipelineInv, EngineOK
<1>10. \A i \in Ids : /\ Count("candidates_generated", i)' <= 1
                      /\ Count("candidates_generated", i)' > 0 =>
                           i = id \/ Count("candidates_generated", i) > 0
  <2> TAKE i \in Ids
  <2>1. CASE i = id
    <3>1. Count("candidates_generated", id)' \in Nat /\ Count("candidates_generated", id)' <= 1
      BY <1>5, <1>6, <1>8, <1>9
    <3> QED
      BY <2>1, <3>1
  <2>2. CASE i # id
    BY <1>8, <2>2 DEF PipelineInv, UniversesOK
  <2> QED
    BY <2>1, <2>2
<1>11. EngineOK'
  <2>1. \A i \in InSeq(feed') : i \notin done'
    BY <1>3, <1>6 DEF PipelineInv, EngineOK
  <2>2. \A i \in Ids : Count("candidates_generated", i)' > 0 => i \in done'
    BY <1>2, <1>6, <1>10 DEF PipelineInv, EngineOK
  <2>3. IdsIn(arts'["candidates"]) \subseteq done' \cup Underway'
    BY <1>1, <1>2, <1>6 DEF PipelineInv, EngineOK
  <2>4. done' \in SUBSET Ids
    BY <1>6 DEF PipelineInv, EngineOK
  <2>5. loaded' = TRUE /\ epc' \in EnginePC
    BY <1>1, <1>2, <1>3 DEF EnginePC
  <2> QED
    BY <1>3, <2>1, <2>2, <2>3, <2>4, <2>5 DEF EngineOK
<1>12. UniversesOK'
  <2>1. Damaged(arts["candidates"]) \/ id \in IdsIn(arts["candidates"])
    BY <1>6 DEF PipelineInv, UniversesOK
  <2> QED
    BY <1>1, <1>4, <1>10, <2>1 DEF PipelineInv, UniversesOK
<1>13. FilesOK'
  BY <1>1, <1>2 DEF PipelineInv, FilesOK
<1>14. \A i \in 0 .. N :
         /\ Count("counterfactual_settled", i)' = Count("counterfactual_settled", i)
         /\ Count("outcome_settled", i)' = Count("outcome_settled", i)
         /\ Count("candidates_generated", i) <= Count("candidates_generated", i)'
  BY <1>5, <1>7 DEF Counted
<1> QED
  BY <1>1, <1>5, <1>11, <1>12, <1>13, <1>14, EngineTurnRest

LEMMA BeginPassKeeps ==
  ASSUME PipelineInv, EngineTurn, BeginPass
  PROVE  PipelineInv'
<1>1. /\ epc = "idle" /\ epc' = "scan" /\ loaded' = TRUE /\ Readable(tape)
      /\ loaded = TRUE \/ Readable(arts["candidates"])
      /\ done' = DoneOnDisk /\ feed' # << >>
      /\ feed' = Those(SnapshotIds(tape), Ids \ DoneOnDisk)
      /\ UNCHANGED <<arts, journal, crashes, bundle, eseq>>
  BY DEF BeginPass
<1>2. UNCHANGED sseq
  BY EngineTurnLeaves
<1> DEFINE C == arts["candidates"]
           D == DoneOnDisk
<1>3. Underway = {} /\ Underway' = {}
  BY <1>1 DEF Underway
<1>4. /\ D \in SUBSET Ids /\ IdsIn(C) \subseteq D
      /\ \A i \in Ids : Count("candidates_generated", i) > 0 => i \in D
  <2>1. CASE loaded = TRUE
    <3>1. D = done
      BY <2>1 DEF DoneOnDisk
    <3> HIDE DEF D
    <3> QED
      BY <1>3, <2>1, <3>1 DEF PipelineInv, EngineOK
  <2>2. CASE loaded = FALSE
    <3>1. D = IdsIn(C)
      BY <2>2 DEF DoneOnDisk
    <3>2. Readable(C)
      BY <1>1, <2>2
    <3>3. ~Damaged(C)
      BY <3>2 DEF Readable, Damaged
    <3> HIDE DEF D
    <3> QED
      BY <3>1, <3>3 DEF PipelineInv, UniversesOK
  <2>3. loaded \in BOOLEAN
    BY DEF PipelineInv, EngineOK
  <2> QED
    BY <2>1, <2>2, <2>3
<1> DEFINE t == Those(TapeIds, Ids \ D)
<1>5. feed' = t /\ done' = D
  BY <1>1 DEF SnapshotIds, TapeIds
<1> HIDE DEF D
<1>6. /\ t \in Seq(Ids) /\ Distinct(t) /\ \A i \in InSeq(t) : i \notin D
  <2>1. TapeIds \in Seq(Ids) /\ Distinct(TapeIds)
    BY <1>1, TapeReads DEF PipelineInv, Unrepaired
  <2>2. t \in Seq(Ids) /\ InSeq(t) = InSeq(TapeIds) \cap (Ids \ D) /\ Distinct(t)
    BY <2>1, ThoseDistinct
  <2> HIDE DEF t
  <2> QED
    BY <2>2
<1> HIDE DEF t
<1>7. JournalOK' /\ CountsLeft
  BY <1>1, NothingJournaled DEF PipelineInv
<1>8. /\ \A i \in 0 .. N :
           /\ Count("counterfactual_settled", i)' = Count("counterfactual_settled", i)
           /\ Count("outcome_settled", i)' = Count("outcome_settled", i)
           /\ Count("candidates_generated", i) <= Count("candidates_generated", i)'
      /\ \A i \in Ids : Count("candidates_generated", i)' = Count("candidates_generated", i)
  BY <1>7, CountsLeftRest DEF PipelineInv
<1>9. FilesOK'
  BY <1>1, <1>2 DEF PipelineInv, FilesOK
<1>10. EngineOK'
  <2>1. IdsIn(arts'["candidates"]) \subseteq done' \cup Underway'
    BY <1>1, <1>4, <1>5
  <2>2. feed' \in Seq(Ids) /\ Distinct(feed') /\ \A i \in InSeq(feed') : i \notin done'
    BY <1>5, <1>6
  <2>3. \A i \in Ids : Count("candidates_generated", i)' > 0 => i \in done'
    BY <1>4, <1>5, <1>8
  <2>4. done' \in SUBSET Ids /\ epc' \in EnginePC /\ epc' # "idle"
    BY <1>1, <1>4, <1>5 DEF EnginePC
  <2> QED
    BY <1>1, <2>1, <2>2, <2>3, <2>4 DEF EngineOK
<1>11. UniversesOK'
  BY <1>1, <1>3, <1>8 DEF PipelineInv, UniversesOK
<1> QED
  BY <1>1, <1>7, <1>8, <1>9, <1>10, <1>11, EngineTurnRest

\* A death inside StageArtifactStore.append.
LEMMA RecordCutShort ==
  ASSUME N \in Nat, NEW f, NEW cached, FileOK(f, cached), NEW id \in 0 .. N,
         NEW g, g \in CutShort(f, ArtifactRecord(cached, f, id))
  PROVE  /\ FileOK(g, Unset)
         /\ Damaged(g) \/ (IdsIn(f) \subseteq IdsIn(g) /\ ~Damaged(f))
         /\ IdsIn(g) \subseteq IdsIn(f) \cup {id}
         /\ OnceEach(f) /\ id \notin IdsIn(f) => OnceEach(g)
<1> DEFINE e == ArtifactRecord(cached, f, id)
<1>1. g = WriteLine(f, Garbled, FALSE) \/ g = WriteLine(f, e, FALSE)
  BY DEF CutShort
<1>2. e = ArtifactRecord(cached, f, id)
  OBVIOUS
<1> HIDE DEF e
<1>3. CASE g = WriteLine(f, Garbled, FALSE)
  BY <1>3, FragmentWritten
<1>4. CASE g = WriteLine(f, e, FALSE)
  <2>1. FALSE \in BOOLEAN
    OBVIOUS
  <2>2. FileOK(g, Unset)
    BY <1>2, <1>4, <2>1, RecordWritten
  <2>3. Damaged(f) => Damaged(g)
    BY <1>2, <1>4, <2>1, RecordWritten
  <2>4. Damaged(g) \/ (IdsIn(f) \subseteq IdsIn(g) /\ id \in IdsIn(g))
    BY <1>2, <1>4, <2>1, RecordWritten
  <2>5. IdsIn(g) \subseteq IdsIn(f) \cup {id}
    BY <1>2, <1>4, <2>1, RecordWritten
  <2>6. OnceEach(f) /\ id \notin IdsIn(f) => OnceEach(g)
    BY <1>2, <1>4, <2>1, RecordWritten
  <2> QED
    BY <2>2, <2>3, <2>4, <2>5, <2>6
<1> QED
  BY <1>1, <1>3, <1>4

LEMMA ForgottenSeq ==
  ASSUME NEW f, NEW cached, FileOK(f, cached)
  PROVE  FileOK(f, Unset)
BY DEF FileOK

LEMMA EngineCrashKeeps ==
  ASSUME PipelineInv, EngineTurn, EngineCrash
  PROVE  PipelineInv'
<1>1. /\ crashes' = crashes + 1 /\ crashes' # 0
      /\ epc' = "idle" /\ feed' = << >> /\ done' = {} /\ loaded' = FALSE
      /\ eseq' = [s \in EngineStages |-> Unset]
      /\ UNCHANGED journal
  BY DEF EngineCrash, PipelineInv, Unrepaired
<1>2. UNCHANGED sseq
  BY EngineTurnLeaves
<1>3. JournalOK' /\ CountsLeft
  BY <1>1, NothingJournaled DEF PipelineInv
<1>4. /\ \A i \in 0 .. N :
           /\ Count("counterfactual_settled", i)' = Count("counterfactual_settled", i)
           /\ Count("outcome_settled", i)' = Count("outcome_settled", i)
           /\ Count("candidates_generated", i) <= Count("candidates_generated", i)'
      /\ \A i \in Ids : Count("candidates_generated", i)' = Count("candidates_generated", i)
  BY <1>3, CountsLeftRest DEF PipelineInv
<1>5. Underway' = {}
  BY <1>1 DEF Underway
<1>6. EngineOK'
  <2>1. << >> \in Seq(Ids) /\ InSeq(<< >>) = {} /\ Distinct(<< >>)
    BY EmptySeqParts
  <2> QED
    BY <1>1, <2>1 DEF EngineOK, EnginePC
<1>7. /\ eseq' \in [EngineStages -> {Unset} \cup Nat]
      /\ \A s \in EngineStages : eseq'[s] = Unset /\ FileOK(arts[s], Unset)
  <2>1. \A s \in EngineStages : FileOK(arts[s], eseq[s])
    BY DEF PipelineInv, FilesOK
  <2> QED
    BY <1>1, <2>1, ForgottenSeq
<1> DEFINE C == arts["candidates"]
           D == arts'["candidates"]
<1>8. /\ IdsIn(C) \subseteq Ids /\ OnceEach(C)
      /\ Damaged(C) \/ \A i \in Ids : Count("candidates_generated", i) > 0 => i \in IdsIn(C)
      /\ \A i \in Ids : Count("candidates_generated", i) <= 1
  BY DEF PipelineInv, UniversesOK
<1>9. CASE UNCHANGED arts
  <2>1. FilesOK'
    BY <1>1, <1>2, <1>7, <1>9 DEF PipelineInv, FilesOK
  <2>2. UniversesOK'
    BY <1>4, <1>5, <1>8, <1>9 DEF UniversesOK
  <2> QED
    BY <1>3, <1>4, <1>6, <1>9, <2>1, <2>2, EngineTurnRest
<1>10. ASSUME NEW s \in WritingTo,
              NEW f \in CutShort(arts[s], ArtifactRecord(eseq[s], arts[s], cur)),
              arts' = [arts EXCEPT ![s] = f]
       PROVE  PipelineInv'
  <2>1. s \in EngineStages /\ epc # "idle" /\ (s = "candidates" => epc = "candidates")
    BY DEF WritingTo, Rebuilt
  <2>2. cur \in Ids /\ cur \notin done /\ loaded = TRUE /\ cur \in 0 .. N /\ N \in Nat
    BY <2>1, Current, Constants DEF PipelineInv
  <2>3. /\ FileOK(f, Unset)
        /\ Damaged(f) \/ (IdsIn(arts[s]) \subseteq IdsIn(f) /\ ~Damaged(arts[s]))
        /\ IdsIn(f) \subseteq IdsIn(arts[s]) \cup {cur}
        /\ OnceEach(arts[s]) /\ cur \notin IdsIn(arts[s]) => OnceEach(f)
    <3> DEFINE old == arts[s]
               cached == eseq[s]
               id == cur
    <3>1. /\ FileOK(old, cached) /\ id \in 0 .. N /\ N \in Nat
          /\ f \in CutShort(old, ArtifactRecord(cached, old, id))
      BY <2>1, <2>2 DEF PipelineInv, FilesOK
    <3> HIDE DEF old, cached, id
    <3>2. /\ FileOK(f, Unset)
          /\ Damaged(f) \/ (IdsIn(old) \subseteq IdsIn(f) /\ ~Damaged(old))
          /\ IdsIn(f) \subseteq IdsIn(old) \cup {id}
          /\ OnceEach(old) /\ id \notin IdsIn(old) => OnceEach(f)
      BY <3>1, RecordCutShort
    <3> QED
      BY <3>2 DEF old, id
  <2>4. /\ arts' \in [Stages -> Files] /\ arts'[s] = f
        /\ \A r \in Stages : r # s => arts'[r] = arts[r]
        /\ s # "settlements" /\ "settlements" \in Stages
    <3>1. arts \in [Stages -> Files] /\ f \in Files /\ s \in Stages
      BY <2>1, <2>3, StageNames DEF PipelineInv, FilesOK, FileOK
    <3> QED
      BY <1>10, <2>1, <3>1, StageNames
  <2>5. FilesOK'
    <3>1. \A r \in EngineStages : FileOK(arts'[r], eseq'[r])
      BY <1>7, <2>3, <2>4, StageNames
    <3>2. FileOK(arts'["settlements"], sseq')
      BY <1>2, <2>4 DEF PipelineInv, FilesOK
    <3> QED
      BY <1>1, <1>7, <2>4, <3>1, <3>2 DEF FilesOK
  <2>6. UniversesOK'
    <3>1. CASE s = "candidates"
      <4>1. Underway = {}
        BY <2>1, <3>1 DEF Underway
      <4>2. cur \notin IdsIn(C)
        BY <2>2, <4>1 DEF PipelineInv, EngineOK
      <4>3. D = f /\ C = arts[s]
        BY <2>4, <3>1
      <4> DEFINE id == cur
      <4> HIDE DEF C, D
      <4>4. /\ Damaged(D) \/ (IdsIn(C) \subseteq IdsIn(D) /\ ~Damaged(C))
            /\ IdsIn(D) \subseteq IdsIn(C) \cup {id}
            /\ OnceEach(C) /\ id \notin IdsIn(C) => OnceEach(D)
            /\ id \in Ids /\ id \notin IdsIn(C)
        BY <2>2, <2>3, <4>2, <4>3
      <4> HIDE DEF id
      <4>5. /\ IdsIn(D) \subseteq Ids /\ OnceEach(D)
            /\ Damaged(D) \/ \A i \in Ids : Count("candidates_generated", i) > 0 => i \in IdsIn(D)
        BY <1>8, <4>4
      <4> QED
        BY <1>4, <1>5, <1>8, <4>5 DEF UniversesOK, D
    <3>2. CASE s # "candidates"
      <4>1. D = C
        BY <2>4, <3>2, StageNames
      <4> QED
        BY <1>4, <1>5, <1>8, <4>1 DEF UniversesOK
    <3> QED
      BY <3>1, <3>2
  <2>7. arts'["settlements"] = arts["settlements"]
    BY <2>4
  <2> QED
    BY <1>3, <1>4, <1>6, <2>5, <2>6, <2>7, EngineTurnRest
<1> QED
  BY <1>9, <1>10 DEF EngineCrash

LEMMA EngineTurnKeeps ==
  ASSUME PipelineInv, EngineTurn
  PROVE  PipelineInv'
BY StageTurnsKeep, RejectionKeeps, WriteCandidatesKeeps, JournalCandidatesKeeps, BeginPassKeeps,
   EngineCrashKeeps
   DEF EngineTurn, EngineNext, EngineStep

-----------------------------------------------------------------------------
(* Pipeline: a turn of settlement. *)

LEMMA SettlementTurnLeaves ==
  ASSUME PipelineInv, SettlementTurn
  PROVE  /\ Unrepaired'
         /\ UNCHANGED <<tape, clock, epc, feed, done, loaded, bundle, eseq>>
         /\ crashes' = 0 => crashes = 0
<1>1. /\ UNCHANGED <<tape, clock, mpc, mseq, mfile, written, rpc, rload, rquiet, live, rstatus>>
      /\ UNCHANGED <<epc, feed, done, loaded, bundle, eseq>>
  BY DEF SettlementTurn, SettlementNext, SettlementStep, recordingVars, marketVars, repairVars,
         engineVars, ReadRecording, ReadUniverses, JournalOutcome, WriteSettlement, JournalMarker,
         SettlementCrash
<1>2. crashes' = crashes \/ (crashes < MaxCrashes /\ crashes' = crashes + 1)
  BY DEF SettlementTurn, SettlementNext, SettlementStep, ReadRecording, ReadUniverses,
         JournalOutcome, WriteSettlement, JournalMarker, SettlementCrash
<1>3. RecordingInv'
  BY <1>1, RecordingLeft DEF PipelineInv, Unrepaired
<1>4. crashes' \in 0 .. MaxCrashes /\ (crashes' = 0 => crashes = 0)
  BY <1>2, Constants DEF PipelineInv, Unrepaired
<1> QED
  BY <1>1, <1>3, <1>4 DEF PipelineInv, Unrepaired

\* The rest of the invariant after a turn of settlement.
LEMMA SettlementTurnRest ==
  ASSUME PipelineInv, SettlementTurn, JournalOK', FilesOK',
         arts'["candidates"] = arts["candidates"],
         \A i \in Ids : Count("candidates_generated", i)' = Count("candidates_generated", i),
         SettlementOK', FirstPassOK', OutcomesAreEarned'
  PROVE  PipelineInv'
<1>1. Unrepaired' /\ UNCHANGED <<epc, feed, done, loaded, bundle, eseq>>
  BY SettlementTurnLeaves
<1>2. Underway' = Underway
  BY <1>1 DEF Underway, cur
<1>3. EngineOK' /\ UniversesOK'
  BY <1>1, <1>2 DEF PipelineInv, EngineOK, UniversesOK
<1> QED
  BY <1>1, <1>3 DEF PipelineInv

\* A turn that writes no event leaves what the outcomes rest on.
LEMMA UnjournaledTurn ==
  ASSUME PipelineInv, SettlementTurn, UNCHANGED journal
  PROVE  /\ JournalOK' /\ OutcomesAreEarned'
         /\ \A t \in Counted, i \in 0 .. N : Count(t, i)' = Count(t, i)
         /\ \A i \in Ids : /\ Count("candidates_generated", i)' = Count("candidates_generated", i)
                           /\ Count("counterfactual_settled", i)' = Count("counterfactual_settled", i)
         /\ Count("outcome_settled", SessionKey)' = Count("outcome_settled", SessionKey)
         /\ Over' = Over
<1>1. JournalOK' /\ CountsLeft
  BY NothingJournaled DEF PipelineInv
<1>2. Ids \subseteq 0 .. N /\ SessionKey \in 0 .. N
  BY Constants
<1>3. /\ \A i \in Ids : /\ Count("candidates_generated", i)' = Count("candidates_generated", i)
                        /\ Count("counterfactual_settled", i)' = Count("counterfactual_settled", i)
      /\ Count("outcome_settled", SessionKey)' = Count("outcome_settled", SessionKey)
  BY <1>1, <1>2 DEF CountsLeft, Counted
<1>4. UNCHANGED <<tape, clock>>
  BY SettlementTurnLeaves
<1>5. OutcomesAreEarned'
  BY <1>3, <1>4 DEF PipelineInv, OutcomesAreEarned
<1>6. Over' = Over
  BY <1>4 DEF Over
<1> QED
  BY <1>1, <1>3, <1>5, <1>6 DEF CountsLeft

LEMMA ReadRecordingKeeps ==
  ASSUME PipelineInv, SettlementTurn, ReadRecording
  PROVE  PipelineInv'
<1>1. /\ spc = "idle" /\ spc' = "read" /\ ~settled /\ Readable(tape) /\ tape.lines # << >>
      /\ LastId >= CloseAt \/ clock >= RolloverAt
      /\ todo' = TapeIds
      /\ UNCHANGED <<arts, journal, crashes, settled, blocked, sseq>>
  BY DEF ReadRecording, SessionIsOver
<1>2. UNCHANGED <<tape, clock, eseq>>
  BY SettlementTurnLeaves
<1>3. /\ JournalOK' /\ OutcomesAreEarned'
      /\ \A i \in Ids : /\ Count("candidates_generated", i)' = Count("candidates_generated", i)
                        /\ Count("counterfactual_settled", i)' = Count("counterfactual_settled", i)
      /\ Count("outcome_settled", SessionKey)' = Count("outcome_settled", SessionKey)
      /\ Over' = Over
  BY <1>1, UnjournaledTurn
<1>4. FilesOK'
  BY <1>1, <1>2 DEF PipelineInv, FilesOK
<1>5. /\ todo' \in Seq(Ids) /\ Distinct(todo') /\ InSeq(todo') = IdsIn(tape) /\ todo' # << >>
  BY <1>1, TapeReads DEF PipelineInv, Unrepaired
<1>6. Over
  <2>1. Len(tape.lines) \in DOMAIN tape.lines /\ tape.lines[Len(tape.lines)].ok
    BY <1>1, TapeReads DEF PipelineInv, Unrepaired, Readable
  <2>2. LastId \in IdsIn(tape)
    BY <1>1, <2>1 DEF LastId, IdsIn
  <2> QED
    BY <1>1, <2>2 DEF Over
<1>7. SettlementOK'
  BY <1>1, <1>2, <1>3, <1>5, <1>6 DEF PipelineInv, SettlementOK
<1>8. FirstPassOK'
  BY <1>1, <1>3, <1>5 DEF PipelineInv, FirstPassOK
<1> QED
  BY <1>1, <1>3, <1>4, <1>7, <1>8, SettlementTurnRest

LEMMA ReadUniversesKeeps ==
  ASSUME PipelineInv, SettlementTurn, ReadUniverses
  PROVE  PipelineInv'
<1> DEFINE S == {id \in Generated : Shape[id] = "good"}
           t == Those(todo, S)
<1>1. /\ spc = "read" /\ todo' = t /\ spc' = IF t = << >> THEN "idle" ELSE "outcomes"
      /\ blocked' = InSeq(t)
      /\ UNCHANGED <<arts, journal, crashes, settled, sseq>>
  BY DEF ReadUniverses, InSeq
<1>2. UNCHANGED <<tape, clock, eseq>>
  BY SettlementTurnLeaves
<1>3. /\ JournalOK' /\ OutcomesAreEarned'
      /\ \A i \in Ids : /\ Count("candidates_generated", i)' = Count("candidates_generated", i)
                        /\ Count("counterfactual_settled", i)' = Count("counterfactual_settled", i)
      /\ Count("outcome_settled", SessionKey)' = Count("outcome_settled", SessionKey)
      /\ Over' = Over
  BY <1>1, UnjournaledTurn
<1>4. FilesOK'
  BY <1>1, <1>2 DEF PipelineInv, FilesOK
<1>5. todo \in Seq(Ids) /\ todo # << >> /\ Distinct(todo) /\ ~settled /\ InSeq(todo) \subseteq IdsIn(tape) /\ Over
  BY <1>1 DEF PipelineInv, SettlementOK, FirstPassOK
<1>6. S \subseteq Generated
  OBVIOUS
<1> HIDE DEF S
<1>7. t \in Seq(Ids) /\ InSeq(t) = InSeq(todo) \cap S /\ Distinct(t)
  BY <1>5, ThoseDistinct
<1> HIDE DEF t
<1>8. InSeq(t) \subseteq IdsIn(tape) /\ InSeq(t) \subseteq Generated /\ InSeq(t) \in SUBSET Ids
  BY <1>5, <1>6, <1>7 DEF Generated
<1>9. Generated' = Generated
  BY <1>3 DEF Generated
<1>10. SettlementOK'
  BY <1>1, <1>2, <1>3, <1>5, <1>7, <1>8, <1>9 DEF PipelineInv, SettlementOK
<1>11. FirstPassOK'
  BY <1>1, <1>3, <1>5, <1>7 DEF PipelineInv, FirstPassOK
<1> QED
  BY <1>1, <1>3, <1>4, <1>10, <1>11, SettlementTurnRest

LEMMA JournalOutcomeKeeps ==
  ASSUME PipelineInv, SettlementTurn, JournalOutcome
  PROVE  PipelineInv'
<1> DEFINE t == Tail(todo)
<1>1. /\ spc = "outcomes" /\ todo' = t /\ spc' = IF Len(todo) = 1 THEN "artifact" ELSE "outcomes"
      /\ journal' = Journaled(journal, "counterfactual_settled", Head(todo))
      /\ UNCHANGED <<arts, crashes, settled, blocked, sseq>>
  BY DEF JournalOutcome
<1>2. UNCHANGED <<tape, clock, eseq>>
  BY SettlementTurnLeaves
<1>3. /\ todo \in Seq(Ids) /\ todo # << >> /\ Distinct(todo) /\ settled = FALSE
      /\ InSeq(todo) \subseteq IdsIn(tape) /\ InSeq(todo) \subseteq Generated /\ Over
  BY <1>1 DEF PipelineInv, SettlementOK, FirstPassOK
<1>4. /\ Head(todo) \in Ids /\ Head(todo) \in InSeq(todo)
      /\ t \in Seq(Ids) /\ InSeq(t) \subseteq InSeq(todo) /\ (Len(todo) = 1 <=> t = << >>)
      /\ \A x \in InSeq(todo) : x = Head(todo) \/ x \in InSeq(t)
      /\ Distinct(t) /\ Head(todo) \notin InSeq(t)
  BY <1>3, SeqParts
<1>5. PICK h \in Ids : h = Head(todo)
  BY <1>4
<1> HIDE DEF t
<1>6. /\ JournalOK'
      /\ \A e \in EventTypes, i \in 0 .. N :
           /\ Count(e, i) \in Nat /\ Count(e, i)' \in Nat /\ Count(e, i) <= Count(e, i)'
           /\ e # "counterfactual_settled" \/ i # h => Count(e, i)' = Count(e, i)
      /\ Count("counterfactual_settled", h)' > 0
      /\ Count("counterfactual_settled", h)' <= Count("counterfactual_settled", h) + 1
  <2> DEFINE type == "counterfactual_settled"
  <2>1. h \in 0 .. N /\ type \in EventTypes /\ journal' = Journaled(journal, type, h)
    BY <1>1, <1>5, Constants DEF EventTypes
  <2> HIDE DEF type
  <2>2. /\ JournalOK'
        /\ \A e \in EventTypes, i \in 0 .. N :
             /\ Count(e, i) \in Nat /\ Count(e, i)' \in Nat /\ Count(e, i) <= Count(e, i)'
             /\ e # type \/ i # h => Count(e, i)' = Count(e, i)
        /\ Count(type, h)' > 0 /\ Count(type, h)' <= Count(type, h) + 1
    BY <2>1, EventJournaled DEF PipelineInv
  <2> QED
    BY <2>2 DEF type
<1>7. /\ \A i \in Ids : /\ Count("candidates_generated", i)' = Count("candidates_generated", i)
                        /\ Count("candidates_generated", i) \in Nat
                        /\ i # h => Count("counterfactual_settled", i)' = Count("counterfactual_settled", i)
                        /\ Count("counterfactual_settled", i) \in Nat
                        /\ Count("counterfactual_settled", i)' \in Nat
                        /\ Count("counterfactual_settled", i) <= Count("counterfactual_settled", i)'
      /\ Count("outcome_settled", SessionKey)' = Count("outcome_settled", SessionKey)
  <2>1. Counted \subseteq EventTypes /\ Ids \subseteq 0 .. N /\ SessionKey \in 0 .. N
    BY Constants DEF Counted, EventTypes
  <2> QED
    BY <1>6, <2>1 DEF Counted
<1>8. FilesOK'
  BY <1>1, <1>2 DEF PipelineInv, FilesOK
<1>9. Generated' = Generated
  BY <1>7 DEF Generated
<1>10. SettlementOK'
  <2>1. spc' \in {"outcomes", "artifact"} /\ (spc' = "outcomes" <=> t # << >>)
    BY <1>1, <1>4
  <2>2. InSeq(t) \subseteq IdsIn(tape') /\ Over' /\ InSeq(t) \subseteq Generated'
    BY <1>2, <1>3, <1>4, <1>9 DEF Over
  <2>3. \A id \in blocked : id \in InSeq(t) \/ Count("counterfactual_settled", id)' > 0
    <3> TAKE id \in blocked
    <3>1. id \in Ids /\ (id \in InSeq(todo) \/ Count("counterfactual_settled", id) > 0)
      BY <1>1 DEF PipelineInv, SettlementOK
    <3>2. CASE id = h
      BY <1>6, <3>2
    <3>3. CASE id # h
      BY <1>4, <1>5, <1>7, <3>1, <3>3
    <3> QED
      BY <3>2, <3>3
  <2> QED
    BY <1>1, <1>3, <1>4, <1>7, <2>1, <2>2, <2>3 DEF PipelineInv, SettlementOK
<1>11. FirstPassOK'
  <2>1. ASSUME crashes' = 0, NEW id \in Ids
        PROVE  /\ Count("counterfactual_settled", id)' <= 1
               /\ Count("counterfactual_settled", id)' > 0 => id \notin InSeq(t)
    <3>1. /\ Count("counterfactual_settled", id) <= 1
          /\ Count("counterfactual_settled", id) > 0 => id \notin InSeq(todo)
      BY <1>1, <1>3, <2>1 DEF PipelineInv, FirstPassOK
    <3>2. CASE id = h
      <4>1. Count("counterfactual_settled", h) = 0 /\ h \notin InSeq(t)
        BY <1>4, <1>5, <1>7, <3>1, <3>2
      <4>2. Count("counterfactual_settled", h)' <= 1
        BY <1>6, <1>7, <4>1
      <4> QED
        BY <3>2, <4>1, <4>2
    <3>3. CASE id # h
      BY <1>4, <1>7, <3>1, <3>3
    <3> QED
      BY <3>2, <3>3
  <2>2. spc' \in {"outcomes", "artifact"}
    BY <1>1
  <2> QED
    BY <1>1, <1>4, <2>1, <2>2 DEF FirstPassOK
<1>12. OutcomesAreEarned'
  <2> SUFFICES ASSUME NEW id \in Ids, Count("counterfactual_settled", id)' > 0
               PROVE  Count("candidates_generated", id)' = 1 /\ id \in IdsIn(tape') /\ Over'
    BY DEF OutcomesAreEarned, Over
  <2>1. Over' = Over /\ tape' = tape
    BY <1>2 DEF Over
  <2>2. CASE id = h
    <3>1. id \in Generated /\ id \in IdsIn(tape)
      BY <1>3, <1>4, <1>5, <2>2
    <3>2. Count("candidates_generated", id) = 1
      BY <1>7, <3>1 DEF PipelineInv, UniversesOK, Generated
    <3> QED
      BY <1>3, <1>7, <2>1, <3>1, <3>2
  <2>3. CASE id # h
    <3>1. Count("counterfactual_settled", id) > 0
      BY <1>7, <2>3
    <3>2. Count("candidates_generated", id) = 1 /\ id \in IdsIn(tape)
      BY <3>1 DEF PipelineInv, OutcomesAreEarned
    <3> QED
      BY <1>3, <1>7, <2>1, <3>2
  <2> QED
    BY <2>2, <2>3
<1> QED
  BY <1>1, <1>6, <1>7, <1>8, <1>10, <1>11, <1>12, SettlementTurnRest

\* Settlement's file rewritten.
LEMMA SettlementFileAfter ==
  ASSUME FilesOK, NEW g, arts' = [arts EXCEPT !["settlements"] = g], FileOK(g, sseq'),
         eseq' = eseq,
         crashes' = 0 => crashes = 0 /\ g.nl = TRUE /\ Intact(g)
  PROVE  FilesOK' /\ arts'["settlements"] = g /\ arts'["candidates"] = arts["candidates"]
<1>1. /\ arts \in [Stages -> Files] /\ "settlements" \in Stages
      /\ EngineStages \subseteq Stages /\ "settlements" \notin EngineStages
      /\ "candidates" \in EngineStages
  BY StageNames DEF FilesOK
<1>2. g \in Files
  BY DEF FileOK
<1>3. /\ arts' \in [Stages -> Files] /\ arts'["settlements"] = g
      /\ \A s \in Stages : s # "settlements" => arts'[s] = arts[s]
  BY <1>1, <1>2
<1>4. \A s \in EngineStages : FileOK(arts'[s], eseq'[s])
  BY <1>1, <1>3 DEF FilesOK
<1>5. ASSUME crashes' = 0 PROVE \A s \in Stages : arts'[s].nl = TRUE /\ Intact(arts'[s])
  <2>1. \A s \in Stages : arts[s].nl = TRUE /\ Intact(arts[s])
    BY <1>5 DEF FilesOK
  <2> QED
    BY <1>3, <1>5, <2>1
<1> QED
  BY <1>1, <1>3, <1>4, <1>5 DEF FilesOK

LEMMA WriteSettlementKeeps ==
  ASSUME PipelineInv, SettlementTurn, WriteSettlement
  PROVE  PipelineInv'
<1> DEFINE f == arts["settlements"]
           e == SettlementRecord
           g == WriteLine(f, e, TRUE)
<1>1. /\ spc = "artifact" /\ spc' = "marker"
      /\ arts' = [arts EXCEPT !["settlements"] = g] /\ sseq' = e.seq + 1
      /\ UNCHANGED <<journal, crashes, settled, blocked, todo>>
  BY DEF WriteSettlement, AppendRecord
<1>2. UNCHANGED <<tape, clock, eseq>>
  BY SettlementTurnLeaves
<1>3. /\ FileOK(g, e.seq + 1) /\ g.lines # << >>
      /\ Intact(f) /\ f.nl = TRUE => Intact(g) /\ g.nl = TRUE
  <2> DEFINE id == SessionKey
             cached == sseq
  <2>1. /\ FileOK(f, cached) /\ id \in 0 .. N /\ N \in Nat /\ TRUE \in BOOLEAN
        /\ e = ArtifactRecord(cached, f, id) /\ g = WriteLine(f, e, TRUE)
    BY Constants DEF PipelineInv, FilesOK, SettlementRecord
  <2> HIDE DEF f, e, g, cached, id
  <2>2. FileOK(g, e.seq + 1)
    BY <2>1, RecordWritten
  <2>3. g.lines # << >>
    BY <2>1, RecordWritten
  <2>4. Intact(f) /\ f.nl = TRUE => Intact(g) /\ g.nl = TRUE
    BY <2>1, RecordWritten
  <2> QED
    BY <2>2, <2>3, <2>4
<1>4. "settlements" \in Stages
  BY StageNames
<1>5. crashes' = 0 => crashes = 0 /\ g.nl = TRUE /\ Intact(g)
  BY <1>1, <1>3, <1>4 DEF PipelineInv, FilesOK
<1> HIDE DEF e, g
<1>6. FileOK(g, sseq')
  BY <1>1, <1>3
<1>7. FilesOK' /\ arts'["settlements"] = g /\ arts'["candidates"] = arts["candidates"]
  BY <1>1, <1>2, <1>5, <1>6, SettlementFileAfter DEF PipelineInv
<1>8. /\ JournalOK' /\ OutcomesAreEarned'
      /\ \A i \in Ids : /\ Count("candidates_generated", i)' = Count("candidates_generated", i)
                        /\ Count("counterfactual_settled", i)' = Count("counterfactual_settled", i)
      /\ Count("outcome_settled", SessionKey)' = Count("outcome_settled", SessionKey)
      /\ Over' = Over
  BY <1>1, UnjournaledTurn
<1>9. SettlementOK'
  <2>1. \A id \in blocked : id \in InSeq(todo) \/ Count("counterfactual_settled", id)' > 0
    BY <1>1, <1>8 DEF PipelineInv, SettlementOK
  <2> QED
    BY <1>1, <1>2, <1>3, <1>7, <1>8, <2>1 DEF PipelineInv, SettlementOK
<1>10. FirstPassOK'
  BY <1>1, <1>8 DEF PipelineInv, FirstPassOK
<1> QED
  BY <1>7, <1>8, <1>9, <1>10, SettlementTurnRest

\* JournalMarker writes the only marker, over outcomes that are all journaled.
LEMMA JournalMarkerKeeps ==
  ASSUME PipelineInv, SettlementTurn, JournalMarker
  PROVE  /\ PipelineInv'
         /\ \A id \in blocked : Count("counterfactual_settled", id) > 0
         /\ arts["settlements"].lines # << >>
<1>1. /\ spc = "marker" /\ spc' = "idle" /\ settled' = TRUE /\ blocked' = {}
      /\ journal' = Journaled(journal, "outcome_settled", SessionKey)
      /\ UNCHANGED <<arts, crashes, todo, sseq>>
  BY DEF JournalMarker
<1>2. UNCHANGED <<tape, clock, eseq>>
  BY SettlementTurnLeaves
<1>3. /\ settled = FALSE /\ todo = << >> /\ InSeq(todo) = {}
      /\ \A id \in blocked : id \in InSeq(todo) \/ Count("counterfactual_settled", id) > 0
      /\ arts["settlements"].lines # << >>
  BY <1>1, EmptySeqParts DEF PipelineInv, SettlementOK
<1>4. /\ JournalOK'
      /\ \A e \in EventTypes, i \in 0 .. N :
           /\ Count(e, i) \in Nat /\ Count(e, i)' \in Nat
           /\ e # "outcome_settled" => Count(e, i)' = Count(e, i)
      /\ Count("outcome_settled", SessionKey)' > 0
      /\ Count("outcome_settled", SessionKey)' <= Count("outcome_settled", SessionKey) + 1
  <2> DEFINE type == "outcome_settled"
  <2>1. SessionKey \in 0 .. N /\ type \in EventTypes /\ journal' = Journaled(journal, type, SessionKey)
    BY <1>1, Constants DEF EventTypes
  <2> HIDE DEF type
  <2>2. /\ JournalOK'
        /\ \A e \in EventTypes, i \in 0 .. N :
             /\ Count(e, i) \in Nat /\ Count(e, i)' \in Nat
             /\ e # type => Count(e, i)' = Count(e, i)
        /\ Count(type, SessionKey)' > 0 /\ Count(type, SessionKey)' <= Count(type, SessionKey) + 1
    BY <2>1, EventJournaled DEF PipelineInv
  <2> QED
    BY <2>2 DEF type
<1>5. /\ \A i \in Ids : /\ Count("candidates_generated", i)' = Count("candidates_generated", i)
                        /\ Count("counterfactual_settled", i)' = Count("counterfactual_settled", i)
      /\ Count("outcome_settled", SessionKey) \in Nat /\ Count("outcome_settled", SessionKey)' \in Nat
  <2>1. Counted \subseteq EventTypes /\ Ids \subseteq 0 .. N /\ SessionKey \in 0 .. N
    BY Constants DEF Counted, EventTypes
  <2> QED
    BY <1>4, <2>1 DEF Counted
<1>6. Count("outcome_settled", SessionKey)' <= 1
  <2>1. Count("outcome_settled", SessionKey) = 0
    BY <1>3, <1>5 DEF PipelineInv, SettlementOK
  <2> QED
    BY <1>4, <1>5, <2>1
<1>7. FilesOK'
  BY <1>1, <1>2 DEF PipelineInv, FilesOK
<1>8. SettlementOK'
  BY <1>1, <1>3, <1>4, <1>6 DEF PipelineInv, SettlementOK
<1>9. FirstPassOK'
  BY <1>1, <1>3, <1>5 DEF PipelineInv, FirstPassOK
<1>10. OutcomesAreEarned'
  BY <1>2, <1>5 DEF PipelineInv, OutcomesAreEarned
<1>11. PipelineInv'
  BY <1>1, <1>4, <1>5, <1>7, <1>8, <1>9, <1>10, SettlementTurnRest
<1> QED
  BY <1>3, <1>11

LEMMA SettlementCrashKeeps ==
  ASSUME PipelineInv, SettlementTurn, SettlementCrash
  PROVE  PipelineInv'
<1>1. /\ crashes' = crashes + 1 /\ crashes' # 0
      /\ spc' = "idle" /\ settled' = AlreadySettled
      /\ blocked' = {} /\ todo' = << >> /\ sseq' = Unset
      /\ UNCHANGED journal
  BY DEF SettlementCrash, PipelineInv, Unrepaired
<1>2. UNCHANGED <<tape, clock, eseq>>
  BY SettlementTurnLeaves
<1>3. /\ JournalOK' /\ OutcomesAreEarned'
      /\ \A i \in Ids : /\ Count("candidates_generated", i)' = Count("candidates_generated", i)
                        /\ Count("counterfactual_settled", i)' = Count("counterfactual_settled", i)
      /\ Count("outcome_settled", SessionKey)' = Count("outcome_settled", SessionKey)
      /\ Over' = Over
  BY <1>1, UnjournaledTurn
<1>4. << >> \in Seq(Ids) /\ InSeq(<< >>) = {} /\ Distinct(<< >>)
  BY EmptySeqParts
<1>5. SettlementOK'
  BY <1>1, <1>3, <1>4 DEF PipelineInv, SettlementOK, AlreadySettled
<1>6. FirstPassOK'
  BY <1>1, <1>4 DEF FirstPassOK
<1>7. FilesOK' /\ arts'["candidates"] = arts["candidates"]
  <2>1. CASE UNCHANGED arts
    <3>1. FileOK(arts["settlements"], Unset)
      BY ForgottenSeq DEF PipelineInv, FilesOK
    <3> QED
      BY <1>1, <1>2, <2>1, <3>1 DEF PipelineInv, FilesOK
  <2>2. ASSUME NEW g \in CutShort(arts["settlements"], SettlementRecord),
               arts' = [arts EXCEPT !["settlements"] = g]
        PROVE  FilesOK' /\ arts'["candidates"] = arts["candidates"]
    <3>1. FileOK(g, Unset)
      <4> DEFINE f == arts["settlements"]
                 cached == sseq
                 id == SessionKey
      <4>1. /\ FileOK(f, cached) /\ id \in 0 .. N /\ N \in Nat
            /\ g \in CutShort(f, ArtifactRecord(cached, f, id))
        BY <2>2, Constants DEF PipelineInv, FilesOK, SettlementRecord
      <4> HIDE DEF f, cached, id
      <4> QED
        BY <4>1, RecordCutShort
    <3> QED
      BY <1>1, <1>2, <2>2, <3>1, SettlementFileAfter DEF PipelineInv
  <2> QED
    BY <2>1, <2>2 DEF SettlementCrash
<1> QED
  BY <1>1, <1>3, <1>5, <1>6, <1>7, SettlementTurnRest

LEMMA SettlementTurnKeeps ==
  ASSUME PipelineInv, SettlementTurn
  PROVE  PipelineInv'
BY ReadRecordingKeeps, ReadUniversesKeeps, JournalOutcomeKeeps, WriteSettlementKeeps,
   JournalMarkerKeeps, SettlementCrashKeeps
   DEF SettlementTurn, SettlementNext, SettlementStep

-----------------------------------------------------------------------------
(* Pipeline: the invariant holds. *)

LEMMA EmptyFileOK ==
  /\ EmptyFile.lines = << >> /\ EmptyFile.nl = TRUE /\ IdsIn(EmptyFile) = {}
  /\ OnceEach(EmptyFile) /\ Intact(EmptyFile) /\ FileOK(EmptyFile, Unset)
<1> DEFINE f == EmptyFile
<1>1. f.lines = << >> /\ f.nl = TRUE /\ f.lines \in Seq(ArtifactLines)
  BY DEF EmptyFile
<1>2. f \in Files
  BY <1>1 DEF EmptyFile, Files
<1> HIDE DEF f
<1>3. DOMAIN f.lines = {}
  BY <1>1
<1>4. IdsIn(f) = {} /\ OnceEach(f) /\ Intact(f)
  BY <1>3 DEF IdsIn, OnceEach, Intact
<1>5. FileOK(f, Unset)
  BY <1>1, <1>2, <1>3 DEF FileOK
<1> QED
  BY <1>1, <1>4, <1>5 DEF f

LEMMA PipelineStarts ==
  ASSUME PipelineInit
  PROVE  PipelineInv
<1>1. /\ Init
      /\ arts = [s \in Stages |-> EmptyFile] /\ journal = EmptyJournal
      /\ epc = "idle" /\ feed = << >> /\ done = {} /\ loaded = FALSE
      /\ eseq = [s \in EngineStages |-> Unset]
      /\ spc = "idle" /\ settled = AlreadySettled /\ blocked = {} /\ todo = << >> /\ sseq = Unset
  BY DEF PipelineInit, EngineStart, SettlementStart
<1>2. Unrepaired
  <2>1. RecordingInv
    BY <1>1, RecordingInit
  <2>2. crashes = 0 /\ rpc = "idle" /\ live = FALSE /\ mfile = TRUE
    BY <1>1 DEF Init
  <2> QED
    BY <2>1, <2>2, Constants DEF Unrepaired
<1>3. JournalOK
  <2>1. \A e \in Events : Cap[e[1]] \in Nat \ {0}
    <3> TAKE e \in Events
    <3>1. e[1] \in EventTypes
      BY DEF Events
    <3> QED
      BY <3>1, Constants
  <2>2. journal \in [Events -> Nat] /\ \A e \in Events : journal[e] = 0
    BY <1>1 DEF EmptyJournal
  <2> QED
    BY <2>1, <2>2 DEF JournalOK
<1>4. \A t \in EventTypes, i \in 0 .. N : Count(t, i) = 0
  <2> TAKE t \in EventTypes, i \in 0 .. N
  <2>1. <<t, i>> \in Events
    BY DEF Events
  <2> QED
    BY <1>1, <2>1 DEF Count, EmptyJournal
<1>5. /\ \A i \in Ids : Count("candidates_generated", i) = 0 /\ Count("counterfactual_settled", i) = 0
      /\ Count("outcome_settled", SessionKey) = 0
  <2>1. Counted \subseteq EventTypes /\ Ids \subseteq 0 .. N /\ SessionKey \in 0 .. N
    BY Constants DEF Counted, EventTypes
  <2> QED
    BY <1>4, <2>1 DEF Counted
<1>6. << >> \in Seq(Ids) /\ InSeq(<< >>) = {} /\ Distinct(<< >>)
  BY EmptySeqParts
<1>7. FilesOK
  <2>1. EmptyFile \in Files
    BY EmptyFileOK DEF FileOK
  <2>2. /\ arts \in [Stages -> Files] /\ \A s \in Stages : arts[s] = EmptyFile
        /\ eseq \in [EngineStages -> {Unset} \cup Nat] /\ \A s \in EngineStages : eseq[s] = Unset
    BY <1>1, <2>1
  <2> QED
    BY <1>1, <2>2, EmptyFileOK, StageNames DEF FilesOK
<1>8. arts["candidates"] = EmptyFile
  BY <1>1, StageNames
<1>9. Underway = {}
  BY <1>1 DEF Underway
<1>10. EngineOK
  BY <1>1, <1>6 DEF EngineOK, EnginePC
<1>11. UniversesOK
  BY <1>5, <1>8, <1>9, EmptyFileOK DEF UniversesOK
<1>12. SettlementOK
  <2>1. ~(Count("outcome_settled", SessionKey) > 0) /\ Count("outcome_settled", SessionKey) <= 1
    BY <1>5
  <2>2. settled = FALSE
    <3>1. settled = AlreadySettled
      BY <1>1
    <3>2. ~AlreadySettled
      BY <2>1 DEF AlreadySettled
    <3>3. AlreadySettled \in BOOLEAN
      BY DEF AlreadySettled
    <3> QED
      BY <3>1, <3>2, <3>3
  <2> QED
    BY <1>1, <1>6, <2>1, <2>2 DEF SettlementOK
<1>13. FirstPassOK
  BY <1>1, <1>5, <1>6 DEF FirstPassOK
<1>14. OutcomesAreEarned
  BY <1>5 DEF OutcomesAreEarned
<1> QED
  BY <1>2, <1>3, <1>7, <1>10, <1>11, <1>12, <1>13, <1>14 DEF PipelineInv

LEMMA PipelineStutters ==
  ASSUME PipelineInv, UNCHANGED pipelineVars
  PROVE  PipelineInv'
<1>1. /\ UNCHANGED <<tape, clock, mpc, mseq, mfile, written, rpc, rload, rquiet, live, rstatus>>
      /\ UNCHANGED <<arts, journal, crashes, epc, feed, done, loaded, bundle, eseq>>
      /\ UNCHANGED <<spc, settled, blocked, todo, sseq>>
  BY DEF pipelineVars, recordingVars, marketVars, repairVars, engineVars, settlementVars
<1>2. Unrepaired'
  BY <1>1, RecordingLeft DEF PipelineInv, Unrepaired
<1>3. JournalOK' /\ FilesOK'
  BY <1>1 DEF PipelineInv, JournalOK, FilesOK
<1>4. EngineOK' /\ UniversesOK'
  BY <1>1 DEF PipelineInv, EngineOK, UniversesOK, Underway, cur, Count
<1>5. SettlementOK' /\ FirstPassOK' /\ OutcomesAreEarned'
  BY <1>1 DEF PipelineInv, SettlementOK, FirstPassOK, OutcomesAreEarned, Over, Generated, Count
<1> QED
  BY <1>2, <1>3, <1>4, <1>5 DEF PipelineInv

LEMMA PipelineInvariant == PipelineSpec => []PipelineInv
<1>1. PipelineInv /\ [PipelineNext]_pipelineVars => PipelineInv'
  BY MarketTurnKeeps, EngineTurnKeeps, SettlementTurnKeeps, PipelineStutters DEF PipelineNext
<1> QED
  BY <1>1, PipelineStarts, PTL DEF PipelineSpec

LEMMA ArtifactLineTypes ==
  ArtifactLines \subseteq [ok : BOOLEAN, seq : {-1} \cup Nat, id : 0 .. N]
<1>1. Garbled \in [ok : BOOLEAN, seq : {-1} \cup Nat, id : 0 .. N]
  BY Constants DEF Garbled
<1>2. ArtifactRecords \subseteq [ok : BOOLEAN, seq : {-1} \cup Nat, id : 0 .. N]
  BY DEF ArtifactRecords
<1> QED
  BY <1>1, <1>2 DEF ArtifactLines

\* Whatever the three services do and whenever they die, the artifact files
\* hold lines of records, the journal's counts stay at their bounds, and each
\* service's memory agrees with where it is in its pass.
THEOREM PipelineTypeCorrect == PipelineSpec => []PipelineTypeOK
<1>1. PipelineInv => PipelineTypeOK
  <2> SUFFICES ASSUME PipelineInv PROVE PipelineTypeOK
    OBVIOUS
  <2>1. ASSUME NEW s \in Stages
        PROVE  arts[s].lines \in Seq([ok : BOOLEAN, seq : {-1} \cup Nat, id : 0 .. N])
    <3>1. arts[s].lines \in Seq(ArtifactLines)
      BY DEF PipelineInv, FilesOK, Files
    <3> DEFINE l == arts[s].lines
               L == [ok : BOOLEAN, seq : {-1} \cup Nat, id : 0 .. N]
    <3>2. l \in Seq(ArtifactLines) /\ ArtifactLines \subseteq L
      BY <3>1, ArtifactLineTypes
    <3> HIDE DEF l, L
    <3>3. l \in Seq(L)
      BY <3>2
    <3> QED
      BY <3>3 DEF l, L
  <2>2. ASSUME NEW e \in Events PROVE journal[e] \in 0 .. Cap[e[1]]
    <3>1. Cap[e[1]] \in Nat /\ journal[e] \in Nat /\ journal[e] <= Cap[e[1]]
      <4>1. e[1] \in EventTypes
        BY DEF Events
      <4> QED
        BY <4>1, Constants DEF PipelineInv, JournalOK
    <3> QED
      BY <3>1
  <2>3. epc \in EnginePC /\ (epc = "idle" <=> feed = << >>) /\ done \in SUBSET Ids
    BY DEF PipelineInv, EngineOK
  <2>4. /\ spc \in {"idle", "read", "outcomes", "artifact", "marker"}
        /\ spc \in {"read", "outcomes"} <=> todo # << >>
        /\ blocked \in SUBSET Ids
    BY DEF PipelineInv, SettlementOK
  <2> QED
    BY <2>1, <2>2, <2>3, <2>4 DEF PipelineTypeOK
<1> QED
  BY <1>1, PipelineInvariant, PTL

\* A snapshot gets one candidate universe, on disk and in the journal, however
\* often and wherever the engine dies: a file it cannot read stops it, and one
\* it can read holds every snapshot it has journaled (_already_processed).
THEOREM OneUniverse == PipelineSpec => []OneUniversePerSnapshot
<1>1. PipelineInv => OneUniversePerSnapshot
  BY DEF PipelineInv, UniversesOK, OnceEach, OneUniversePerSnapshot
<1> QED
  BY <1>1, PipelineInvariant, PTL

\* An outcome is journaled only for a recorded snapshot with a journaled
\* universe, of a session that is over: what settlement read stays true while
\* the other two services go on (_engine_snapshots, _session_is_over).
THEOREM OutcomesEarned == PipelineSpec => []OutcomesAreEarned
<1>1. PipelineInv => OutcomesAreEarned
  BY DEF PipelineInv
<1> QED
  BY <1>1, PipelineInvariant, PTL

\* A session is marked settled once, through any death, and a snapshot is
\* settled once while nothing dies (_already_settled).
THEOREM SessionSettledOnce == PipelineSpec => []SettledOnce
<1>1. PipelineInv => SettledOnce
  BY DEF PipelineInv, SettlementOK, FirstPassOK, SettledOnce
<1> QED
  BY <1>1, PipelineInvariant, PTL

\* Every restart continues an artifact file's numbering, so a file without a
\* torn line is one replay accepts (StageArtifactStore._next_seq).
THEOREM ArtifactsStayVerifiable == PipelineSpec => []ArtifactsVerify
<1>1. PipelineInv => ArtifactsVerify
  <2> SUFFICES ASSUME PipelineInv, NEW s \in Stages
               PROVE  /\ Intact(arts[s]) => Readable(arts[s])
                      /\ crashes = 0 => Intact(arts[s])
    BY DEF ArtifactsVerify, Intact
  <2>1. crashes = 0 => Intact(arts[s])
    BY DEF PipelineInv, FilesOK
  <2>2. ASSUME Intact(arts[s]) PROVE Readable(arts[s])
    <3> DEFINE l == arts[s].lines
    <3>1. (\A i \in DOMAIN l : l[i].seq = i - 1) /\ l \in Seq(ArtifactLines)
      <4>1. \E cached : FileOK(arts[s], cached)
        BY StageNames DEF PipelineInv, FilesOK
      <4> QED
        BY <2>2, <4>1 DEF FileOK, Files
    <3> HIDE DEF l
    <3>2. DOMAIN l = 1 .. Len(l) /\ Len(l) \in Nat
      BY <3>1
    <3>3. Contiguous(l)
      <4> SUFFICES ASSUME NEW i \in DOMAIN l, i > 1
                   PROVE  l[i].seq = l[i - 1].seq + 1
        BY DEF Contiguous
      <4>1. i \in Int /\ i - 1 \in DOMAIN l
        BY <3>2
      <4>2. l[i].seq = i - 1 /\ l[i - 1].seq = i - 2
        BY <3>1, <4>1
      <4> QED
        BY <4>1, <4>2
    <3> QED
      BY <2>2, <3>3 DEF Readable, Intact, l
  <2> QED
    BY <2>1, <2>2
<1> QED
  BY <1>1, PipelineInvariant, PTL

LEMMA OtherCountsStay ==
  ASSUME JournalOK, NEW type, NEW id, journal' = Journaled(journal, type, id),
         NEW t \in EventTypes, t # type, NEW i \in 0 .. N
  PROVE  Count(t, i)' = Count(t, i)
<1> DEFINE k == <<type, id>>
           e == <<t, i>>
<1>1. e \in Events /\ e # k
  BY DEF Events
<1>2. journal' = [journal EXCEPT ![k] = IF journal[k] < Cap[type] THEN journal[k] + 1 ELSE journal[k]]
  BY DEF Journaled
<1>3. journal \in [Events -> Nat]
  BY DEF JournalOK
<1> HIDE DEF k, e
<1>4. journal'[e] = journal[e]
  BY <1>1, <1>2, <1>3
<1> QED
  BY <1>4 DEF Count, e

\* The session's marker is journaled over outcomes that are all in the journal
\* and after its artifact (settle_session, then the marker).
THEOREM MarkerVouched == PipelineSpec => MarkerVouches
<1>1. ASSUME PipelineInv, [PipelineNext]_pipelineVars,
             Count("outcome_settled", SessionKey) = 0, Count("outcome_settled", SessionKey)' > 0
      PROVE  /\ \A id \in blocked : Count("counterfactual_settled", id) > 0
             /\ arts["settlements"].lines # << >>
  <2>1. CASE SettlementTurn /\ JournalMarker
    BY <1>1, <2>1, JournalMarkerKeeps
  <2>2. CASE UNCHANGED journal
    <3>1. Count("outcome_settled", SessionKey)' = Count("outcome_settled", SessionKey)
      BY <2>2 DEF Count, SessionKey
    <3> QED
      BY <1>1, <3>1
  <2>3. ASSUME NEW type, NEW id, type # "outcome_settled", journal' = Journaled(journal, type, id)
        PROVE  FALSE
    <3>1. "outcome_settled" \in EventTypes /\ SessionKey \in 0 .. N
      BY Constants DEF EventTypes
    <3> DEFINE t == "outcome_settled"
    <3>2. t \in EventTypes /\ t # type
      BY <2>3, <3>1
    <3> HIDE DEF t
    <3>3. Count(t, SessionKey)' = Count(t, SessionKey)
      BY <1>1, <2>3, <3>1, <3>2, OtherCountsStay DEF PipelineInv
    <3>4. Count("outcome_settled", SessionKey)' = Count("outcome_settled", SessionKey)
      BY <3>3 DEF t
    <3> QED
      BY <1>1, <3>4
  <2>4. \/ UNCHANGED journal
        \/ SettlementTurn /\ JournalMarker
        \/ \E type \in EventTypes \ {"outcome_settled"}, id \in {cur, Head(todo)} :
             journal' = Journaled(journal, type, id)
    <3>1. CASE UNCHANGED pipelineVars
      BY <3>1 DEF pipelineVars
    <3>2. CASE MarketTurn
      BY <3>2 DEF MarketTurn
    <3>3. CASE EngineTurn
      BY <3>3 DEF EngineTurn, EngineNext, EngineStep, EventTypes,
           BeginPass, RejectSnapshot, FeatureStageFails, WriteFeatures, JournalFeatures,
           JournalFailedFamilies, ForecastUnavailable, WriteForecast, JournalForecast,
           RejectCandidates, WriteCandidates, JournalCandidates, EngineCrash
    <3>4. CASE SettlementTurn
      BY <3>4 DEF SettlementTurn, SettlementNext, SettlementStep, EventTypes, ReadRecording,
           ReadUniverses, JournalOutcome, WriteSettlement, SettlementCrash
    <3> QED
      BY <1>1, <3>1, <3>2, <3>3, <3>4 DEF PipelineNext
  <2> QED
    BY <2>1, <2>2, <2>3, <2>4
<1>2. PipelineInv /\ [PipelineNext]_pipelineVars
        => [Count("outcome_settled", SessionKey) = 0 /\ Count("outcome_settled", SessionKey)' > 0
              => /\ \A id \in blocked : Count("counterfactual_settled", id) > 0
                 /\ arts["settlements"].lines # << >>]_pipelineVars
  BY <1>1
<1> QED
  BY <1>2, PipelineInvariant, PTL DEF PipelineSpec, MarkerVouches

-----------------------------------------------------------------------------
(* Pipeline: to those who read what the services leave, each snapshot lives *)
(* the life SnapshotLife describes.  The journal of candidates offers one,  *)
(* the journal of outcomes settles one, the write that ends, or the death   *)
(* that leaves a whole record, records one; the rest is a stutter.          *)

Settled == {id \in Ids : Count("counterfactual_settled", id) > 0}
Marked == Count("outcome_settled", SessionKey) > 0

\* What a pass works on is on the tape, whatever the market service wrote since.
FeedIsRecorded == InSeq(feed) \subseteq IdsIn(tape)

\* A pass holds a batch from the moment it has read the universes until its end.
BatchOK ==
  /\ spc \in {"idle", "read"} => blocked = {}
  /\ spc \in {"outcomes", "artifact", "marker"} => blocked # {} /\ blocked \subseteq Generated
  /\ spc = "outcomes" => InSeq(todo) \subseteq blocked

LifeInv == PipelineInv /\ FeedIsRecorded /\ BatchOK
LifeStays == UNCHANGED <<IdsIn(tape), Over, Generated, blocked, Settled, Marked>>
LifeSteps == (Life!Next \/ LifeStays) /\ FeedIsRecorded' /\ BatchOK'

LEMMA CountsGive ==
  /\ (\A i \in Ids : Count("candidates_generated", i)' = Count("candidates_generated", i))
       => Generated' = Generated
  /\ (\A i \in Ids : Count("counterfactual_settled", i)' = Count("counterfactual_settled", i))
       => Settled' = Settled
  /\ Count("outcome_settled", SessionKey)' = Count("outcome_settled", SessionKey)
       => Marked' = Marked
BY DEF Generated, Settled, Marked

LEMMA SameJournal ==
  ASSUME UNCHANGED journal
  PROVE  UNCHANGED <<Generated, Settled, Marked>>
BY DEF Generated, Settled, Marked, Count, SessionKey

LEMMA SameTape ==
  ASSUME UNCHANGED <<tape, clock>>
  PROVE  IdsIn(tape)' = IdsIn(tape) /\ Over' = Over
BY DEF Over

LEMMA TapeMoves ==
  ASSUME PipelineInv, MarketTurn
  PROVE  /\ (Over => Over') /\ IdsIn(tape) \subseteq IdsIn(tape')
         /\ \/ IdsIn(tape') = IdsIn(tape)
            \/ /\ clock \in Ids /\ IdsIn(tape') = IdsIn(tape) \cup {clock}
               /\ \A t \in IdsIn(tape) : t < clock
<1>1. /\ N \in Nat /\ RecordingInv /\ mfile = TRUE /\ MarketNext
      /\ clock \in Nat /\ IdsIn(tape) \subseteq Int
  <2>1. N \in Nat /\ RecordingInv /\ mfile = TRUE /\ MarketNext /\ clock \in Nat
    BY Constants DEF PipelineInv, Unrepaired, RecordingInv, ProcessesOK, MarketTurn
  <2>2. IdsIn(tape) \subseteq Ids
    BY <2>1, TapeReads DEF IdsIn
  <2>3. Ids \subseteq Int
    BY <2>1 DEF Ids
  <2> QED
    BY <2>1, <2>2, <2>3
<1>2. clock' \in Nat /\ clock <= clock'
  <2>1. clock' = clock \/ clock' = clock + 1
    BY <1>1 DEF MarketNext, TickMissed, TickOpen, TickWriteSome, TickWritten, MarketCrash
  <2> QED
    BY <1>1, <2>1
<1>3. ASSUME mpc # "idle", NEW b \in Seq(Lines(clock - 1)), Len(b) <= clock - 1, InOrder(b),
             tape.lines = b \/ tape.lines = Append(b, Garbled),
             tape'.lines = Append(b, MarketRecord)
      PROVE  /\ clock \in Ids /\ IdsIn(tape') = IdsIn(tape) \cup {clock}
             /\ \A t \in IdsIn(tape) : t < clock
  <2>1. clock \in Ids
    BY <1>1, <1>3, Constants DEF RecordingInv, ProcessesOK, Unset
  <2> HIDE DEF MarketRecord
  <2> QED
    BY <1>1, <1>3, <2>1, LandingKeeps
<1>4. \/ IdsIn(tape') = IdsIn(tape)
      \/ /\ clock \in Ids /\ IdsIn(tape') = IdsIn(tape) \cup {clock}
         /\ \A t \in IdsIn(tape) : t < clock
  <2>1. CASE UNCHANGED tape
    BY <2>1
  <2>2. CASE TickOpen \/ TickWriteSome
    BY <1>1, <2>2, TickOpenKeeps, TickWriteSomeKeeps
  <2>3. CASE TickWritten
    <3>1. PICK b \in Seq(Lines(clock - 1)) :
            /\ Len(b) <= clock - 1 /\ InOrder(b)
            /\ tape.lines = b \/ tape.lines = Append(b, Garbled)
            /\ tape' = [lines |-> Append(b, MarketRecord), nl |-> TRUE]
      BY <1>1, <2>3, WrittenLands
    <3>2. mpc # "idle"
      BY <2>3 DEF TickWritten
    <3> HIDE DEF MarketRecord
    <3>3. tape'.lines = Append(b, MarketRecord)
      BY <3>1
    <3> QED
      BY <1>3, <3>1, <3>2, <3>3
  <2>4. CASE /\ mpc = "partial"
             /\ tape' = [tape EXCEPT !.lines[Len(tape.lines)] = MarketRecord]
    <3>1. PICK b \in Seq(Lines(clock - 1)) :
            /\ Len(b) <= clock - 1 /\ InOrder(b)
            /\ tape.lines = Append(b, Garbled)
            /\ tape' = [lines |-> Append(b, MarketRecord), nl |-> tape.nl]
      BY <1>1, <2>4, DeathLands
    <3>2. mpc # "idle"
      BY <2>4
    <3> HIDE DEF MarketRecord
    <3>3. tape'.lines = Append(b, MarketRecord)
      BY <3>1
    <3> QED
      BY <1>3, <3>1, <3>2, <3>3
  <2>5. TickMissed => UNCHANGED tape
    BY DEF TickMissed
  <2>6. MarketCrash =>
          \/ UNCHANGED tape
          \/ mpc = "partial" /\ tape' = [tape EXCEPT !.lines[Len(tape.lines)] = MarketRecord]
    BY DEF MarketCrash
  <2> QED
    BY <1>1, <2>1, <2>2, <2>3, <2>4, <2>5, <2>6 DEF MarketNext
<1>5. IdsIn(tape) \subseteq IdsIn(tape')
  BY <1>4
<1>6. ASSUME Over PROVE Over'
  <2>1. RolloverAt \in Nat /\ CloseAt \in Nat
    BY Constants
  <2>2. CASE clock >= RolloverAt
    <3>1. clock' >= RolloverAt
      BY <1>1, <1>2, <2>1, <2>2
    <3> QED
      BY <3>1 DEF Over
  <2>3. CASE \E last \in IdsIn(tape) : last >= CloseAt
    BY <1>5, <2>3 DEF Over
  <2> QED
    BY <1>6, <2>2, <2>3 DEF Over
<1> QED
  BY <1>4, <1>5, <1>6

LEMMA MarketLives ==
  ASSUME LifeInv, MarketTurn
  PROVE  LifeSteps
<1>1. /\ UNCHANGED <<journal, feed, spc, blocked, todo>>
  BY DEF MarketTurn, engineVars, settlementVars
<1>2. UNCHANGED <<Generated, Settled, Marked>>
  BY <1>1, SameJournal
<1>3. /\ (Over => Over') /\ IdsIn(tape) \subseteq IdsIn(tape')
      /\ \/ IdsIn(tape') = IdsIn(tape)
         \/ /\ clock \in Ids /\ IdsIn(tape') = IdsIn(tape) \cup {clock}
            /\ \A t \in IdsIn(tape) : t < clock
  BY TapeMoves DEF LifeInv
<1>4. FeedIsRecorded' /\ BatchOK'
  BY <1>1, <1>2, <1>3 DEF LifeInv, FeedIsRecorded, BatchOK
<1>5. CASE IdsIn(tape') = IdsIn(tape)
  <2>1. CASE Over' = Over
    BY <1>1, <1>2, <1>4, <1>5, <2>1 DEF LifeSteps, LifeStays
  <2>2. CASE Over' = TRUE
    <3>1. Life!EndSession
      BY <1>1, <1>2, <1>5, <2>2 DEF Life!EndSession, Over, Settled, Marked
    <3> QED
      BY <1>4, <3>1 DEF LifeSteps, Life!Next
  <2>3. Over' = Over \/ Over' = TRUE
    BY <1>3 DEF Over
  <2> QED
    BY <2>1, <2>2, <2>3
<1>6. CASE /\ clock \in Ids /\ IdsIn(tape') = IdsIn(tape) \cup {clock}
           /\ \A t \in IdsIn(tape) : t < clock
  <2>1. Over' = Over \/ Over' = TRUE
    BY <1>3 DEF Over
  <2>2. PICK c \in Ids : c = clock
    BY <1>6
  <2>3. IdsIn(tape') = IdsIn(tape) \cup {c} /\ \A t \in IdsIn(tape) : t < c
    BY <1>6, <2>2
  <2>4. Life!Record(c)
    BY <1>1, <1>2, <2>1, <2>3 DEF Life!Record, Over, Settled, Marked
  <2> QED
    BY <1>4, <2>4 DEF LifeSteps, Life!Next
<1> QED
  BY <1>3, <1>5, <1>6

LEMMA EngineLives ==
  ASSUME LifeInv, EngineTurn
  PROVE  LifeSteps
<1>1. UNCHANGED <<tape, clock, spc, settled, blocked, todo>>
  BY EngineTurnLeaves DEF LifeInv
<1>2. IdsIn(tape)' = IdsIn(tape) /\ Over' = Over
  BY <1>1, SameTape
<1>3. EngineOK /\ JournalOK /\ RecordingInv
  BY DEF LifeInv, PipelineInv, Unrepaired
<1>4. ASSUME \A i \in Ids :
               /\ Count("candidates_generated", i)' = Count("candidates_generated", i)
               /\ Count("counterfactual_settled", i)' = Count("counterfactual_settled", i),
             Count("outcome_settled", SessionKey)' = Count("outcome_settled", SessionKey),
             FeedIsRecorded'
      PROVE  LifeSteps
  <2>1. UNCHANGED <<Generated, Settled, Marked>>
    BY <1>4, CountsGive
  <2>2. BatchOK'
    BY <1>1, <2>1 DEF LifeInv, BatchOK
  <2> QED
    BY <1>1, <1>2, <1>4, <2>1, <2>2 DEF LifeSteps, LifeStays
<1>5. ASSUME CountsLeft, FeedIsRecorded' PROVE LifeSteps
  <2>1. Ids \subseteq 0 .. N /\ SessionKey \in 0 .. N
    BY Constants
  <2>2. /\ \A i \in Ids :
             /\ Count("candidates_generated", i)' = Count("candidates_generated", i)
             /\ Count("counterfactual_settled", i)' = Count("counterfactual_settled", i)
        /\ Count("outcome_settled", SessionKey)' = Count("outcome_settled", SessionKey)
    BY <1>5, <2>1 DEF CountsLeft, Counted
  <2> QED
    BY <1>4, <1>5, <2>2
<1>6. CASE \/ FeatureStageFails \/ WriteFeatures \/ JournalFeatures \/ JournalFailedFamilies
           \/ ForecastUnavailable \/ WriteForecast \/ JournalForecast \/ WriteCandidates
  <2>1. UNCHANGED feed /\ epc # "idle"
    BY <1>6 DEF FeatureStageFails, WriteFeatures, JournalFeatures, JournalFailedFamilies,
         ForecastUnavailable, WriteForecast, JournalForecast, WriteCandidates, Rebuilt
  <2>2. FeedIsRecorded'
    BY <1>1, <2>1 DEF LifeInv, FeedIsRecorded
  <2>3. UNCHANGED journal
        \/ \E type \in EventTypes \ Counted : journal' = Journaled(journal, type, cur)
    BY <1>6 DEF FeatureStageFails, WriteFeatures, JournalFeatures, JournalFailedFamilies,
         ForecastUnavailable, WriteForecast, JournalForecast, WriteCandidates, EventTypes, Counted
  <2>4. CountsLeft
    <3>1. cur \in Ids
      BY <1>3, <2>1, Current
    <3> QED
      BY <1>3, <2>3, <3>1, NothingJournaled, OtherEventJournaled
  <2> QED
    BY <1>5, <2>2, <2>4
<1>7. CASE RejectSnapshot \/ RejectCandidates
  <2>1. /\ epc # "idle" /\ NextSnapshot
        /\ \E type \in EventTypes \ Counted : journal' = Journaled(journal, type, cur)
    BY <1>7 DEF RejectSnapshot, RejectCandidates, EventTypes, Counted
  <2>2. InSeq(feed') \subseteq InSeq(feed) /\ cur \in Ids
    BY <1>3, <2>1, NextSnapshotIs, Current
  <2>3. FeedIsRecorded'
    BY <1>1, <2>2 DEF LifeInv, FeedIsRecorded
  <2>4. CountsLeft
    BY <1>3, <2>1, <2>2, OtherEventJournaled
  <2> QED
    BY <1>5, <2>3, <2>4
<1>8. CASE BeginPass
  <2>1. /\ Readable(tape) /\ UNCHANGED journal
        /\ feed' = Those(TapeIds, Ids \ DoneOnDisk)
    BY <1>8 DEF BeginPass, SnapshotIds, TapeIds
  <2>2. TapeIds \in Seq(Ids) /\ InSeq(TapeIds) = IdsIn(tape)
    BY <1>3, <2>1, TapeReads
  <2>3. InSeq(feed') \subseteq IdsIn(tape)
    BY <2>1, <2>2, ThoseDistinct
  <2>4. FeedIsRecorded'
    BY <1>1, <2>3 DEF FeedIsRecorded
  <2>5. CountsLeft
    BY <1>3, <2>1, NothingJournaled
  <2> QED
    BY <1>5, <2>4, <2>5
<1>9. CASE EngineCrash
  <2>1. feed' = << >> /\ UNCHANGED journal
    BY <1>9 DEF EngineCrash
  <2>2. FeedIsRecorded'
    BY <2>1, EmptySeqParts DEF FeedIsRecorded
  <2>3. CountsLeft
    BY <1>3, <2>1, NothingJournaled
  <2> QED
    BY <1>5, <2>2, <2>3
<1>10. CASE JournalCandidates
  <2>1. /\ epc # "idle" /\ NextSnapshot
        /\ journal' = Journaled(journal, "candidates_generated", cur)
    BY <1>10 DEF JournalCandidates
  <2>2. /\ InSeq(feed') \subseteq InSeq(feed)
        /\ cur \in Ids /\ cur \in InSeq(feed) /\ cur \notin done /\ loaded = TRUE
    BY <1>3, <2>1, NextSnapshotIs, Current
  <2>3. FeedIsRecorded'
    BY <1>1, <2>2 DEF LifeInv, FeedIsRecorded
  <2>4. PICK c \in Ids : c = cur
    BY <2>2
  <2>5. c \in IdsIn(tape) /\ c \notin Generated
    BY <1>3, <2>2, <2>4 DEF LifeInv, FeedIsRecorded, EngineOK, Generated
  <2> DEFINE type == "candidates_generated"
  <2>6. type \in EventTypes /\ c \in 0 .. N /\ journal' = Journaled(journal, type, c)
    BY <2>1, <2>4, Constants DEF EventTypes
  <2> HIDE DEF type
  <2>7. /\ \A t \in EventTypes, i \in 0 .. N :
             t # type \/ i # c => Count(t, i)' = Count(t, i)
        /\ Count(type, c)' > 0
    BY <1>3, <2>6, EventJournaled
  <2>8. /\ \A i \in Ids : Count("counterfactual_settled", i)' = Count("counterfactual_settled", i)
        /\ Count("outcome_settled", SessionKey)' = Count("outcome_settled", SessionKey)
        /\ \A i \in Ids \ {c} : Count("candidates_generated", i)' = Count("candidates_generated", i)
        /\ Count("candidates_generated", c)' > 0
    <3>1. Ids \subseteq 0 .. N /\ SessionKey \in 0 .. N
      BY Constants
    <3> QED
      BY <2>7, <3>1 DEF type, EventTypes
  <2>9. UNCHANGED <<Settled, Marked>>
    BY <2>8, CountsGive
  <2>10. Generated' = Generated \cup {c}
    BY <2>8 DEF Generated
  <2>11. Life!Offer(c)
    BY <1>1, <1>2, <2>5, <2>9, <2>10 DEF Life!Offer, Over, Settled, Marked
  <2>12. BatchOK'
    BY <1>1, <2>10 DEF LifeInv, BatchOK
  <2> QED
    BY <2>3, <2>11, <2>12 DEF LifeSteps, Life!Next
<1> QED
  BY <1>6, <1>7, <1>8, <1>9, <1>10 DEF EngineTurn, EngineNext, EngineStep

LEMMA SettlementLives ==
  ASSUME LifeInv, SettlementTurn
  PROVE  LifeSteps
<1>1. UNCHANGED <<tape, clock, feed>>
  BY SettlementTurnLeaves DEF LifeInv
<1>2. IdsIn(tape)' = IdsIn(tape) /\ Over' = Over
  BY <1>1, SameTape
<1>3. FeedIsRecorded'
  BY <1>1 DEF LifeInv, FeedIsRecorded
<1>4. SettlementOK /\ JournalOK /\ RecordingInv /\ BatchOK
  BY DEF LifeInv, PipelineInv, Unrepaired
<1>5. CASE ReadRecording
  <2>1. UNCHANGED <<journal, blocked>> /\ spc = "idle" /\ spc' = "read"
    BY <1>5 DEF ReadRecording
  <2>2. UNCHANGED <<Generated, Settled, Marked>>
    BY <2>1, SameJournal
  <2>3. BatchOK'
    BY <1>4, <2>1 DEF BatchOK
  <2> QED
    BY <1>2, <1>3, <2>1, <2>2, <2>3 DEF LifeSteps, LifeStays
<1>6. CASE ReadUniverses
  <2> DEFINE S == {id \in Generated : Shape[id] = "good"}
             t == Those(todo, S)
  <2>1. /\ spc = "read" /\ todo' = t /\ spc' = IF t = << >> THEN "idle" ELSE "outcomes"
        /\ blocked' = InSeq(t) /\ UNCHANGED journal
    BY <1>6 DEF ReadUniverses, InSeq
  <2>2. UNCHANGED <<Generated, Settled, Marked>>
    BY <2>1, SameJournal
  <2>3. todo \in Seq(Ids) /\ todo # << >> /\ Over /\ ~Marked /\ blocked = {}
    BY <1>4, <2>1 DEF SettlementOK, BatchOK, Marked
  <2>4. S \subseteq Generated
    OBVIOUS
  <2> HIDE DEF S
  <2>5. t \in Seq(Ids) /\ InSeq(t) = InSeq(todo) \cap S
    BY <2>3, ThoseDistinct
  <2> HIDE DEF t
  <2>6. InSeq(t) \subseteq Generated
    BY <2>4, <2>5
  <2>7. CASE t = << >>
    <3>1. blocked' = {} /\ spc' = "idle"
      BY <2>1, <2>7, EmptySeqParts
    <3>2. BatchOK'
      BY <3>1 DEF BatchOK
    <3> QED
      BY <1>2, <1>3, <2>2, <2>3, <3>1, <3>2 DEF LifeSteps, LifeStays
  <2>8. CASE t # << >>
    <3>1. InSeq(t) # {}
      BY <2>5, <2>8, SeqParts
    <3>2. spc' = "outcomes" /\ todo' = t /\ blocked' = InSeq(t)
      BY <2>1, <2>8
    <3>3. BatchOK'
      BY <2>2, <2>6, <3>1, <3>2 DEF BatchOK
    <3>4. Life!BeginBatch
      BY <1>2, <2>2, <2>3, <2>6, <3>1, <3>2 DEF Life!BeginBatch, Over, Settled, Marked
    <3> QED
      BY <1>3, <3>3, <3>4 DEF LifeSteps, Life!Next
  <2> QED
    BY <2>7, <2>8
<1>7. CASE JournalOutcome
  <2>1. /\ spc = "outcomes" /\ todo' = Tail(todo) /\ spc' \in {"outcomes", "artifact"}
        /\ journal' = Journaled(journal, "counterfactual_settled", Head(todo))
        /\ UNCHANGED blocked
    BY <1>7 DEF JournalOutcome
  <2>2. todo \in Seq(Ids) /\ todo # << >> /\ InSeq(todo) \subseteq blocked
    BY <1>4, <2>1 DEF SettlementOK, BatchOK
  <2>3. Head(todo) \in Ids /\ Head(todo) \in InSeq(todo) /\ InSeq(Tail(todo)) \subseteq InSeq(todo)
    BY <2>2, SeqParts
  <2>4. PICK h \in Ids : h = Head(todo) /\ h \in blocked
    BY <2>2, <2>3
  <2> DEFINE type == "counterfactual_settled"
  <2>5. type \in EventTypes /\ h \in 0 .. N /\ journal' = Journaled(journal, type, h)
    BY <2>1, <2>4, Constants DEF EventTypes
  <2> HIDE DEF type
  <2>6. /\ \A e \in EventTypes, i \in 0 .. N :
             e # type \/ i # h => Count(e, i)' = Count(e, i)
        /\ Count(type, h)' > 0
    BY <1>4, <2>5, EventJournaled
  <2>7. /\ \A i \in Ids : Count("candidates_generated", i)' = Count("candidates_generated", i)
        /\ Count("outcome_settled", SessionKey)' = Count("outcome_settled", SessionKey)
        /\ \A i \in Ids \ {h} : Count("counterfactual_settled", i)' = Count("counterfactual_settled", i)
        /\ Count("counterfactual_settled", h)' > 0
    <3>1. Ids \subseteq 0 .. N /\ SessionKey \in 0 .. N
      BY Constants
    <3> QED
      BY <2>6, <3>1 DEF type, EventTypes
  <2>8. UNCHANGED <<Generated, Marked>>
    BY <2>7, CountsGive
  <2>9. Settled' = Settled \cup {h}
    BY <2>7 DEF Settled
  <2>10. Life!Settle(h)
    BY <1>2, <2>1, <2>4, <2>8, <2>9 DEF Life!Settle, Over, Settled, Marked
  <2>11. BatchOK'
    BY <1>4, <2>1, <2>2, <2>3, <2>8 DEF BatchOK
  <2> QED
    BY <1>3, <2>10, <2>11 DEF LifeSteps, Life!Next
<1>8. CASE WriteSettlement
  <2>1. UNCHANGED <<journal, blocked>> /\ spc = "artifact" /\ spc' = "marker"
    BY <1>8 DEF WriteSettlement
  <2>2. UNCHANGED <<Generated, Settled, Marked>>
    BY <2>1, SameJournal
  <2>3. BatchOK'
    BY <1>4, <2>1, <2>2 DEF BatchOK
  <2> QED
    BY <1>2, <1>3, <2>1, <2>2, <2>3 DEF LifeSteps, LifeStays
<1>9. CASE JournalMarker
  <2>1. /\ spc = "marker" /\ spc' = "idle" /\ blocked' = {}
        /\ journal' = Journaled(journal, "outcome_settled", SessionKey)
    BY <1>9 DEF JournalMarker
  <2>2. /\ ~Marked /\ blocked # {} /\ blocked \subseteq Ids
        /\ \A id \in blocked : Count("counterfactual_settled", id) > 0
    BY <1>4, <1>9, <2>1, JournalMarkerKeeps DEF SettlementOK, BatchOK, Marked, LifeInv
  <2>3. blocked \subseteq Settled
    BY <2>2 DEF Settled
  <2> DEFINE type == "outcome_settled"
  <2>4. type \in EventTypes /\ SessionKey \in 0 .. N /\ journal' = Journaled(journal, type, SessionKey)
    BY <2>1, Constants DEF EventTypes
  <2> HIDE DEF type
  <2>5. /\ \A e \in EventTypes, i \in 0 .. N :
             e # type => Count(e, i)' = Count(e, i)
        /\ Count(type, SessionKey)' > 0
    BY <1>4, <2>4, EventJournaled
  <2>6. /\ \A i \in Ids :
             /\ Count("candidates_generated", i)' = Count("candidates_generated", i)
             /\ Count("counterfactual_settled", i)' = Count("counterfactual_settled", i)
        /\ Count("outcome_settled", SessionKey)' > 0
    <3>1. Ids \subseteq 0 .. N
      BY Constants
    <3> QED
      BY <2>5, <3>1 DEF type, EventTypes
  <2>7. UNCHANGED <<Generated, Settled>>
    BY <2>6, CountsGive
  <2>8. Marked' = TRUE
    BY <2>6 DEF Marked
  <2>9. Life!Mark
    BY <1>2, <2>1, <2>2, <2>3, <2>7, <2>8 DEF Life!Mark, Over, Settled, Marked
  <2>10. BatchOK'
    BY <2>1 DEF BatchOK
  <2> QED
    BY <1>3, <2>9, <2>10 DEF LifeSteps, Life!Next
<1>10. CASE SettlementCrash
  <2>1. UNCHANGED journal /\ blocked' = {} /\ spc' = "idle"
    BY <1>10 DEF SettlementCrash
  <2>2. UNCHANGED <<Generated, Settled, Marked>>
    BY <2>1, SameJournal
  <2>3. Life!AbandonBatch
    BY <1>2, <2>1, <2>2 DEF Life!AbandonBatch, Over, Settled, Marked
  <2>4. BatchOK'
    BY <2>1 DEF BatchOK
  <2> QED
    BY <1>3, <2>3, <2>4 DEF LifeSteps, Life!Next
<1> QED
  BY <1>5, <1>6, <1>7, <1>8, <1>9, <1>10 DEF SettlementTurn, SettlementNext, SettlementStep

LEMMA PipelineLives ==
  ASSUME LifeInv, PipelineNext \/ UNCHANGED pipelineVars
  PROVE  /\ FeedIsRecorded' /\ BatchOK'
         /\ Life!Next \/ UNCHANGED Life!life
<1>1. CASE PipelineNext
  <2>1. LifeSteps
    BY <1>1, MarketLives, EngineLives, SettlementLives DEF PipelineNext
  <2> QED
    BY <2>1 DEF LifeSteps, LifeStays, Life!life, Over, Settled, Marked
<1>2. CASE UNCHANGED pipelineVars
  <2>1. UNCHANGED <<tape, clock, journal, feed, spc, blocked, todo>>
    BY <1>2 DEF pipelineVars, engineVars, settlementVars
  <2>2. UNCHANGED <<Generated, Settled, Marked>> /\ IdsIn(tape)' = IdsIn(tape) /\ Over' = Over
    BY <2>1, SameJournal, SameTape
  <2>3. FeedIsRecorded' /\ BatchOK'
    BY <2>1, <2>2 DEF LifeInv, FeedIsRecorded, BatchOK
  <2>4. UNCHANGED Life!life
    BY <2>1, <2>2 DEF Life!life, Over, Settled, Marked
  <2> QED
    BY <2>3, <2>4
<1> QED
  BY <1>1, <1>2

LEMMA LifeStarts ==
  ASSUME PipelineInit
  PROVE  Life!Init /\ FeedIsRecorded /\ BatchOK
<1>1. /\ journal = EmptyJournal /\ feed = << >> /\ spc = "idle" /\ blocked = {}
  BY DEF PipelineInit, EngineStart, SettlementStart
<1>2. \A t \in Counted, i \in 0 .. N : Count(t, i) = 0
  BY <1>1 DEF Count, EmptyJournal, Counted, Events, EventTypes
<1>3. Ids \subseteq 0 .. N /\ SessionKey \in 0 .. N
  BY Constants
<1>4. Generated = {} /\ Settled = {} /\ Marked = FALSE
  <2>1. /\ \A i \in Ids : ~(Count("candidates_generated", i) > 0)
        /\ \A i \in Ids : ~(Count("counterfactual_settled", i) > 0)
        /\ ~(Count("outcome_settled", SessionKey) > 0)
    BY <1>2, <1>3 DEF Counted
  <2>2. Generated = {} /\ Settled = {}
    BY <2>1 DEF Generated, Settled
  <2>3. Marked = FALSE
    BY <2>1 DEF Marked
  <2> QED
    BY <2>2, <2>3
<1>5. IdsIn(tape) \subseteq Ids
  BY PipelineStarts, TapeReads DEF PipelineInv, Unrepaired, IdsIn
<1>6. FeedIsRecorded /\ BatchOK
  BY <1>1, EmptySeqParts DEF FeedIsRecorded, BatchOK
<1>7. Over \in BOOLEAN
  BY DEF Over
<1>8. Life!Init
  BY <1>1, <1>4, <1>5, <1>7 DEF Life!Init, Over, Settled, Marked
<1> QED
  BY <1>6, <1>8

\* Whatever the interleaving of the three services and their deaths, snapshots
\* are recorded in order, offered once and only when recorded, and settled in
\* batches of offered ones in a session that is over, which the marker closes
\* for good (_tick, _process_session, _settle, _already_settled).
THEOREM PipelineIsALife == PipelineSpec => ImplementsSnapshotLife
<1>1. PipelineInit => Life!Init /\ FeedIsRecorded /\ BatchOK
  BY LifeStarts
<1>2. PipelineInv /\ FeedIsRecorded /\ BatchOK /\ [PipelineNext]_pipelineVars
        => FeedIsRecorded' /\ BatchOK' /\ [Life!Next]_(Life!life)
  BY PipelineLives DEF LifeInv
<1> QED
  BY <1>1, <1>2, PipelineInvariant, PTL
     DEF PipelineSpec, ImplementsSnapshotLife, Life!Spec

\* Nothing is settled after the marker: what SnapshotLife promises of a batch,
\* carried over to the journal of the pipeline (_already_settled, _settle).
THEOREM NothingAfterTheMarker ==
  PipelineSpec => [][Marked => Settled' = Settled]_pipelineVars
<1> DEFINE NoBatch == Marked => blocked = {}
<1>1. Life!Init => NoBatch
  BY DEF Life!Init, Marked
<1>2. ASSUME NoBatch, Life!Next PROVE NoBatch' /\ (Marked => Settled' = Settled)
  <2>1. CASE \E s \in Ids : Life!Record(s) \/ Life!Offer(s)
    BY <1>2, <2>1 DEF Life!Record, Life!Offer, Marked, Settled
  <2>2. CASE \E s \in Ids : Life!Settle(s)
    <3>1. blocked # {} /\ blocked' = blocked /\ Marked' = Marked
      BY <2>2 DEF Life!Settle, Marked
    <3> QED
      BY <1>2, <3>1
  <2>3. CASE Life!BeginBatch
    BY <2>3 DEF Life!BeginBatch, Marked, Settled
  <2>4. CASE Life!EndSession \/ Life!AbandonBatch \/ Life!Mark
    BY <1>2, <2>4 DEF Life!EndSession, Life!AbandonBatch, Life!Mark, Marked, Settled
  <2> QED
    BY <1>2, <2>1, <2>2, <2>3, <2>4 DEF Life!Next
<1>3. ASSUME NoBatch, UNCHANGED Life!life PROVE NoBatch' /\ (Marked => Settled' = Settled)
  BY <1>3 DEF Life!life, Marked, Settled
<1>4. NoBatch /\ [Life!Next]_(Life!life)
        => NoBatch' /\ [Marked => Settled' = Settled]_pipelineVars
  BY <1>2, <1>3
<1> HIDE DEF NoBatch
<1> QED
  BY <1>1, <1>4, PipelineIsALife, PTL DEF ImplementsSnapshotLife, Life!Spec

-----------------------------------------------------------------------------
(* The other services only read the recording: between them it is the log  *)
(* it is on its own, and since no repair runs it is never broken.          *)

LEMMA PipelineTurnsTheLog ==
  ASSUME PipelineInv, PipelineNext \/ UNCHANGED pipelineVars
  PROVE  Log!Next \/ UNCHANGED <<Parsable(tape), written, live>>
<1>1. RecordingInv /\ LoadIsCurrent
  BY DEF PipelineInv, Unrepaired, LoadIsCurrent
<1>2. CASE MarketTurn
  <2>1. Next
    BY <1>2 DEF MarketTurn, Next
  <2> QED
    BY <1>1, <2>1, RecordingRefines
<1>3. CASE EngineTurn \/ SettlementTurn \/ UNCHANGED pipelineVars
  <2>1. UNCHANGED <<tape, written, live>>
    BY <1>3, EngineTurnLeaves, SettlementTurnLeaves
       DEF EngineTurn, SettlementTurn, pipelineVars, recordingVars, marketVars, repairVars
  <2> QED
    BY <2>1
<1> QED
  BY <1>2, <1>3 DEF PipelineNext

\* Beside the engine and settlement, and through the deaths of all three, the
\* recording is still the log its readers rely on (_tick, ReplayFeed.from_file).
THEOREM PipelineKeepsTheLog == PipelineSpec => ImplementsLog /\ [](live = FALSE)
<1>1. PipelineInit => Log!Init
  BY RecordingStartsAsLog DEF PipelineInit
<1>2. PipelineInv /\ [PipelineNext]_pipelineVars => [Log!Next]_<<Parsable(tape), written, live>>
  BY PipelineTurnsTheLog
<1>3. PipelineInv => live = FALSE
  BY DEF PipelineInv, Unrepaired
<1> QED
  BY <1>1, <1>2, <1>3, PipelineInvariant, PTL DEF PipelineSpec, ImplementsLog, Log!Spec
=============================================================================
