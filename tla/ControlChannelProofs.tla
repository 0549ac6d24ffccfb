------------------------ MODULE ControlChannelProofs ------------------------
(***************************************************************************)
(* Proofs about ControlChannel, for every size of the file, of the rings   *)
(* and of the answers.                                                     *)
(***************************************************************************)
EXTENDS ControlChannel, Integers, SequenceTheorems, FiniteSetTheorems,
        WellFoundedInduction, TLAPS

(***************************************************************************)
(* Stories.  What comes first in a concatenation comes Before the rest.    *)
(***************************************************************************)
Before(S, T) ==
  \A a \in S \ {0}, b \in T \ {0} : a < b \/ (a = EofLine /\ b = EofLine)

LEMMA Beyond ==
  ASSUME NEW m \in Nat, NEW n \in Nat, NEW i \in 1 .. m + n, i > m
  PROVE  i - m \in 1 .. n /\ i = m + (i - m)
OBVIOUS

LEMMA BytesOfConcat ==
  ASSUME NEW s \in Seq(Nat), NEW t \in Seq(Nat)
  PROVE  BytesOf(s \o t) = BytesOf(s) \cup BytesOf(t)
<1> DEFINE u == s \o t
<1>1. /\ u \in Seq(Nat) /\ Len(u) = Len(s) + Len(t)
      /\ \A i \in 1 .. Len(s) : u[i] = s[i]
      /\ \A i \in 1 .. Len(t) : u[Len(s) + i] = t[i]
  BY ConcatProperties
<1>2. /\ DOMAIN s = 1 .. Len(s) /\ Len(s) \in Nat
      /\ DOMAIN t = 1 .. Len(t) /\ Len(t) \in Nat /\ DOMAIN u = 1 .. Len(u)
  BY <1>1
<1> HIDE DEF u
<1>3. ASSUME NEW i \in DOMAIN u
      PROVE  \/ i \in DOMAIN s /\ u[i] = s[i]
             \/ i - Len(s) \in DOMAIN t /\ u[i] = t[i - Len(s)]
  <2>1. CASE i <= Len(s)
    BY <1>1, <1>2, <2>1
  <2>2. CASE i > Len(s)
    <3>1. i - Len(s) \in 1 .. Len(t) /\ i = Len(s) + (i - Len(s))
      BY <1>1, <1>2, <2>2
    <3> QED
      BY <1>1, <1>2, <3>1
  <2> QED
    BY <1>1, <1>2, <2>1, <2>2
<1>4. BytesOf(u) \subseteq BytesOf(s) \cup BytesOf(t)
  BY <1>3 DEF BytesOf
<1>5. BytesOf(s) \subseteq BytesOf(u)
  BY <1>1, <1>2 DEF BytesOf
<1>6. BytesOf(t) \subseteq BytesOf(u)
  <2>1. ASSUME NEW i \in DOMAIN t
        PROVE  Len(s) + i \in DOMAIN u /\ u[Len(s) + i] = t[i]
    BY <1>1, <1>2
  <2> QED
    BY <2>1 DEF BytesOf
<1> QED
  BY <1>4, <1>5, <1>6 DEF u

LEMMA AscendingConcat ==
  ASSUME NEW s \in Seq(Nat), NEW t \in Seq(Nat)
  PROVE  Ascending(s \o t)
           <=> /\ Ascending(s) /\ Ascending(t)
               /\ Before(BytesOf(s), BytesOf(t))
<1> DEFINE u == s \o t
           Apart(a, b) == 0 \notin {a, b}
                            => a < b \/ (a = EofLine /\ b = EofLine)
<1>1. /\ u \in Seq(Nat) /\ Len(u) = Len(s) + Len(t)
      /\ \A i \in 1 .. Len(s) : u[i] = s[i]
      /\ \A i \in 1 .. Len(t) : u[Len(s) + i] = t[i]
  BY ConcatProperties
<1>2. /\ DOMAIN s = 1 .. Len(s) /\ Len(s) \in Nat
      /\ DOMAIN t = 1 .. Len(t) /\ Len(t) \in Nat /\ DOMAIN u = 1 .. Len(u)
  BY <1>1
<1>a. ASSUME NEW v PROVE Ascending(v)
        <=> \A i, j \in DOMAIN v : i < j => Apart(v[i], v[j])
  BY DEF Ascending
<1>b. Before(BytesOf(s), BytesOf(t))
        <=> \A i \in DOMAIN s, j \in DOMAIN t : Apart(s[i], t[j])
  BY DEF Before, BytesOf
<1> HIDE DEF u, Apart
<1>3. ASSUME Ascending(u) PROVE Ascending(s)
  <2>1. ASSUME NEW i \in DOMAIN s
        PROVE  i \in DOMAIN u /\ u[i] = s[i]
    BY <1>1, <1>2
  <2> QED
    BY <1>a, <1>3, <2>1
<1>4. ASSUME Ascending(u) PROVE Ascending(t)
  <2>1. ASSUME NEW i \in DOMAIN t, NEW j \in DOMAIN t, i < j
        PROVE  Apart(t[i], t[j])
    <3>1. /\ i \in 1 .. Len(t) /\ j \in 1 .. Len(t)
      BY <1>2
    <3>2. Len(s) + i \in DOMAIN u /\ Len(s) + j \in DOMAIN u
      BY <1>1, <1>2, <3>1
    <3>4. Len(s) + i < Len(s) + j
      BY <1>2, <2>1, <3>1
    <3>3. u[Len(s) + i] = t[i] /\ u[Len(s) + j] = t[j]
      BY <1>1, <3>1
    <3> QED
      BY <1>a, <1>4, <3>2, <3>3, <3>4
  <2> QED
    BY <1>a, <2>1
<1>5. ASSUME Ascending(u), NEW i \in DOMAIN s, NEW j \in DOMAIN t
      PROVE  Apart(s[i], t[j])
  <2>1. i \in 1 .. Len(s) /\ j \in 1 .. Len(t)
    BY <1>2, <1>5
  <2>2. i \in DOMAIN u /\ Len(s) + j \in DOMAIN u
    <3>1. DOMAIN u = 1 .. Len(s) + Len(t)
      BY <1>1, <1>2
    <3>2. /\ i \in 1 .. Len(s) + Len(t)
          /\ Len(s) + j \in 1 .. Len(s) + Len(t)
      BY <1>2, <2>1
    <3> QED
      BY <3>1, <3>2
  <2>4. i < Len(s) + j
    BY <1>2, <2>1
  <2>3. u[i] = s[i] /\ u[Len(s) + j] = t[j]
    BY <1>1, <2>1
  <2> QED
    BY <1>a, <1>5, <2>2, <2>3, <2>4
<1>6. ASSUME Ascending(s), Ascending(t),
             \A i \in DOMAIN s, j \in DOMAIN t : Apart(s[i], t[j])
      PROVE  Ascending(u)
  <2>1. ASSUME NEW i \in DOMAIN u, NEW j \in DOMAIN u, i < j
        PROVE  Apart(u[i], u[j])
    <3>0. i \in 1 .. Len(s) + Len(t) /\ j \in 1 .. Len(s) + Len(t)
      BY <1>1, <1>2, <2>1
    <3>1. CASE j <= Len(s)
      <4>1. i \in DOMAIN s /\ j \in DOMAIN s /\ u[i] = s[i] /\ u[j] = s[j]
        BY <1>1, <1>2, <2>1, <3>1
      <4> QED
        BY <1>a, <1>6, <2>1, <4>1
    <3>2. CASE i <= Len(s) /\ j > Len(s)
      <4>1. /\ i \in DOMAIN s /\ j - Len(s) \in DOMAIN t
            /\ j = Len(s) + (j - Len(s))
        BY <1>2, <3>0, <3>2
      <4>2. u[i] = s[i] /\ u[j] = t[j - Len(s)]
        BY <1>1, <1>2, <4>1
      <4> QED
        BY <1>6, <4>1, <4>2
    <3>3. CASE i > Len(s)
      <4>1. /\ i - Len(s) \in DOMAIN t /\ j - Len(s) \in DOMAIN t
            /\ i = Len(s) + (i - Len(s)) /\ j = Len(s) + (j - Len(s))
            /\ i - Len(s) < j - Len(s)
        <5>1. j > Len(s)
          BY <1>2, <2>1, <3>0, <3>3
        <5>2. /\ i - Len(s) \in 1 .. Len(t) /\ i = Len(s) + (i - Len(s))
              /\ j - Len(s) \in 1 .. Len(t) /\ j = Len(s) + (j - Len(s))
          BY <1>2, <3>0, <3>3, <5>1, Beyond
        <5>3. i - Len(s) < j - Len(s)
          BY <1>2, <2>1, <3>0
        <5> QED
          BY <1>2, <5>2, <5>3
      <4>2. u[i] = t[i - Len(s)] /\ u[j] = t[j - Len(s)]
        BY <1>1, <1>2, <4>1
      <4> QED
        BY <1>a, <1>6, <4>1, <4>2
    <3> QED
      BY <1>2, <2>1, <3>0, <3>1, <3>2, <3>3
  <2> QED
    BY <1>a, <2>1
<1> QED
  BY <1>b, <1>3, <1>4, <1>5, <1>6 DEF u

(* Two facts at once, for the proofs that follow. *)
LEMMA Concat3 ==
  ASSUME NEW a \in Seq(Nat), NEW b \in Seq(Nat), NEW c \in Seq(Nat)
  PROVE  /\ a \o b \o c \in Seq(Nat)
         /\ BytesOf(a \o b \o c) = BytesOf(a) \cup BytesOf(b) \cup BytesOf(c)
         /\ Ascending(a \o b \o c)
              <=> /\ Ascending(a) /\ Ascending(b) /\ Ascending(c)
                  /\ Before(BytesOf(a), BytesOf(b))
                  /\ Before(BytesOf(a), BytesOf(c))
                  /\ Before(BytesOf(b), BytesOf(c))
<1>1. a \o b \in Seq(Nat)
  BY ConcatProperties
<1>2. a \o b \o c \in Seq(Nat)
  BY <1>1, ConcatProperties
<1>3. BytesOf(a \o b) = BytesOf(a) \cup BytesOf(b)
  BY BytesOfConcat
<1>4. BytesOf(a \o b \o c) = BytesOf(a \o b) \cup BytesOf(c)
  BY <1>1, BytesOfConcat
<1>5. Ascending(a \o b)
        <=> Ascending(a) /\ Ascending(b) /\ Before(BytesOf(a), BytesOf(b))
  BY AscendingConcat
<1>6. Ascending(a \o b \o c)
        <=> /\ Ascending(a \o b) /\ Ascending(c)
            /\ Before(BytesOf(a \o b), BytesOf(c))
  BY <1>1, AscendingConcat
<1>7. Before(BytesOf(a) \cup BytesOf(b), BytesOf(c))
        <=> Before(BytesOf(a), BytesOf(c)) /\ Before(BytesOf(b), BytesOf(c))
  BY DEF Before
<1> QED
  BY <1>2, <1>3, <1>4, <1>5, <1>6, <1>7

LEMMA BeforeMonotone ==
  ASSUME NEW S, NEW T, NEW U, NEW V, Before(S, T),
         U \subseteq S \cup {0}, V \subseteq T \cup {0}
  PROVE  Before(U, V)
BY DEF Before

(* A part may lose bytes, or be replaced by a frame. *)
LEMMA Replaced ==
  ASSUME NEW a \in Seq(Nat), NEW m \in Seq(Nat), NEW b \in Seq(Nat),
         NEW n \in Seq(Nat), Ascending(a \o m \o b), Ascending(n),
         BytesOf(n) \subseteq BytesOf(m) \cup {0}
  PROVE  Ascending(a \o n \o b)
<1>1. /\ Ascending(a) /\ Ascending(b)
      /\ Before(BytesOf(a), BytesOf(m)) /\ Before(BytesOf(a), BytesOf(b))
      /\ Before(BytesOf(m), BytesOf(b))
  BY Concat3
<1>2. Before(BytesOf(a), BytesOf(n)) /\ Before(BytesOf(n), BytesOf(b))
  BY <1>1, BeforeMonotone
<1> QED
  BY <1>1, <1>2, Concat3

LEMMA ZeroConcat ==
  ASSUME NEW a \in Seq(Nat), NEW b \in Seq(Nat), Ascending(a), Ascending(b),
         BytesOf(a) \subseteq {0} \/ BytesOf(b) \subseteq {0}
  PROVE  Ascending(a \o b)
<1>1. Before(BytesOf(a), BytesOf(b))
  BY DEF Before
<1> QED
  BY <1>1, AscendingConcat

LEMMA EmptyStory == Ascending(<<>>) /\ BytesOf(<<>>) = {}
BY DEF Ascending, BytesOf

LEMMA ZeroStory ==
  ASSUME NEW a \in Seq(Nat), BytesOf(a) \subseteq {0}
  PROVE  Ascending(a)
<1>1. \A i \in DOMAIN a : a[i] = 0
  BY DEF BytesOf
<1> QED
  BY <1>1 DEF Ascending

-----------------------------------------------------------------------------
(***************************************************************************)
(* Answers as the guest that reads connection c tells them.                *)
(***************************************************************************)
Of(c, bytes) ==
  [i \in DOMAIN bytes |-> IF bytes[i].conn = c THEN bytes[i].at ELSE 0]

LEMMA OfConnectionIs ==
  \A b : OfConnection(b) = Of(stream.conn, b)
BY DEF OfConnection, Of

LEMMA OfSeq ==
  ASSUME NEW c, NEW b \in Seq(Byte)
  PROVE  /\ Of(c, b) \in Seq(Nat) /\ Len(Of(c, b)) = Len(b)
         /\ \A i \in 1 .. Len(b) : Of(c, b)[i] \in 0 .. Size + 2
<1>1. /\ DOMAIN b = 1 .. Len(b) /\ Len(b) \in Nat
      /\ \A i \in 1 .. Len(b) : b[i] \in Byte
  OBVIOUS
<1>2. \A i \in 1 .. Len(b) :
        (IF b[i].conn = c THEN b[i].at ELSE 0) \in 0 .. Size + 2
  <2>1. \A x \in Byte : x.at \in 0 .. Size + 2
    BY DEF Byte
  <2>2. 0 \in 0 .. Size + 2
    BY ControlAssumption
  <2> QED
    BY <1>1, <2>1, <2>2
<1>3. \A i \in 1 .. Len(b) :
        (IF b[i].conn = c THEN b[i].at ELSE 0) \in Nat
  <2>1. 0 .. Size + 2 \subseteq Nat
    BY ControlAssumption
  <2> QED
    BY <1>2, <2>1
<1> DEFINE o == Of(c, b)
           n == Len(b)
<1>4. o = [i \in 1 .. n |-> IF b[i].conn = c THEN b[i].at ELSE 0]
  BY <1>1 DEF Of
<1>5. o \in [1 .. n -> Nat] /\ \A i \in 1 .. n : o[i] \in 0 .. Size + 2
  BY <1>2, <1>3, <1>4
<1>6. n \in Nat
  BY <1>1
<1> HIDE DEF o, n
<1>7. o \in Seq(Nat) /\ DOMAIN o = 1 .. n
  BY <1>5, <1>6
<1>8. Len(o) = n
  BY <1>6, <1>7
<1> QED
  BY <1>5, <1>7, <1>8 DEF o, n

LEMMA OfEmpty == \A c : Of(c, <<>>) = <<>>
BY DEF Of

LEMMA OfConcat ==
  ASSUME NEW c, NEW a \in Seq(Byte), NEW b \in Seq(Byte)
  PROVE  Of(c, a \o b) = Of(c, a) \o Of(c, b)
<1> DEFINE s == Of(c, a \o b)
           t == Of(c, a) \o Of(c, b)
           val(x) == IF x.conn = c THEN x.at ELSE 0
<1>1. a \o b \in Seq(Byte) /\ Len(a \o b) = Len(a) + Len(b)
  BY ConcatProperties
<1>2. s \in Seq(Nat) /\ Len(s) = Len(a) + Len(b)
  BY <1>1, OfSeq
<1>3. /\ Of(c, a) \in Seq(Nat) /\ Len(Of(c, a)) = Len(a)
      /\ Of(c, b) \in Seq(Nat) /\ Len(Of(c, b)) = Len(b)
  BY OfSeq
<1>4. t \in Seq(Nat) /\ Len(t) = Len(a) + Len(b)
  <2>1. ASSUME NEW x \in Seq(Nat), NEW y \in Seq(Nat)
        PROVE  x \o y \in Seq(Nat) /\ Len(x \o y) = Len(x) + Len(y)
    BY ConcatProperties
  <2> QED
    BY <1>3, <2>1
<1>5. ASSUME NEW i \in 1 .. Len(a) + Len(b)
      PROVE  s[i] = t[i]
  <2>1. s[i] = val((a \o b)[i])
    BY <1>1 DEF Of
  <2>2. Len(a) \in Nat /\ Len(b) \in Nat
    OBVIOUS
  <2>3. CASE i <= Len(a)
    <3>1. (a \o b)[i] = a[i] /\ t[i] = Of(c, a)[i] /\ i \in 1 .. Len(a)
      BY <1>3, <2>2, <2>3, ConcatProperties
    <3> QED
      BY <2>1, <3>1 DEF Of
  <2>4. CASE i > Len(a)
    <3>1. i - Len(a) \in 1 .. Len(b)
      BY <2>2, <2>4, Beyond
    <3>2. (a \o b)[i] = b[i - Len(a)] /\ t[i] = Of(c, b)[i - Len(a)]
      BY <1>3, <2>2, <2>4, ConcatProperties
    <3> QED
      BY <2>1, <3>1, <3>2 DEF Of
  <2>5. i <= Len(a) \/ i > Len(a)
    BY <1>5, <2>2
  <2> QED
    BY <2>3, <2>4, <2>5
<1> HIDE DEF s, t
<1>6. s = t
  BY <1>2, <1>4, <1>5, SeqEqual
<1> QED
  BY <1>6 DEF s, t

-----------------------------------------------------------------------------
(***************************************************************************)
(* The stream: runs of the file's bytes.                                   *)
(***************************************************************************)
LEMMA MinProperties ==
  ASSUME NEW S \in SUBSET Nat, S # {}
  PROVE  Min(S) \in S /\ \A y \in S : Min(S) <= y
<1> DEFINE R == OpToRel(<, Nat)
<1>1. IsWellFoundedOn(R, Nat)
  BY NatLessThanWellFounded
<1>2. \A x, y \in Nat : <<y, x>> \in R <=> y < x
  BY DEF OpToRel
<1> HIDE DEF R
<1>3. PICK x \in S : \A y \in S : ~ (<<y, x>> \in R)
  BY <1>1, WFMin
<1>4. \A y \in S : x <= y
  <2> TAKE y \in S
  <2>1. x \in Nat /\ y \in Nat /\ ~ (y < x)
    BY <1>2, <1>3
  <2> QED
    BY <2>1
<1> QED
  BY <1>4 DEF Min

Run(p, n) == [i \in 1 .. n |-> p + i]

LEMMA RunTyped ==
  ASSUME NEW p \in Nat, NEW n \in Nat, p + n <= Size
  PROVE  Run(p, n) \in Seq(1 .. Size + 1) /\ Len(Run(p, n)) = n
<1>1. \A i \in 1 .. n : p + i \in 1 .. Size + 1
  BY ControlAssumption
<1> QED
  BY <1>1 DEF Run

LEMMA RunSplit ==
  ASSUME NEW p \in Nat, NEW m \in Nat, NEW n \in Nat, p + m + n <= Size
  PROVE  Run(p, m) \o Run(p + m, n) = Run(p, m + n)
<1> DEFINE s == Run(p, m) \o Run(p + m, n)
           t == Run(p, m + n)
<1>1. /\ p + m \in Nat /\ m + n \in Nat
      /\ p + m <= Size /\ (p + m) + n <= Size /\ p + (m + n) <= Size
  BY ControlAssumption
<1>2. /\ Run(p, m) \in Seq(1 .. Size + 1) /\ Len(Run(p, m)) = m
      /\ Run(p + m, n) \in Seq(1 .. Size + 1) /\ Len(Run(p + m, n)) = n
      /\ t \in Seq(1 .. Size + 1) /\ Len(t) = m + n
  BY <1>1, RunTyped
<1>3. s \in Seq(1 .. Size + 1) /\ Len(s) = m + n
  BY <1>2, ConcatProperties
<1>4. ASSUME NEW i \in 1 .. m + n
      PROVE  s[i] = t[i]
  <2>1. s[i] = IF i <= m THEN Run(p, m)[i] ELSE Run(p + m, n)[i - m]
    BY <1>2, ConcatProperties
  <2>2. CASE i <= m
    <3>1. i \in 1 .. m
      BY <2>2
    <3> QED
      BY <2>1, <2>2, <3>1 DEF Run
  <2>3. CASE i > m
    <3>1. i - m \in 1 .. n /\ ~ (i <= m) /\ (p + m) + (i - m) = p + i
      BY <2>3
    <3> QED
      BY <2>1, <3>1 DEF Run
  <2>4. i <= m \/ i > m
    BY <1>4
  <2> QED
    BY <2>2, <2>3, <2>4
<1> HIDE DEF s, t
<1>5. s = t
  BY <1>2, <1>3, <1>4, SeqEqual
<1> QED
  BY <1>5 DEF s, t

LEMMA FileStory ==
  ASSUME NEW s \in Seq(1 .. Size + 1)
  PROVE  s \in Seq(Nat) /\ BytesOf(s) \subseteq 1 .. Size + 1
<1>1. 1 .. Size + 1 \subseteq Nat
  BY ControlAssumption
<1>2. \A i \in 1 .. Len(s) : s[i] \in 1 .. Size + 1
  BY ElementOfSeq
<1> QED
  BY <1>1, <1>2, SeqMonotonic DEF BytesOf

LEMMA RunStory ==
  ASSUME NEW p \in Nat, NEW n \in Nat, p + n <= Size
  PROVE  /\ Run(p, n) \in Seq(Nat) /\ Ascending(Run(p, n))
         /\ BytesOf(Run(p, n)) = p + 1 .. p + n
<1> DEFINE r == Run(p, n)
<1>1. r \in Seq(Nat)
  BY RunTyped, FileStory
<1>2. DOMAIN r = 1 .. n /\ \A i \in 1 .. n : r[i] = p + i
  BY DEF Run
<1> HIDE DEF r
<1>3. ASSUME NEW i \in DOMAIN r, NEW j \in DOMAIN r, i < j
      PROVE  r[i] < r[j]
  <2>1. i \in 1 .. n /\ j \in 1 .. n
    BY <1>2
  <2>2. p + i < p + j
    BY <1>3, <2>1
  <2> QED
    BY <1>2, <2>1, <2>2
<1>4. Ascending(r)
  BY <1>3 DEF Ascending
<1>5. \A i \in 1 .. n : p + i \in p + 1 .. p + n
  OBVIOUS
<1>6. \A b \in p + 1 .. p + n : b - p \in 1 .. n /\ p + (b - p) = b
  OBVIOUS
<1>7. BytesOf(r) \subseteq p + 1 .. p + n
  BY <1>2, <1>5 DEF BytesOf
<1>8. p + 1 .. p + n \subseteq BytesOf(r)
  BY <1>2, <1>6 DEF BytesOf
<1> QED
  BY <1>1, <1>4, <1>7, <1>8 DEF r

(* A run of the file that ends with byte e.                                *)
RunTo(a, e) == \A i \in 1 .. Len(a) : a[i] + Len(a) = e + i

(* A run, wherever it ends.                                                *)
Successive(b) == \A i, j \in 1 .. Len(b) : b[i] + j = b[j] + i

LEMMA RunToRun ==
  ASSUME NEW p \in Nat, NEW n \in Nat, p + n <= Size
  PROVE  RunTo(Run(p, n), p + n)
<1>1. Len(Run(p, n)) = n /\ \A i \in 1 .. n : Run(p, n)[i] = p + i
  BY RunTyped DEF Run
<1>2. \A i \in 1 .. n : (p + i) + n = (p + n) + i
  OBVIOUS
<1> QED
  BY <1>1, <1>2 DEF RunTo

LEMMA RunToEmpty == \A e : RunTo(<<>>, e)
BY DEF RunTo

(* The two parts of a run are runs. *)
LEMMA RunToParts ==
  ASSUME NEW a \in Seq(1 .. Size + 1), NEW b \in Seq(1 .. Size + 1),
         NEW e \in Nat, RunTo(a \o b, e)
  PROVE  Successive(a) /\ RunTo(b, e)
<1> DEFINE u == a \o b
           m == Len(a)
           n == Len(b)
<1>1. /\ Len(u) = m + n
      /\ \A i \in 1 .. m + n : u[i] = IF i <= m THEN a[i] ELSE b[i - m]
  BY ConcatProperties
<1>2. m \in Nat /\ n \in Nat
  OBVIOUS
<1>3. \A i \in 1 .. m + n : u[i] + (m + n) = e + i
  BY <1>1 DEF RunTo
<1>4. /\ \A i \in 1 .. m : a[i] \in Nat
      /\ \A i \in 1 .. n : b[i] \in Nat
  <2>1. a \in Seq(Nat) /\ b \in Seq(Nat)
    BY FileStory
  <2> QED
    BY <2>1, ElementOfSeq
<1> HIDE DEF u, m, n
<1>5. \A i \in 1 .. m : a[i] + (m + n) = e + i
  <2> TAKE i \in 1 .. m
  <2>1. i \in 1 .. m + n /\ i <= m
    BY <1>2
  <2> QED
    BY <1>1, <1>3, <2>1
<1>6. \A i \in 1 .. n : b[i] + n = e + i
  <2> TAKE i \in 1 .. n
  <2>1. i + m \in 1 .. m + n /\ ~ (i + m <= m) /\ (i + m) - m = i
    BY <1>2
  <2>2. b[i] + (m + n) = e + (i + m)
    BY <1>1, <1>3, <2>1
  <2>3. b[i] \in Nat /\ i \in Nat
    BY <1>4
  <2>4. \A x, y \in Nat : x + (m + n) = e + (y + m) => x + n = e + y
    BY <1>2
  <2> QED
    BY <2>2, <2>3, <2>4
<1>7. \A i, j \in 1 .. m : a[i] + j = a[j] + i
  <2> TAKE i, j \in 1 .. m
  <2>1. a[i] + (m + n) = e + i /\ a[j] + (m + n) = e + j
    BY <1>5
  <2>2. a[i] \in Nat /\ a[j] \in Nat /\ i \in Nat /\ j \in Nat
    BY <1>4
  <2> DEFINE x == a[i]
             y == a[j]
  <2>3. x + (m + n) = e + i /\ y + (m + n) = e + j /\ x \in Nat /\ y \in Nat
    BY <2>1, <2>2
  <2> HIDE DEF x, y
  <2>4. x + j = y + i
    BY <1>2, <2>2, <2>3
  <2> QED
    BY <2>4 DEF x, y
<1> QED
  BY <1>6, <1>7 DEF RunTo, Successive, m, n

(* The byte of EOF= follows the last of the file.                          *)
LEMMA RunToNext ==
  ASSUME NEW a \in Seq(1 .. Size + 1), RunTo(a, Size)
  PROVE  RunTo(a \o <<EofByte>>, Size + 1)
<1> DEFINE u == a \o <<EofByte>>
           m == Len(a)
<1>0. EofByte = Size + 1 /\ <<EofByte>> \in Seq(1 .. Size + 1)
      /\ Len(<<EofByte>>) = 1 /\ <<EofByte>>[1] = EofByte
  BY ControlAssumption DEF EofByte
<1>1. /\ Len(u) = m + 1
      /\ \A i \in 1 .. m + 1 :
           u[i] = IF i <= m THEN a[i] ELSE <<EofByte>>[i - m]
  BY <1>0, ConcatProperties
<1>2. m \in Nat /\ Size \in Nat
  BY ControlAssumption
<1>3. \A i \in 1 .. m : a[i] + m = Size + i
  BY DEF RunTo
<1>4. \A i \in 1 .. m : a[i] \in Nat
  BY FileStory, ElementOfSeq
<1> HIDE DEF u, m
<1>5. ASSUME NEW i \in 1 .. m + 1
      PROVE  u[i] + (m + 1) = (Size + 1) + i
  <2>1. CASE i <= m
    <3>1. i \in 1 .. m
      BY <1>2, <2>1
    <3>2. a[i] + m = Size + i /\ a[i] \in Nat /\ u[i] = a[i]
      BY <1>1, <1>3, <1>4, <2>1, <3>1
    <3>3. \A x \in Nat : x + m = Size + i => x + (m + 1) = (Size + 1) + i
      BY <1>2
    <3> QED
      BY <3>2, <3>3
  <2>2. CASE i > m
    <3>1. i = m + 1 /\ ~ (i <= m) /\ i - m = 1
      BY <1>2, <2>2
    <3> QED
      BY <1>0, <1>1, <1>2, <3>1
  <2> QED
    BY <1>2, <2>1, <2>2
<1> QED
  BY <1>1, <1>5 DEF RunTo, u

(* What TT1 has read ahead is a run of the file that ends where the file   *)
(* goes on, until the end of the file is noticed; the byte of EOF= may     *)
(* follow then.                                                            *)
Shape(s) ==
  /\ s \in Stream /\ Len(s.fifo) <= Ahead
  /\ Ascending(s.fifo)
  /\ s.open => ~s.eof /\ \A b \in BytesOf(s.fifo) : b <= s.pos
  /\ ~s.open /\ ~s.eof => s.fifo = <<>>
  /\ \/ RunTo(Available(s), Size)
     \/ ~s.open /\ RunTo(Available(s), Size + 1)

Connected(s) == s.open \/ s.eof

LEMMA AvailableIs ==
  ASSUME NEW s \in Stream
  PROVE  /\ Available(s) = s.fifo \o IF s.open THEN Run(s.pos, Size - s.pos)
                                     ELSE <<>>
         /\ Available(s) \in Seq(1 .. Size + 1)
         /\ Len(Available(s))
              = Len(s.fifo) + IF s.open THEN Size - s.pos ELSE 0
         /\ Len(s.fifo) \in Nat /\ Size - s.pos \in Nat
<1>1. /\ s.open \in BOOLEAN /\ s.pos \in 0 .. Size
      /\ s.fifo \in Seq(1 .. Size + 1)
  BY DEF Stream
<1>2. Size - s.pos \in Nat /\ s.pos \in Nat /\ s.pos + (Size - s.pos) <= Size
  BY <1>1, ControlAssumption
<1>3. /\ Run(s.pos, Size - s.pos) \in Seq(1 .. Size + 1)
      /\ Len(Run(s.pos, Size - s.pos)) = Size - s.pos
  BY <1>2, RunTyped
<1>4. <<>> \in Seq(1 .. Size + 1) /\ Len(<<>>) = 0
  OBVIOUS
<1> DEFINE r == IF s.open THEN Run(s.pos, Size - s.pos) ELSE <<>>
<1>5. /\ r \in Seq(1 .. Size + 1)
      /\ Len(r) = IF s.open THEN Size - s.pos ELSE 0
  <2>1. CASE s.open
    <3>1. r = Run(s.pos, Size - s.pos)
      BY <2>1
    <3> HIDE DEF r
    <3> QED
      BY <1>3, <2>1, <3>1
  <2>2. CASE ~s.open
    <3>1. r = <<>>
      BY <2>2
    <3> HIDE DEF r
    <3> QED
      BY <1>4, <2>2, <3>1
  <2> QED
    BY <1>1, <2>1, <2>2
<1>6. Available(s) = s.fifo \o r
  BY DEF Available, Run
<1> HIDE DEF r
<1>7. /\ s.fifo \o r \in Seq(1 .. Size + 1)
      /\ Len(s.fifo \o r) = Len(s.fifo) + Len(r)
  BY <1>1, <1>5, ConcatProperties
<1>8. Len(s.fifo) \in Nat
  BY <1>1
<1> QED
  BY <1>2, <1>5, <1>6, <1>7, <1>8 DEF r

LEMMA AvailableAscends ==
  ASSUME NEW s, Shape(s)
  PROVE  /\ Available(s) \in Seq(Nat) /\ Ascending(Available(s))
         /\ BytesOf(Available(s)) \subseteq 1 .. Size + 1
         /\ s.open => BytesOf(Available(s)) \subseteq 1 .. Size
<1>1. /\ s \in Stream /\ s.fifo \in Seq(1 .. Size + 1) /\ s.open \in BOOLEAN
      /\ s.pos \in 0 .. Size /\ Ascending(s.fifo)
      /\ s.open => \A b \in BytesOf(s.fifo) : b <= s.pos
  BY DEF Shape, Stream
<1>2. s.fifo \in Seq(Nat) /\ BytesOf(s.fifo) \subseteq 1 .. Size + 1
  BY <1>1, FileStory
<1>3. CASE s.open
  <2>1. /\ Size - s.pos \in Nat /\ s.pos \in Nat
        /\ s.pos + (Size - s.pos) = Size
    BY <1>1, ControlAssumption
  <2> DEFINE r == Run(s.pos, Size - s.pos)
  <2>2. /\ r \in Seq(Nat) /\ Ascending(r)
        /\ BytesOf(r) = s.pos + 1 .. s.pos + (Size - s.pos)
    BY <2>1, RunStory
  <2>3. Available(s) = s.fifo \o r
    BY <1>1, <1>3, AvailableIs
  <2> HIDE DEF r
  <2>4. /\ BytesOf(s.fifo) \subseteq 1 .. Size
        /\ BytesOf(r) \subseteq 1 .. Size
    <3>1. \A b \in 1 .. Size + 1 : b <= s.pos => b \in 1 .. Size
      BY <1>1, ControlAssumption
    <3>2. \A b \in s.pos + 1 .. s.pos + (Size - s.pos) : b \in 1 .. Size
      BY <1>1, ControlAssumption
    <3>3. BytesOf(r) \subseteq 1 .. Size
      BY <2>2, <3>2
    <3>4. \A b \in BytesOf(s.fifo) : b \in 1 .. Size + 1 /\ b <= s.pos
      BY <1>1, <1>2, <1>3
    <3>5. BytesOf(s.fifo) \subseteq 1 .. Size
      BY <3>1, <3>4
    <3> QED
      BY <3>3, <3>5
  <2>5. Before(BytesOf(s.fifo), BytesOf(r))
    <3>0. \A n, z \in Nat : \A a \in 1 .. z, b \in n + 1 .. n + (z - n) :
            a <= n => a < b
      OBVIOUS
    <3>1. \A a \in 1 .. Size, b \in s.pos + 1 .. s.pos + (Size - s.pos) :
            a <= s.pos => a < b
      BY <2>1, <3>0, ControlAssumption
    <3>2. \A a \in BytesOf(s.fifo), b \in BytesOf(r) : a < b
      BY <1>1, <1>3, <2>2, <2>4, <3>1
    <3> QED
      BY <3>2 DEF Before
  <2>6. /\ s.fifo \o r \in Seq(Nat) /\ Ascending(s.fifo \o r)
        /\ BytesOf(s.fifo \o r) = BytesOf(s.fifo) \cup BytesOf(r)
    BY <1>1, <1>2, <2>2, <2>5, ConcatProperties, AscendingConcat,
       BytesOfConcat
  <2>7. 1 .. Size \subseteq 1 .. Size + 1
    BY ControlAssumption
  <2> QED
    BY <2>3, <2>4, <2>6, <2>7
<1>4. CASE ~s.open
  <2>1. Available(s) = s.fifo \o <<>>
    BY <1>1, <1>4, AvailableIs
  <2>2. Available(s) = s.fifo
    BY <1>2, <2>1, ConcatEmptySeq
  <2> QED
    BY <1>1, <1>2, <1>4, <2>2
<1> QED
  BY <1>1, <1>3, <1>4

(* The end of the file is noticed: nothing is left but what was read ahead. *)
LEMMA FinishedOf ==
  ASSUME NEW r, Shape(r), r.open, r.pos = Size
  PROVE  /\ Shape(Finished(r)) /\ Available(Finished(r)) = Available(r)
         /\ Available(r) = r.fifo
         /\ ~Finished(r).open /\ Finished(r).eof
         /\ Finished(r).conn = r.conn /\ Finished(r).fifo = r.fifo
<1> DEFINE f == Finished(r)
<1>1. r \in Stream /\ r.fifo \in Seq(1 .. Size + 1)
  BY DEF Shape, Stream
<1>2. /\ f \in Stream /\ f.fifo = r.fifo /\ f.conn = r.conn
      /\ f.open = FALSE /\ f.eof = TRUE
  BY <1>1 DEF Finished, Stream
<1>3. Available(r) = r.fifo \o Run(Size, Size - Size)
  BY <1>1, AvailableIs
<1>4. Run(Size, Size - Size) = <<>>
  BY ControlAssumption DEF Run
<1>5. Available(f) = r.fifo \o <<>>
  BY <1>2, AvailableIs
<1>6. r.fifo \o <<>> = r.fifo
  BY <1>1, ConcatEmptySeq
<1> HIDE DEF f
<1>7. Shape(f)
  BY <1>2, <1>3, <1>4, <1>5 DEF Shape
<1> QED
  BY <1>2, <1>3, <1>4, <1>5, <1>6, <1>7 DEF f

LEMMA FurtherOn ==
  ASSUME NEW p \in 0 .. Size, NEW n \in Nat, n <= Size - p
  PROVE  /\ p \in Nat /\ p + n <= Size /\ p + n \in 0 .. Size
         /\ Size - (p + n) \in Nat /\ Size - p = n + (Size - (p + n))
         /\ p + n + (Size - (p + n)) <= Size
BY ControlAssumption

(* A poll reads on in the file. *)
LEMMA ReadAheadOf ==
  ASSUME NEW s, Shape(s), s.open, Len(s.fifo) < Ahead
  PROVE  /\ Shape(ReadAhead(s)) /\ Available(ReadAhead(s)) = Available(s)
         /\ ReadAhead(s).open /\ ReadAhead(s).conn = s.conn
<1> DEFINE S == {Chunk, Ahead - Len(s.fifo), Size - s.pos}
           n == Min(S)
           t == Run(s.pos, n)
           r == ReadAhead(s)
<1>1. /\ s \in Stream /\ s.fifo \in Seq(1 .. Size + 1)
      /\ s.pos \in 0 .. Size /\ s.conn \in Nat
      /\ s.eof = FALSE /\ Ascending(s.fifo)
      /\ \A b \in BytesOf(s.fifo) : b <= s.pos
  BY DEF Shape, Stream
<1>2. Len(s.fifo) \in Nat /\ Ahead \in Nat /\ Size \in Nat /\ Chunk \in Nat
  BY <1>1, ControlAssumption
<1>3. S \in SUBSET Nat /\ S # {}
  BY <1>1, <1>2
<1>4. n \in S /\ \A y \in S : n <= y
  BY <1>3, MinProperties
<1>5. n \in Nat /\ n <= Ahead - Len(s.fifo) /\ n <= Size - s.pos
  BY <1>3, <1>4
<1> HIDE DEF n
<1>6. /\ s.pos \in Nat /\ s.pos + n <= Size /\ s.pos + n \in 0 .. Size
      /\ Size - (s.pos + n) \in Nat /\ Size - s.pos = n + (Size - (s.pos + n))
      /\ s.pos + n + (Size - (s.pos + n)) <= Size
      /\ Len(s.fifo) + n <= Ahead
  <2>1. Len(s.fifo) + n <= Ahead
    BY <1>2, <1>5
  <2> QED
    BY <1>1, <1>5, <2>1, FurtherOn
<1>7. /\ t \in Seq(1 .. Size + 1) /\ Len(t) = n /\ t \in Seq(Nat)
      /\ Ascending(t) /\ BytesOf(t) = s.pos + 1 .. s.pos + n
  BY <1>5, <1>6, RunTyped, RunStory
<1>8. r = [s EXCEPT !.pos = s.pos + n, !.fifo = s.fifo \o t]
  BY <1>1 DEF ReadAhead, Run, n, Stream
<1> HIDE DEF t
<1>9. /\ s.fifo \o t \in Seq(1 .. Size + 1)
      /\ Len(s.fifo \o t) = Len(s.fifo) + n
  BY <1>1, <1>7, ConcatProperties
<1>10. /\ r \in Stream /\ r.pos = s.pos + n /\ r.fifo = s.fifo \o t
       /\ r.open = s.open /\ r.conn = s.conn /\ r.eof = FALSE
  BY <1>1, <1>6, <1>8, <1>9 DEF Stream
<1> HIDE DEF r
<1>11. s.fifo \in Seq(Nat) /\ BytesOf(s.fifo) \subseteq 1 .. Size + 1
  BY <1>1, FileStory
<1>12. Before(BytesOf(s.fifo), BytesOf(t))
  <2>1. \A a \in 1 .. Size + 1, b \in s.pos + 1 .. s.pos + n :
          a <= s.pos => a < b
    BY <1>1, <1>2, <1>5
  <2>2. \A a \in BytesOf(s.fifo), b \in BytesOf(t) : a < b
    BY <1>1, <1>7, <1>11, <2>1
  <2> QED
    BY <2>2 DEF Before
<1>13. /\ Ascending(s.fifo \o t)
       /\ BytesOf(s.fifo \o t) = BytesOf(s.fifo) \cup BytesOf(t)
  BY <1>1, <1>7, <1>11, <1>12, AscendingConcat, BytesOfConcat
<1>14. \A b \in BytesOf(s.fifo \o t) : b <= s.pos + n
  <2>1. \A b \in 1 .. Size + 1 : b <= s.pos => b <= s.pos + n
    BY <1>1, <1>2, <1>5
  <2>2. \A b \in s.pos + 1 .. s.pos + n : b <= s.pos + n
    BY <1>1, <1>5
  <2> QED
    BY <1>1, <1>7, <1>11, <1>13, <2>1, <2>2
<1>15. Available(r) = Available(s)
  <2> DEFINE u == Run(s.pos + n, Size - (s.pos + n))
  <2>1. Available(r) = (s.fifo \o t) \o u
    BY <1>10, AvailableIs
  <2>2. Available(s) = s.fifo \o Run(s.pos, Size - s.pos)
    BY <1>1, AvailableIs
  <2>3. t \o u = Run(s.pos, n + (Size - (s.pos + n)))
    BY <1>5, <1>6, RunSplit DEF t
  <2>4. u \in Seq(1 .. Size + 1)
    BY <1>6, RunTyped
  <2> HIDE DEF u
  <2>5. (s.fifo \o t) \o u = s.fifo \o (t \o u)
    <3>1. \A a, b, c \in Seq(1 .. Size + 1) : (a \o b) \o c = a \o (b \o c)
      BY ConcatAssociative
    <3>2. s.fifo \in Seq(1 .. Size + 1) /\ t \in Seq(1 .. Size + 1)
      BY <1>1, <1>7
    <3> QED
      BY <2>4, <3>1, <3>2
  <2> QED
    BY <1>6, <2>1, <2>2, <2>3, <2>5
<1>16. Shape(r)
  BY <1>6, <1>9, <1>10, <1>13, <1>14, <1>15 DEF Shape
<1> QED
  BY <1>10, <1>15, <1>16 DEF r

LEMMA HostPolledOf ==
  ASSUME NEW s, Shape(s)
  PROVE  /\ Shape(HostPolled(s).stream) /\ HostPolled(s).event \in BOOLEAN
         /\ HostPolled(s).stream.conn = s.conn
         /\ Connected(HostPolled(s).stream) <=> Connected(s)
         /\ HostPolled(s).stream.open => s.open
         /\ \/ Available(HostPolled(s).stream) = Available(s)
            \/ /\ s.open /\ ~HostPolled(s).stream.open
               /\ Available(HostPolled(s).stream)
                    = Available(s) \o <<EofByte>>
<1> DEFINE r == ReadAhead(s)
           e == [r EXCEPT !.fifo = IF r.mark THEN Append(@, EofByte) ELSE @]
<1>1. s.open \in BOOLEAN /\ Len(s.fifo) \in Nat /\ Ahead \in Nat
  BY ControlAssumption DEF Shape, Stream
<1>2. CASE ~enabled \/ ~s.open \/ Len(s.fifo) >= Ahead
  BY <1>2 DEF HostPolled
<1>3. CASE enabled /\ s.open /\ ~(Len(s.fifo) >= Ahead)
  <2>0. Len(s.fifo) < Ahead
    BY <1>1, <1>3
  <2>1. /\ Shape(r) /\ Available(r) = Available(s) /\ r.open
        /\ r.conn = s.conn
    BY <1>3, <2>0, ReadAheadOf
  <2>2. /\ r \in Stream /\ r.fifo \in Seq(1 .. Size + 1)
        /\ r.mark \in BOOLEAN /\ r.notify \in BOOLEAN /\ r.open = TRUE
        /\ Len(r.fifo) <= Ahead /\ r.pos \in 0 .. Size
        /\ r.eof = FALSE /\ Ascending(r.fifo)
        /\ \A b \in BytesOf(r.fifo) : b <= r.pos
    BY <2>1 DEF Shape, Stream
  <2>3. HostPolled(s)
          = IF ~Exhausted(r) \/ (r.mark /\ Len(r.fifo) >= Ahead)
            THEN [stream |-> r, event |-> FALSE]
            ELSE [stream |-> Finished(e), event |-> r.notify]
    BY <1>3 DEF HostPolled
  <2> HIDE DEF r
  <2>4. CASE ~Exhausted(r) \/ (r.mark /\ Len(r.fifo) >= Ahead)
    <3>1. HostPolled(s).stream = r /\ HostPolled(s).event = FALSE
      BY <2>3, <2>4
    <3> QED
      BY <1>3, <2>1, <3>1 DEF Connected
  <2>5. CASE Exhausted(r) /\ ~r.mark
    <3>1. e = r
      BY <2>2, <2>5 DEF Stream
    <3>2. r.pos = Size
      BY <2>5 DEF Exhausted
    <3>3. HostPolled(s) = [stream |-> Finished(r), event |-> r.notify]
      BY <2>3, <2>5, <3>1
    <3> QED
      BY <1>3, <2>1, <2>2, <3>2, <3>3, FinishedOf DEF Connected
  <2>6. CASE Exhausted(r) /\ r.mark /\ ~(Len(r.fifo) >= Ahead)
    <3>1. r.pos = Size /\ Len(r.fifo) + 1 <= Ahead
      <4>1. Len(r.fifo) \in Nat
        BY <2>2
      <4> QED
        BY <1>1, <2>6, <4>1 DEF Exhausted
    <3>2. HostPolled(s) = [stream |-> Finished(e), event |-> r.notify]
      BY <2>3, <2>6
    <3> DEFINE q == r.fifo \o <<EofByte>>
    <3>3. EofByte \in 1 .. Size + 1 /\ <<EofByte>> \in Seq(1 .. Size + 1)
      BY ControlAssumption DEF EofByte
    <3>4. Append(r.fifo, EofByte) = q
      BY <2>2, <3>3, AppendIsConcat
    <3>5. q \in Seq(1 .. Size + 1) /\ Len(q) = Len(r.fifo) + 1
      BY <2>2, <3>3, ConcatProperties
    <3>6. Ascending(q)
      <4>1. r.fifo \in Seq(Nat) /\ BytesOf(r.fifo) \subseteq 1 .. Size + 1
        BY <2>2, FileStory
      <4>2. <<EofByte>> \in Seq(Nat)
        BY <3>3, FileStory
      <4>3. Ascending(<<EofByte>>) /\ BytesOf(<<EofByte>>) = {EofByte}
        BY DEF Ascending, BytesOf
      <4>4. \A b \in BytesOf(r.fifo) : b < EofByte
        <5>1. \A b \in 1 .. Size + 1 : b <= Size => b < EofByte
          BY ControlAssumption DEF EofByte
        <5> QED
          BY <2>2, <3>1, <4>1, <5>1
      <4>5. Before(BytesOf(r.fifo), {EofByte})
        BY <4>4 DEF Before
      <4> QED
        BY <2>2, <4>1, <4>2, <4>3, <4>5, AscendingConcat
    <3>7. /\ Finished(e) \in Stream /\ Finished(e).fifo = q
          /\ Finished(e).open = FALSE /\ Finished(e).eof = TRUE
          /\ Finished(e).conn = r.conn
      <4>1. e = [r EXCEPT !.fifo = q]
        BY <2>6, <3>4
      <4> HIDE DEF q
      <4> QED
        BY <2>2, <3>5, <4>1 DEF Finished, Stream
    <3> HIDE DEF q, e
    <3>8. Available(Finished(e)) = q
      <4>1. Available(Finished(e)) = q \o <<>>
        BY <3>7, AvailableIs
      <4> QED
        BY <3>5, <4>1, ConcatEmptySeq
    <3>9. Shape(Finished(e))
      <4>1. RunTo(r.fifo, Size)
        BY <2>1, <2>2, <3>1, FinishedOf DEF Shape
      <4>2. RunTo(q, Size + 1)
        BY <2>2, <4>1, RunToNext DEF q
      <4> QED
        BY <3>1, <3>5, <3>6, <3>7, <3>8, <4>2 DEF Shape
    <3>10. Available(s) = r.fifo
      BY <2>1, <3>1, FinishedOf
    <3>11. Available(Finished(e)) = Available(s) \o <<EofByte>>
      BY <3>8, <3>10 DEF q
    <3> QED
      BY <1>3, <2>1, <2>2, <3>2, <3>7, <3>9, <3>11 DEF Connected
  <2> QED
    BY <2>2, <2>4, <2>5, <2>6
<1> QED
  BY <1>1, <1>2, <1>3

LEMMA SubSeqFirst ==
  ASSUME NEW a \in Seq(1 .. Size + 1), NEW b \in Seq(1 .. Size + 1)
  PROVE  SubSeq(a \o b, 1, Len(a)) = a
<1>1. Len(a) \in Nat
  OBVIOUS
<1>2. CASE Len(a) = 0
  <2>1. a = <<>>
    BY <1>2
  <2>2. SubSeq(a \o b, 1, 0) = <<>>
    BY SubSeqEmpty
  <2> QED
    BY <1>2, <2>1, <2>2
<1>3. CASE Len(a) # 0
  <2>1. 1 \in 1 .. Len(a) /\ Len(a) \in 1 .. Len(a)
    BY <1>1, <1>3
  <2>2. SubSeq(a \o b, 1, Len(a)) = SubSeq(a, 1, Len(a))
    BY <2>1, SubSeqOfConcat1
  <2> QED
    BY <2>2, SubSeqFull
<1> QED
  BY <1>2, <1>3

LEMMA Onward ==
  ASSUME NEW p \in Nat, NEW z \in Nat, NEW o \in Nat, NEW n \in Nat,
         p <= z, n > o, n <= o + (z - p)
  PROVE  /\ n - o \in Nat /\ p \in Nat /\ p + (n - o) \in 0 .. z
         /\ p + (n - o) \in Nat
         /\ z - (p + (n - o)) \in Nat /\ p + (n - o) <= z
         /\ p + (n - o) + (z - (p + (n - o))) <= z
         /\ z - p = (n - o) + (z - (p + (n - o))) /\ o + (n - o) = n
OBVIOUS

(* A stream of which n bytes have been taken, before its end is noticed.   *)
After(s, n) ==
  [s EXCEPT !.fifo = SubSeq(s.fifo, n + 1, Len(s.fifo)),
            !.pos = IF n > Len(s.fifo) THEN s.pos + (n - Len(s.fifo))
                    ELSE s.pos]

LEMMA TakenParts ==
  ASSUME NEW s, Shape(s), NEW n \in 0 .. Len(Available(s))
  PROVE  /\ Shape(After(s, n))
         /\ SubSeq(Available(s), 1, n) \in Seq(1 .. Size + 1)
         /\ Len(SubSeq(Available(s), 1, n)) = n
         /\ SubSeq(Available(s), 1, n) \o Available(After(s, n))
              = Available(s)
         /\ After(s, n).conn = s.conn /\ After(s, n).open = s.open
         /\ After(s, n).eof = s.eof /\ After(s, n).notify = s.notify
         /\ Successive(SubSeq(Available(s), 1, n))
<1> DEFINE F == 1 .. Size + 1
           r == After(s, n)
           old == Len(s.fifo)
           rest == IF s.open THEN Run(s.pos, Size - s.pos) ELSE <<>>
           a == Available(s)
<1>1. /\ s \in Stream /\ s.fifo \in Seq(F) /\ s.open \in BOOLEAN
      /\ s.pos \in 0 .. Size /\ Ascending(s.fifo) /\ old <= Ahead
      /\ s.open => s.eof = FALSE /\ \A b \in BytesOf(s.fifo) : b <= s.pos
      /\ ~s.open /\ ~s.eof => s.fifo = <<>>
      /\ RunTo(a, Size) \/ (~s.open /\ RunTo(a, Size + 1))
  BY DEF Shape, Stream
<1>2. /\ a = s.fifo \o rest /\ a \in Seq(F) /\ old \in Nat
      /\ Len(a) = old + IF s.open THEN Size - s.pos ELSE 0
      /\ Size - s.pos \in Nat
  BY <1>1, AvailableIs
<1>3. n \in Nat /\ n <= Len(a) /\ Size \in Nat /\ Ahead \in Nat
  <2>0. Len(a) \in Nat
    <3>1. \A x \in Seq(F) : Len(x) \in Nat
      OBVIOUS
    <3> HIDE DEF a, F
    <3> QED
      BY <1>2, <3>1
  <2>1. Len(a) \in Nat /\ n \in 0 .. Len(a)
    BY <2>0
  <2> QED
    BY <2>1, ControlAssumption
<1>b. r = [s EXCEPT !.fifo = SubSeq(s.fifo, n + 1, old),
                    !.pos = IF n > old THEN s.pos + (n - old) ELSE s.pos]
  BY DEF After
<1>c. /\ s.open => rest = Run(s.pos, Size - s.pos)
      /\ ~s.open => rest = <<>>
  OBVIOUS
<1>4. \A x, y, z \in Seq(F) : (x \o y) \o z = x \o (y \o z)
  BY ConcatAssociative
<1>a. rest \in Seq(F)
  BY <1>1, <1>2, RunTyped, ControlAssumption
<1>d. ASSUME NEW q, q \in Stream, q.open = s.open, q.pos = s.pos
      PROVE  Available(q) = q.fifo \o rest
  BY <1>d, AvailableIs
<1>f. ASSUME NEW x \in Seq(F), NEW y \in Seq(F), a = x \o y
      PROVE  /\ Successive(x)
             /\ RunTo(y, Size) \/ (~s.open /\ RunTo(y, Size + 1))
  <2>1. Size \in Nat /\ Size + 1 \in Nat
    BY ControlAssumption
  <2> HIDE DEF a
  <2>2. CASE RunTo(a, Size)
    BY <1>f, <2>1, <2>2, RunToParts
  <2>3. CASE ~s.open /\ RunTo(a, Size + 1)
    BY <1>f, <2>1, <2>3, RunToParts
  <2> QED
    BY <1>1, <2>2, <2>3
<1> HIDE DEF a, old, rest, r
<1>e. old \in Nat
  BY <1>2
<1>5. CASE n <= old
  <2> DEFINE b == SubSeq(s.fifo, 1, n)
             c == SubSeq(s.fifo, n + 1, old)
  <2>1. /\ b \in Seq(F) /\ Len(b) = n
        /\ c \in Seq(F) /\ Len(c) = old - n
    <3>1. \A i \in 1 .. old : s.fifo[i] \in F
      BY <1>1, ElementOfSeq DEF old
    <3>2. \A i \in 1 .. n : s.fifo[i] \in F
      BY <1>e, <1>3, <1>5, <3>1
    <3>3. \A i \in n + 1 .. old : s.fifo[i] \in F
      <4>1. \A i \in n + 1 .. old : i \in 1 .. old
        BY <1>e, <1>3
      <4> QED
        BY <3>1, <4>1
    <3>4. b \in Seq(F) /\ Len(b) = IF 1 <= n THEN n - 1 + 1 ELSE 0
      BY <1>3, <3>2, SubSeqProperties
    <3>5. c \in Seq(F) /\ Len(c) = IF n + 1 <= old THEN old - (n + 1) + 1 ELSE 0
      BY <1>2, <1>3, <3>3, SubSeqProperties
    <3> HIDE DEF b, c
    <3> QED
      BY <1>2, <1>3, <1>5, <3>4, <3>5
  <2>2. b \o c = s.fifo
    <3>1. 1 \in 1 .. old + 1 /\ n \in 1 - 1 .. old /\ old \in n .. old
      BY <1>2, <1>3, <1>5
    <3>2. b \o c = SubSeq(s.fifo, 1, old)
      BY <1>1, <3>1, ConcatAdjacentSubSeq DEF old
    <3> QED
      BY <1>1, <3>2, SubSeqFull DEF old
  <2>3. ~ (n > old)
    BY <1>2, <1>3, <1>5
  <2>4. r = [s EXCEPT !.fifo = c, !.pos = s.pos]
    BY <1>b, <2>3
  <2> HIDE DEF b, c
  <2>5. /\ r \in Stream /\ r.fifo = c /\ r.pos = s.pos /\ r.open = s.open
        /\ r.eof = s.eof /\ r.conn = s.conn /\ r.notify = s.notify
    BY <1>1, <2>1, <2>4 DEF Stream
  <2>6. /\ b \in Seq(Nat) /\ c \in Seq(Nat)
    BY <2>1, FileStory
  <2>7. Ascending(c) /\ BytesOf(c) \subseteq BytesOf(s.fifo)
    <3>1. Ascending(b \o c) /\ BytesOf(b \o c) = BytesOf(s.fifo)
      BY <1>1, <2>2
    <3> QED
      BY <2>6, <3>1, AscendingConcat, BytesOfConcat
  <2>8. ~s.open /\ ~s.eof => c = <<>>
    <3>1. s.fifo = <<>> => old = 0
      BY DEF old
    <3>2. old = 0 => Len(c) = 0
      BY <1>2, <1>3, <1>5, <2>1
    <3>3. Len(c) = 0 => c = <<>>
      BY <2>1
    <3> QED
      BY <1>1, <3>1, <3>2, <3>3
  <2>9. Available(r) = c \o rest
    BY <1>d, <2>5
  <2>10. a = b \o (c \o rest)
    <3>1. a = (b \o c) \o rest
      BY <1>2, <2>2
    <3> QED
      BY <1>4, <1>a, <2>1, <3>1
  <2>11. c \o rest \in Seq(F)
    BY <1>a, <2>1, ConcatProperties
  <2>12. /\ Successive(b)
         /\ \/ RunTo(Available(r), Size)
            \/ ~r.open /\ RunTo(Available(r), Size + 1)
    BY <1>f, <2>1, <2>5, <2>9, <2>10, <2>11
  <2>13. Shape(r)
    <3>1. Len(c) <= Ahead
      BY <1>1, <1>2, <1>3, <2>1
    <3> QED
      BY <1>1, <2>5, <2>7, <2>8, <2>12, <3>1 DEF Shape
  <2>14. SubSeq(a, 1, n) = b
    BY <2>1, <2>10, <2>11, SubSeqFirst
  <2> QED
    BY <2>1, <2>5, <2>9, <2>10, <2>12, <2>13, <2>14 DEF a, r
<1>6. CASE n > old
  <2> DEFINE k == n - old
             u == Run(s.pos, k)
             v == Run(s.pos + k, Size - (s.pos + k))
  <2>1. s.open /\ Len(a) = old + (Size - s.pos)
    <3>1. CASE ~s.open
      <4>1. Len(a) = old
        BY <1>2, <3>1
      <4> QED
        BY <1>2, <1>3, <1>6, <4>1
    <3> QED
      BY <1>1, <1>2, <3>1
  <2>2. /\ k \in Nat /\ s.pos \in Nat /\ s.pos + k \in 0 .. Size
        /\ s.pos + k \in Nat
        /\ Size - (s.pos + k) \in Nat /\ s.pos + k <= Size
        /\ s.pos + k + (Size - (s.pos + k)) <= Size
        /\ Size - s.pos = k + (Size - (s.pos + k)) /\ old + k = n
    <3>1. s.pos \in Nat /\ s.pos <= Size /\ n <= old + (Size - s.pos)
      BY <1>1, <1>3, <2>1
    <3>2. Size \in Nat /\ n \in Nat
      BY <1>3
    <3> QED
      BY <1>e, <1>6, <3>1, <3>2, Onward
  <2>3. SubSeq(s.fifo, n + 1, old) = <<>>
    BY <1>2, <1>3, <1>6, SubSeqEmpty
  <2>4. r = [s EXCEPT !.fifo = <<>>, !.pos = s.pos + k]
    BY <1>b, <1>6, <2>3
  <2> HIDE DEF k
  <2>5. /\ r \in Stream /\ r.fifo = <<>> /\ r.pos = s.pos + k
        /\ r.open = s.open /\ r.eof = s.eof /\ r.conn = s.conn
        /\ r.notify = s.notify
    <3>1. <<>> \in Seq(F)
      OBVIOUS
    <3> QED
      BY <1>1, <2>2, <2>4, <3>1 DEF Stream
  <2>6. Len(r.fifo) <= Ahead
    <3>1. Len(r.fifo) = 0 /\ Ahead \in Nat
      BY <2>5, ControlAssumption
    <3> QED
      BY <3>1
  <2>7. /\ u \in Seq(F) /\ Len(u) = k /\ v \in Seq(F)
    BY <2>2, RunTyped
  <2>8. u \o v = Run(s.pos, k + (Size - (s.pos + k)))
    BY <2>2, RunSplit
  <2>9. rest = u \o v
    BY <1>c, <2>1, <2>2, <2>8
  <2>10. Available(r) = <<>> \o v
    BY <2>1, <2>5, AvailableIs
  <2> HIDE DEF u, v
  <2>11. Available(r) = v
    BY <2>7, <2>10, ConcatEmptySeq
  <2>12. a = (s.fifo \o u) \o v
    <3>1. a = s.fifo \o (u \o v)
      BY <1>2, <2>9
    <3> QED
      BY <1>1, <1>4, <2>7, <3>1
  <2>13. /\ s.fifo \o u \in Seq(F) /\ Len(s.fifo \o u) = old + k
    BY <1>1, <2>7, ConcatProperties DEF old
  <2>14. SubSeq(a, 1, n) = s.fifo \o u
    BY <2>2, <2>7, <2>12, <2>13, SubSeqFirst
  <2>15. /\ Successive(s.fifo \o u)
         /\ \/ RunTo(Available(r), Size)
            \/ ~r.open /\ RunTo(Available(r), Size + 1)
    BY <1>f, <2>5, <2>7, <2>11, <2>12, <2>13
  <2>16. Shape(r)
    BY <1>1, <2>1, <2>5, <2>6, <2>15, EmptyStory DEF Shape
  <2> QED
    BY <2>2, <2>5, <2>11, <2>12, <2>13, <2>14, <2>15, <2>16 DEF a, r
<1> QED
  <2>1. n <= old \/ n > old
    BY <1>2, <1>3
  <2> QED
    BY <1>5, <1>6, <2>1

LEMMA TakenOf ==
  ASSUME NEW s, Shape(s), NEW n \in 0 .. Len(Available(s)),
         NEW more \in BOOLEAN, NEW t, t = Taken(s, n, more)
  PROVE  /\ Shape(t.stream) /\ t.event \in BOOLEAN
         /\ t.bytes \in Seq(1 .. Size + 1) /\ Len(t.bytes) = n
         /\ Successive(t.bytes)
         /\ t.bytes \o Available(t.stream) = Available(s)
         /\ t.stream.conn = s.conn
         /\ Connected(t.stream) <=> Connected(s)
         /\ t.stream.open => s.open
<1> DEFINE r == After(s, n)
           end == r.open /\ Exhausted(r) /\ (n > Len(s.fifo) \/ more)
           b == SubSeq(Available(s), 1, n)
<1>1. /\ Shape(r) /\ b \in Seq(1 .. Size + 1) /\ Len(b) = n
      /\ Successive(b)
      /\ b \o Available(r) = Available(s)
      /\ r.conn = s.conn /\ r.open = s.open /\ r.eof = s.eof
  BY TakenParts
<1>2. s \in Stream
  BY DEF Shape
<1>3. r = [s EXCEPT !.fifo = SubSeq(@, n + 1, Len(s.fifo)),
                    !.pos = IF n > Len(s.fifo) THEN @ + (n - Len(s.fifo))
                            ELSE @]
  BY <1>2 DEF Stream, After
<1>4. t = [bytes |-> b, stream |-> IF end THEN Finished(r) ELSE r,
           event |-> end /\ r.notify]
  BY <1>3 DEF Taken
<1>5. end \in BOOLEAN /\ r.notify \in BOOLEAN
  BY <1>1 DEF Shape, Stream
<1> HIDE DEF b, r
<1>7. CASE end
  <2>1. r.open /\ r.pos = Size
    BY <1>7 DEF Exhausted
  <2>2. /\ Shape(Finished(r)) /\ Available(Finished(r)) = Available(r)
        /\ ~Finished(r).open /\ Finished(r).eof /\ Finished(r).conn = r.conn
    BY <1>1, <2>1, FinishedOf
  <2>3. t.stream = Finished(r) /\ t.bytes = b /\ t.event \in BOOLEAN
    BY <1>4, <1>5, <1>7
  <2> QED
    BY <1>1, <2>1, <2>2, <2>3 DEF Connected
<1>8. CASE ~end
  <2>1. t.stream = r /\ t.bytes = b /\ t.event \in BOOLEAN
    BY <1>4, <1>5, <1>8
  <2> QED
    BY <1>1, <2>1 DEF Connected
<1> QED
  BY <1>7, <1>8

(* INHEX and INASCII take some n bytes, none only if there are none.       *)
Takes(s, t) ==
  \E n \in 0 .. Len(Available(s)), more \in BOOLEAN :
    t = Taken(s, n, more) /\ (n = 0 => Available(s) = <<>>)

LEMMA TakeHexTakes ==
  ASSUME NEW s \in Stream, NEW max \in Nat \ {0}
  PROVE  Takes(s, TakeHex(s, max))
<1> DEFINE n == Min({max, Len(Available(s))})
<1>1. /\ Available(s) \in Seq(1 .. Size + 1) /\ Len(Available(s)) \in Nat
  <2>1. \A x \in Seq(1 .. Size + 1) : Len(x) \in Nat
    OBVIOUS
  <2> QED
    BY <2>1, AvailableIs
<1>2. /\ n \in {max, Len(Available(s))}
      /\ \A y \in {max, Len(Available(s))} : n <= y
  <2>1. {max, Len(Available(s))} \in SUBSET Nat
    BY <1>1
  <2> QED
    BY <2>1, MinProperties
<1>3. TakeHex(s, max) = Taken(s, n, n < max)
  BY DEF TakeHex
<1> HIDE DEF n
<1>4. n \in 0 .. Len(Available(s)) /\ (n < max) \in BOOLEAN
  BY <1>1, <1>2
<1>5. n = 0 => Available(s) = <<>>
  <2>1. n = 0 => Len(Available(s)) = 0
    BY <1>2
  <2>2. \A x \in Seq(1 .. Size + 1) : Len(x) = 0 => x = <<>>
    OBVIOUS
  <2> QED
    BY <1>1, <2>1, <2>2
<1> QED
  BY <1>3, <1>4, <1>5 DEF Takes

(* A line ends at its first line feed. *)
EndsLine(b) == \A i \in 1 .. Len(b) - 1 : b[i] \notin LineEnds

LEMMA EndsLineOf ==
  ASSUME NEW a \in Seq(1 .. Size + 1), NEW n \in 0 .. Len(a),
         \A i \in 1 .. Len(a) : i < n => a[i] \notin LineEnds
  PROVE  EndsLine(SubSeq(a, 1, n))
<1> DEFINE b == SubSeq(a, 1, n)
<1>1. n \in Nat /\ n <= Len(a) /\ Len(a) \in Nat
  <2>1. Len(a) \in Nat
    OBVIOUS
  <2> QED
    BY <2>1
<1>2. Len(b) = n /\ \A i \in 1 .. n : b[i] = a[i]
  <2>1. \A i \in 1 .. n : a[i] \in 1 .. Size + 1
    <3>1. \A i \in 1 .. Len(a) : a[i] \in 1 .. Size + 1
      BY ElementOfSeq
    <3>2. 1 .. n \subseteq 1 .. Len(a)
      BY <1>1
    <3> QED
      BY <3>1, <3>2
  <2>2. /\ Len(b) = IF 1 <= n THEN n - 1 + 1 ELSE 0
        /\ \A i \in 1 .. n - 1 + 1 : b[i] = a[1 + i - 1]
    BY <1>1, <2>1, SubSeqProperties
  <2> HIDE DEF b
  <2>3. n - 1 + 1 = n /\ \A i \in 1 .. n : 1 + i - 1 = i
    BY <1>1
  <2>4. Len(b) = n
    BY <1>1, <2>2
  <2> QED
    BY <2>2, <2>3, <2>4
<1> HIDE DEF b
<1>3. \A i \in 1 .. n - 1 : i \in 1 .. n /\ i \in 1 .. Len(a) /\ i < n
  BY <1>1
<1> QED
  BY <1>2, <1>3 DEF EndsLine, b

LEMMA TakeLineTakes ==
  ASSUME NEW s \in Stream
  PROVE  Takes(s, TakeLine(s)) /\ EndsLine(TakeLine(s).bytes)
<1> DEFINE a == Available(s)
           stops == {i \in DOMAIN a :
                       \/ a[i] \in LineEnds
                       \/ Cardinality({k \in 1 .. i :
                                         a[k] \notin Returns}) = LineMax}
<1>1. a \in Seq(1 .. Size + 1)
  BY AvailableIs
<1>2. TakeLine(s) = IF stops = {} THEN Taken(s, Len(a), TRUE)
                    ELSE Taken(s, Min(stops), FALSE)
  BY DEF TakeLine
<1>3. \A n, more : Taken(s, n, more).bytes = SubSeq(a, 1, n)
  BY DEF Taken
<1>4. \A i \in DOMAIN a : a[i] \in LineEnds => i \in stops
  OBVIOUS
<1>5. stops \subseteq DOMAIN a
  OBVIOUS
<1> HIDE DEF a, stops
<1>6. Len(a) \in Nat /\ DOMAIN a = 1 .. Len(a)
  BY <1>1
<1>7. CASE stops = {}
  <2>1. Len(a) = 0 => a = <<>>
    BY <1>1
  <2>2. Len(a) \in 0 .. Len(a) /\ TRUE \in BOOLEAN
    BY <1>6
  <2>3. TakeLine(s) = Taken(s, Len(a), TRUE)
    BY <1>2, <1>7
  <2>4. EndsLine(SubSeq(a, 1, Len(a)))
    BY <1>1, <1>4, <1>6, <1>7, <2>2, EndsLineOf
  <2> QED
    BY <1>3, <2>1, <2>2, <2>3, <2>4 DEF Takes, a
<1>8. CASE stops # {}
  <2>1. stops \in SUBSET Nat /\ stops \subseteq 1 .. Len(a)
    BY <1>5, <1>6
  <2>2. /\ Min(stops) \in 1 .. Len(a)
        /\ \A y \in stops : Min(stops) <= y
    BY <1>8, <2>1, MinProperties
  <2>3. Min(stops) \in 0 .. Len(a) /\ Min(stops) # 0 /\ FALSE \in BOOLEAN
    BY <1>6, <2>2
  <2>4. TakeLine(s) = Taken(s, Min(stops), FALSE)
    BY <1>2, <1>8
  <2>5. \A i \in 1 .. Len(a) : i < Min(stops) => a[i] \notin LineEnds
    <3>1. \A i \in 1 .. Len(a) : i < Min(stops) => ~ (Min(stops) <= i)
      BY <2>2
    <3> QED
      BY <1>4, <1>6, <2>2, <3>1
  <2>6. EndsLine(SubSeq(a, 1, Min(stops)))
    BY <1>1, <2>3, <2>5, EndsLineOf
  <2> QED
    BY <1>3, <2>3, <2>4, <2>6 DEF Takes, a
<1> QED
  BY <1>7, <1>8

-----------------------------------------------------------------------------
(***************************************************************************)
(* The answers of a command.                                               *)
(***************************************************************************)
Whole(w) == w # <<>> /\ w[Len(w)].last

LEMMA MarkedOf ==
  ASSUME stream \in Stream, NEW ats \in Seq(0 .. Size + 2), ats # <<>>
  PROVE  /\ Marked(ats) \in Seq(Byte) /\ Whole(Marked(ats))
         /\ \A i \in DOMAIN Marked(ats) : Marked(ats)[i].conn = stream.conn
         /\ Of(stream.conn, Marked(ats)) = ats
<1> DEFINE m == Marked(ats)
           n == Len(ats)
<1>1. n \in Nat /\ n # 0 /\ DOMAIN ats = 1 .. n
      /\ \A i \in 1 .. n : ats[i] \in 0 .. Size + 2
  <2>1. n \in Nat /\ n # 0 /\ DOMAIN ats = 1 .. n
    OBVIOUS
  <2> QED
    BY <2>1, ElementOfSeq
<1>2. stream.conn \in Nat
  BY DEF Stream
<1>3. m = [i \in 1 .. n |->
             [last |-> i = n, at |-> ats[i], conn |-> stream.conn]]
  BY <1>1 DEF Marked
<1>4. ASSUME NEW i \in 1 .. n
      PROVE  [last |-> i = n, at |-> ats[i], conn |-> stream.conn] \in Byte
  BY <1>1, <1>2 DEF Byte
<1>5. m \in Seq(Byte) /\ DOMAIN m = 1 .. n /\ Len(m) = n
  <2>1. m \in [1 .. n -> Byte]
    BY <1>3, <1>4
  <2> HIDE DEF m, n
  <2>2. n \in Nat
    BY <1>1
  <2> QED
    BY <2>1, <2>2
<1>6. DOMAIN m = 1 .. n /\ Len(m) = n
  BY <1>5
<1>7. \A i \in 1 .. n : /\ m[i].last = (i = n) /\ m[i].at = ats[i]
                        /\ m[i].conn = stream.conn
  BY <1>3
<1> HIDE DEF m
<1>8. Whole(m)
  <2>1. m # <<>> /\ n \in 1 .. n
    BY <1>1, <1>6
  <2> QED
    BY <1>6, <1>7, <2>1 DEF Whole
<1>9. Of(stream.conn, m) = [i \in 1 .. n |-> ats[i]]
  BY <1>6, <1>7 DEF Of
<1>10. ats = [i \in 1 .. n |-> ats[i]]
  BY <1>1
<1> QED
  BY <1>5, <1>6, <1>7, <1>8, <1>9, <1>10 DEF m

(* An answer that says nothing of the file. *)
Silent(w) ==
  /\ w \in Seq(Byte) /\ Whole(w)
  /\ \A i \in DOMAIN w : w[i].conn = stream.conn
  /\ BytesOf(Of(stream.conn, w)) \subseteq {0}

LEMMA FrameSilent ==
  ASSUME stream \in Stream
  PROVE  Silent(Frame)
<1> DEFINE z == [i \in 1 .. FrameBytes |-> 0]
<1>1. FrameBytes \in Nat \ {0} /\ 0 \in 0 .. Size + 2
  BY ControlAssumption
<1>2. z \in Seq(0 .. Size + 2) /\ z # <<>>
  BY <1>1
<1>3. BytesOf(z) \subseteq {0}
  BY DEF BytesOf
<1>4. Frame = Marked(z)
  BY DEF Frame
<1> HIDE DEF z
<1> QED
  BY <1>2, <1>3, <1>4, MarkedOf DEF Silent

LEMMA EventsSilent ==
  ASSUME stream \in Stream, NEW event \in BOOLEAN
  PROVE  /\ Events(event) \in Seq(Seq(Byte)) /\ Len(Events(event)) \in 0 .. 1
         /\ \A i \in DOMAIN Events(event) : Silent(Events(event)[i])
<1>1. Silent(Frame) /\ Frame \in Seq(Byte)
  BY FrameSilent DEF Silent
<1>2. CASE event
  BY <1>1, <1>2 DEF Events
<1>3. CASE ~event
  BY <1>3 DEF Events
<1> QED
  BY <1>2, <1>3

(* A finite set of numbers can be listed in their order. *)
Increasing(f) == \A i, j \in DOMAIN f : i < j => f[i] < f[j]

Listed(K) ==
  IsFiniteSet(K) /\ \E f \in [1 .. Cardinality(K) -> K] : Increasing(f)

LEMMA ListedMore ==
  ASSUME NEW n \in Nat, NEW K, K \subseteq 1 .. n, Listed(K)
  PROVE  Listed(K \cup {n + 1})
<1> DEFINE c == Cardinality(K)
           L == K \cup {n + 1}
<1>1. PICK f \in [1 .. c -> K] : Increasing(f)
  BY DEF Listed
<1>2. IsFiniteSet(K) /\ n + 1 \notin K
  BY DEF Listed
<1>3. IsFiniteSet(L) /\ Cardinality(L) = c + 1
  BY <1>2, FS_AddElement
<1>4. c \in Nat
  BY <1>2, FS_CardinalityType
<1> HIDE DEF c, L
<1> DEFINE g == [i \in 1 .. c + 1 |-> IF i <= c THEN f[i] ELSE n + 1]
<1>5. g \in [1 .. c + 1 -> L]
  <2>1. \A i \in 1 .. c + 1 : i <= c => i \in 1 .. c
    BY <1>4
  <2> QED
    BY <2>1 DEF L
<1>6. Increasing(g)
  <2>1. ASSUME NEW i \in 1 .. c + 1, NEW j \in 1 .. c + 1, i < j
        PROVE  g[i] < g[j]
    <3>1. i \in 1 .. c /\ g[i] = f[i]
      BY <1>4, <2>1
    <3>2. CASE j <= c
      <4>1. j \in 1 .. c /\ g[j] = f[j]
        BY <1>4, <3>2
      <4> QED
        BY <1>1, <2>1, <3>1, <4>1 DEF Increasing
    <3>3. CASE ~ (j <= c)
      <4>1. g[j] = n + 1 /\ f[i] \in 1 .. n
        BY <3>1, <3>3
      <4> QED
        BY <3>1, <4>1
    <3> QED
      BY <3>2, <3>3
  <2> QED
    BY <2>1 DEF Increasing
<1> HIDE DEF g
<1> QED
  BY <1>3, <1>5, <1>6 DEF Listed, L

LEMMA Listing ==
  ASSUME NEW n \in Nat, NEW K, K \subseteq 1 .. n
  PROVE  Listed(K)
<1> DEFINE S == {m \in Nat : \E T : T \subseteq 1 .. m /\ ~Listed(T)}
<1>1. ASSUME S # {} PROVE FALSE
  <2> DEFINE m == Min(S)
  <2>1. S \in SUBSET Nat
    OBVIOUS
  <2>2. m \in S /\ \A y \in S : m <= y
    BY <1>1, <2>1, MinProperties
  <2> HIDE DEF m
  <2>3. m \in Nat
    BY <2>2
  <2>4. PICK T : T \subseteq 1 .. m /\ ~Listed(T)
    BY <2>2
  <2>5. CASE m = 0
    <3>1. T = {}
      BY <2>4, <2>5
    <3>2. IsFiniteSet({}) /\ Cardinality({}) = 0
      BY FS_EmptySet
    <3>3. <<>> \in [1 .. 0 -> {}] /\ Increasing(<<>>)
      BY DEF Increasing
    <3>4. Listed({})
      BY <3>2, <3>3 DEF Listed
    <3> QED
      BY <2>4, <3>1, <3>4
  <2>6. CASE m # 0
    <3>1. m - 1 \in Nat /\ ~ (m <= m - 1) /\ m = (m - 1) + 1
      BY <2>3, <2>6
    <3>2. m - 1 \notin S
      BY <2>2, <3>1
    <3> DEFINE U == T \ {m}
    <3>3. U \subseteq 1 .. m - 1
      BY <2>3, <2>4
    <3>4. Listed(U)
      BY <3>1, <3>2, <3>3
    <3>5. Listed(U \cup {m})
      <4> HIDE DEF U
      <4>1. Listed(U \cup {(m - 1) + 1})
        BY <3>1, <3>3, <3>4, ListedMore
      <4> QED
        BY <3>1, <4>1
    <3>6. T = U \/ T = U \cup {m}
      OBVIOUS
    <3> QED
      BY <2>4, <3>4, <3>5, <3>6
  <2> QED
    BY <2>5, <2>6
<1> QED
  BY <1>1

(* ... and the list leaves out none of them. *)
LEMMA ListsAll ==
  ASSUME NEW n \in Nat, NEW K, K \subseteq 1 .. n,
         NEW f \in [1 .. Cardinality(K) -> K], Increasing(f)
  PROVE  /\ Cardinality(K) \in Nat
         /\ \A k \in K : \E i \in 1 .. Cardinality(K) : f[i] = k
<1> DEFINE c == Cardinality(K)
<1>1. IsFiniteSet(K)
  BY Listing DEF Listed
<1>2. c \in Nat
  BY <1>1, FS_CardinalityType
<1>3. IsFiniteSet(1 .. c) /\ Cardinality(1 .. c) = c
  BY <1>2, FS_Interval
<1> HIDE DEF c
<1>4. ASSUME NEW i \in 1 .. c, NEW j \in 1 .. c, i # j
      PROVE  f[i] # f[j]
  <2>1. f[i] \in 1 .. n /\ f[j] \in 1 .. n
    BY <1>4 DEF c
  <2>2. i < j \/ j < i
    BY <1>4
  <2>3. DOMAIN f = 1 .. c
    BY DEF c
  <2>4. f[i] < f[j] \/ f[j] < f[i]
    BY <2>2, <2>3 DEF Increasing
  <2> QED
    BY <2>1, <2>4
<1>5. f \in Injection(1 .. c, K)
  <2>1. f \in [1 .. c -> K] /\ IsInjective(f)
    BY <1>4 DEF IsInjective, c
  <2> QED
    BY <2>1 DEF Injection
<1>6. f \in Surjection(1 .. c, K)
  BY <1>1, <1>3, <1>5, FS_Injection DEF c
<1> QED
  BY <1>2, <1>6 DEF Surjection, c

(* The bytes of S that are the file's and that INASCII returns. *)
Owed(S) == (S \cap (1 .. Size)) \ Dropped

LEMMA TextOf ==
  ASSUME NEW b \in Seq(1 .. Size + 1), Successive(b), EndsLine(b)
  PROVE  /\ Text(b) \in Seq(1 .. Size + 1)
         /\ BytesOf(Text(b)) \subseteq BytesOf(b)
         /\ Owed(BytesOf(b)) \subseteq BytesOf(Text(b))
         /\ Ascending(b) => Ascending(Text(b))
<1> DEFINE n == Len(b)
           K == {i \in DOMAIN b :
                   /\ b[i] \notin LineEnds \cup Returns
                   /\ \A k \in 1 .. i : b[k] \notin Nulls}
           c == Cardinality(K)
           f == CHOOSE g \in [1 .. Cardinality(K) -> K] :
                  \A i, j \in DOMAIN g : i < j => g[i] < g[j]
           v == [i \in 1 .. c |-> b[f[i]]]
<1>1. n \in Nat /\ DOMAIN b = 1 .. n
      /\ \A i \in 1 .. n : b[i] \in 1 .. Size + 1 /\ b[i] \in Nat
  <2>1. \A i \in 1 .. n : b[i] \in 1 .. Size + 1
    BY ElementOfSeq
  <2>2. 1 .. Size + 1 \subseteq Nat
    OBVIOUS
  <2> QED
    BY <2>1, <2>2
<1>2. Text(b) = v
  BY DEF Text
<1>3. K \subseteq 1 .. n
  BY <1>1
<1>4. ASSUME NEW i \in 1 .. n, b[i] \notin LineEnds \cup Returns,
             \A k \in 1 .. i : b[k] \notin Nulls
      PROVE  i \in K
  BY <1>1, <1>4
<1>5. f \in [1 .. c -> K] /\ Increasing(f)
  <2>1. \E g \in [1 .. c -> K] : Increasing(g)
    BY <1>1, <1>3, Listing DEF Listed
  <2> HIDE DEF K
  <2> QED
    BY <2>1 DEF Increasing
<1> HIDE DEF K, f
<1>6. /\ c \in Nat
      /\ \A k \in K : \E i \in 1 .. c : f[i] = k
  BY <1>1, <1>3, <1>5, ListsAll
<1> HIDE DEF c
<1>7. \A i \in 1 .. c : f[i] \in 1 .. n
  BY <1>3, <1>5
<1>8. v \in Seq(1 .. Size + 1) /\ DOMAIN v = 1 .. c
  <2>1. v \in [1 .. c -> 1 .. Size + 1]
    BY <1>1, <1>7
  <2> HIDE DEF v
  <2>2. DOMAIN v = 1 .. c
    BY <2>1
  <2>3. v \in Seq(1 .. Size + 1)
    BY <1>6, <2>1, SeqDef
  <2> QED
    BY <2>2, <2>3
<1>9. \A i \in 1 .. c : v[i] = b[f[i]]
  OBVIOUS
<1> HIDE DEF v, n
<1>10. BytesOf(v) \subseteq BytesOf(b)
  BY <1>1, <1>7, <1>8, <1>9 DEF BytesOf
<1>11. ASSUME NEW x \in Owed(BytesOf(b))
       PROVE  x \in BytesOf(v)
  <2>1. x \in 1 .. Size /\ x \notin LineEnds \cup Returns /\ x \notin CutOff
    BY DEF Owed, Dropped
  <2>2. PICK j \in 1 .. n : b[j] = x
    BY <1>1 DEF Owed, BytesOf
  <2>3. ASSUME NEW k \in 1 .. j, b[k] \in Nulls
        PROVE  x \in CutOff
    <3>1. k \in 1 .. n /\ k <= j /\ j <= n
      BY <1>1
    <3>2. b[k] \in Nat /\ b[k] + j = x + k /\ b[k] <= x
      <4>1. b[k] \in Nat
        BY <1>1, <3>1
      <4>2. b[k] + j = b[j] + k
        BY <3>1 DEF Successive, n
      <4> QED
        BY <2>1, <2>2, <3>1, <4>1, <4>2
    <3>3. ASSUME NEW i \in b[k] .. x - 1
          PROVE  i \notin LineEnds
      <4> DEFINE m == (i - b[k]) + k
      <4>1. /\ m \in 1 .. n /\ m \in 1 .. n - 1 /\ i = b[k] + (m - k)
            /\ i \in Nat /\ m \in Nat
        BY <1>1, <2>1, <3>1, <3>2
      <4> HIDE DEF m
      <4>2. b[m] + k = b[k] + m
        BY <3>1, <4>1 DEF Successive, n
      <4>3. b[m] \in Nat
        BY <1>1, <4>1
      <4>4. b[m] = i
        BY <3>1, <3>2, <4>1, <4>2, <4>3
      <4> QED
        BY <4>1, <4>4 DEF EndsLine, n
    <3> QED
      BY <2>1, <2>3, <3>2, <3>3 DEF CutOff
  <2>4. j \in K
    BY <1>4, <2>1, <2>2, <2>3
  <2>5. PICK i \in 1 .. c : f[i] = j
    BY <1>6, <2>4
  <2> QED
    BY <1>8, <1>9, <2>2, <2>5 DEF BytesOf
<1>12. ASSUME Ascending(b)
       PROVE  Ascending(v)
  <2>1. ASSUME NEW i \in 1 .. c, NEW j \in 1 .. c, i < j
        PROVE  /\ v[i] = b[f[i]] /\ v[j] = b[f[j]] /\ f[i] < f[j]
               /\ f[i] \in 1 .. n /\ f[j] \in 1 .. n
    BY <1>5, <1>7, <1>9, <2>1 DEF Increasing
  <2> QED
    BY <1>1, <1>8, <1>12, <2>1 DEF Ascending
<1> QED
  BY <1>2, <1>8, <1>10, <1>11, <1>12

(* What the answer w to a read says of the file: the bytes the stream has  *)
(* lost, but for those INASCII drops; or that there are none.              *)
Said(s, t, v) ==
  \/ \E b \in Seq(1 .. Size + 1) :
       /\ b \o Available(t) = Available(s)
       /\ BytesOf(v) \subseteq BytesOf(b) \cup {0}
       /\ Owed(BytesOf(b)) \subseteq BytesOf(v)
  \/ /\ Available(s) = <<>> /\ Available(t) = <<>> /\ ~t.open
     /\ BytesOf(v) \subseteq {0, EofLine}

Tells(s, t, w) ==
  /\ w \in Seq(Byte) /\ Whole(w)
  /\ \A i \in DOMAIN w : w[i].conn = stream.conn
  /\ Ascending(Of(stream.conn, w)) /\ Said(s, t, Of(stream.conn, w))

GoesOn(s, t) ==
  /\ Shape(t) /\ t.conn = s.conn
  /\ Connected(t) <=> Connected(s)
  /\ t.open => s.open

LEMMA ReadAnswerOf ==
  ASSUME stream \in Stream, NEW s, Shape(s), NEW t, Takes(s, t),
         NEW line,
         line = t.bytes \/ (line = Text(t.bytes) /\ EndsLine(t.bytes))
  PROVE  /\ GoesOn(s, t.stream) /\ t.event \in BOOLEAN
         /\ \E w : /\ ReadAnswer(t, line) = Events(t.event) \o <<w>>
                   /\ Tells(s, t.stream, w)
<1>1. PICK n \in 0 .. Len(Available(s)), more \in BOOLEAN :
        t = Taken(s, n, more) /\ (n = 0 => Available(s) = <<>>)
  BY DEF Takes
<1>2. /\ Shape(t.stream) /\ t.event \in BOOLEAN
      /\ t.bytes \in Seq(1 .. Size + 1) /\ Len(t.bytes) = n
      /\ Successive(t.bytes)
      /\ t.bytes \o Available(t.stream) = Available(s)
      /\ t.stream.conn = s.conn
      /\ Connected(t.stream) <=> Connected(s)
      /\ t.stream.open => s.open
  BY <1>1, TakenOf
<1>3. /\ Available(s) \in Seq(Nat) /\ Available(t.stream) \in Seq(Nat)
      /\ Ascending(Available(s)) /\ t.bytes \in Seq(Nat)
  BY <1>2, AvailableAscends, FileStory
<1>4. Ascending(t.bytes)
  <2>1. Ascending(t.bytes \o Available(t.stream))
    BY <1>2, <1>3
  <2> QED
    BY <1>3, <2>1, AscendingConcat
<1>5. 0 \in 0 .. Size + 2 /\ EofLine \in 0 .. Size + 2
      /\ 1 .. Size + 1 \subseteq 0 .. Size + 2
      /\ 0 .. Size + 2 \subseteq Nat
  BY ControlAssumption DEF EofLine
<1>6. CASE t.bytes # <<>>
  <2> DEFINE v == Append(line, 0)
             w == Marked(v)
  <2>1. ReadAnswer(t, line) = Events(t.event) \o <<w>>
    BY <1>6 DEF ReadAnswer, Line
  <2>2. /\ line \in Seq(1 .. Size + 1) /\ Ascending(line)
        /\ BytesOf(line) \subseteq BytesOf(t.bytes)
        /\ Owed(BytesOf(t.bytes)) \subseteq BytesOf(line)
    <3>1. Owed(BytesOf(t.bytes)) \subseteq BytesOf(t.bytes)
      BY DEF Owed
    <3> QED
      BY <1>2, <1>4, <3>1, TextOf
  <2>3. line \in Seq(0 .. Size + 2) /\ line \in Seq(Nat)
    <3>1. Seq(1 .. Size + 1) \subseteq Seq(0 .. Size + 2)
      BY <1>5, SeqMonotonic
    <3> QED
      BY <2>2, <3>1, FileStory
  <2>4. v = line \o <<0>> /\ <<0>> \in Seq(Nat)
    BY <1>5, <2>3, AppendIsConcat
  <2>5. v \in Seq(0 .. Size + 2) /\ v # <<>>
    BY <1>5, <2>3
  <2>6. BytesOf(<<0>>) = {0} /\ Ascending(<<0>>)
    BY DEF BytesOf, Ascending
  <2>7. Ascending(v) /\ BytesOf(v) = BytesOf(line) \cup {0}
    BY <2>2, <2>3, <2>4, <2>6, ZeroConcat, BytesOfConcat
  <2> HIDE DEF v
  <2>8. /\ w \in Seq(Byte) /\ Whole(w) /\ Of(stream.conn, w) = v
        /\ \A i \in DOMAIN w : w[i].conn = stream.conn
    BY <2>5, MarkedOf
  <2> HIDE DEF w
  <2>9. Said(s, t.stream, v)
    BY <1>2, <2>2, <2>7 DEF Said
  <2>10. Tells(s, t.stream, w)
    BY <2>7, <2>8, <2>9 DEF Tells
  <2> QED
    BY <1>2, <2>1, <2>10 DEF GoesOn
<1>7. CASE t.bytes = <<>>
  <2> DEFINE x == IF t.stream.eof THEN EofLine ELSE 0
             v == Append(<<x>>, 0)
             w == Marked(v)
  <2>1. ReadAnswer(t, line) = Events(t.event) \o <<w>>
    BY <1>7 DEF ReadAnswer, Line
  <2>2. Available(s) = <<>> /\ Available(t.stream) = <<>>
    <3>1. n = 0
      BY <1>2, <1>7
    <3>2. <<>> \o Available(t.stream) = Available(t.stream)
      BY <1>3, ConcatEmptySeq
    <3> QED
      BY <1>1, <1>2, <1>7, <3>1, <3>2
  <2>3. x \in 0 .. Size + 2 /\ <<x>> \in Seq(0 .. Size + 2)
    <3>1. x \in 0 .. Size + 2
      BY <1>5
    <3> HIDE DEF x
    <3> QED
      BY <3>1
  <2> HIDE DEF x
  <2>4. v \in Seq(0 .. Size + 2) /\ v # <<>>
    BY <1>5, <2>3
  <2>5. BytesOf(v) = {x, 0} /\ Ascending(v)
    <3>1. <<x>> \in Seq(Nat) /\ <<0>> \in Seq(Nat)
      BY <1>5, <2>3, SeqMonotonic
    <3>2. v = <<x>> \o <<0>>
      BY <2>3, <3>1, AppendIsConcat
    <3>3. /\ BytesOf(<<x>>) = {x} /\ Ascending(<<x>>)
          /\ BytesOf(<<0>>) = {0} /\ Ascending(<<0>>)
      BY DEF BytesOf, Ascending
    <3>4. BytesOf(<<x>> \o <<0>>) = BytesOf(<<x>>) \cup BytesOf(<<0>>)
      BY <3>1, BytesOfConcat
    <3>5. Ascending(<<x>> \o <<0>>)
      BY <3>1, <3>3, ZeroConcat
    <3> HIDE DEF v
    <3> QED
      BY <3>2, <3>3, <3>4, <3>5
  <2> HIDE DEF v
  <2>6. /\ w \in Seq(Byte) /\ Whole(w) /\ Of(stream.conn, w) = v
        /\ \A i \in DOMAIN w : w[i].conn = stream.conn
    BY <2>4, MarkedOf
  <2> HIDE DEF w
  <2>7. Said(s, t.stream, v)
    <3>1. CASE t.stream.eof
      <4>1. ~t.stream.open
        BY <1>2, <3>1 DEF Shape
      <4> QED
        BY <2>2, <2>5, <3>1, <4>1 DEF Said, x
    <3>2. CASE ~t.stream.eof
      <4>1. BytesOf(<<>>) = {} /\ <<>> \in Seq(1 .. Size + 1)
        BY EmptyStory
      <4> QED
        BY <1>2, <1>7, <2>5, <3>2, <4>1 DEF Said, Owed, x
    <3> QED
      BY <3>1, <3>2
  <2>8. Tells(s, t.stream, w)
    BY <2>5, <2>6, <2>7 DEF Tells
  <2> QED
    BY <1>2, <2>1, <2>8 DEF GoesOn
<1> QED
  BY <1>6, <1>7

(***************************************************************************)
(* What an operation queues: at most three answers, told one after the     *)
(* other.                                                                  *)
(***************************************************************************)
Nth(d, i) == IF i \in DOMAIN d THEN d[i] ELSE <<>>
Flat(d) == Nth(d, 1) \o Nth(d, 2) \o Nth(d, 3)

LEMMA UnderWayIs ==
  UnderWay = (IF done THEN <<tkb>> ELSE <<>>) \o ring \o sending \o Flat(due)
BY DEF UnderWay, Flat, Nth, Answer

LEMMA NthTyped ==
  ASSUME NEW d \in Seq(Seq(Byte)), NEW i \in Nat
  PROVE  Nth(d, i) \in Seq(Byte)
<1>1. CASE i \in DOMAIN d
  <2>1. i \in 1 .. Len(d)
    BY <1>1
  <2> QED
    BY <1>1, <2>1, ElementOfSeq DEF Nth
<1>2. CASE i \notin DOMAIN d
  <2>1. <<>> \in Seq(Byte)
    OBVIOUS
  <2> QED
    BY <1>2, <2>1 DEF Nth
<1> QED
  BY <1>1, <1>2

LEMMA FlatOf ==
  ASSUME NEW d \in Seq(Seq(Byte)), NEW c
  PROVE  /\ Flat(d) \in Seq(Byte)
         /\ Of(c, Flat(d)) = Of(c, Nth(d, 1)) \o Of(c, Nth(d, 2))
                               \o Of(c, Nth(d, 3))
         /\ Of(c, Nth(d, 1)) \in Seq(Nat) /\ Of(c, Nth(d, 2)) \in Seq(Nat)
         /\ Of(c, Nth(d, 3)) \in Seq(Nat)
<1> DEFINE a1 == Nth(d, 1)
           a2 == Nth(d, 2)
           a3 == Nth(d, 3)
<1>1. a1 \in Seq(Byte) /\ a2 \in Seq(Byte) /\ a3 \in Seq(Byte)
  BY NthTyped
<1>2. Flat(d) = (a1 \o a2) \o a3
  BY DEF Flat
<1> HIDE DEF a1, a2, a3
<1>3. a1 \o a2 \in Seq(Byte)
  BY <1>1, ConcatProperties
<1>4. (a1 \o a2) \o a3 \in Seq(Byte)
  BY <1>1, <1>3, ConcatProperties
<1>5. /\ Of(c, a1 \o a2) = Of(c, a1) \o Of(c, a2)
      /\ Of(c, (a1 \o a2) \o a3) = Of(c, a1 \o a2) \o Of(c, a3)
  BY <1>1, <1>3, OfConcat
<1>6. /\ Of(c, a1) \in Seq(Nat) /\ Of(c, a2) \in Seq(Nat)
      /\ Of(c, a3) \in Seq(Nat)
  BY <1>1, OfSeq
<1> QED
  BY <1>2, <1>4, <1>5, <1>6 DEF a1, a2, a3

(* Answers that say nothing of the file.                                   *)
LEMMA FlatZero ==
  ASSUME NEW c, NEW d \in Seq(Seq(Byte)),
         \A i \in DOMAIN d : BytesOf(Of(c, d[i])) \subseteq {0}
  PROVE  BytesOf(Of(c, Flat(d))) \subseteq {0} /\ Ascending(Of(c, Flat(d)))
<1> DEFINE z(i) == Of(c, Nth(d, i))
<1>1. \A i \in Nat : BytesOf(z(i)) \subseteq {0}
  <2> TAKE i \in Nat
  <2>1. CASE i \in DOMAIN d
    BY <2>1 DEF Nth
  <2>2. CASE i \notin DOMAIN d
    BY <2>2, OfEmpty, EmptyStory DEF Nth
  <2> QED
    BY <2>1, <2>2
<1>2. /\ Of(c, Flat(d)) = z(1) \o z(2) \o z(3)
      /\ z(1) \in Seq(Nat) /\ z(2) \in Seq(Nat) /\ z(3) \in Seq(Nat)
  BY FlatOf
<1>3. 1 \in Nat /\ 2 \in Nat /\ 3 \in Nat
  OBVIOUS
<1> HIDE DEF z
<1>4. /\ BytesOf(z(1)) \subseteq {0} /\ BytesOf(z(2)) \subseteq {0}
      /\ BytesOf(z(3)) \subseteq {0}
  BY <1>1, <1>3
<1>5. /\ BytesOf(z(1) \o z(2) \o z(3))
           = BytesOf(z(1)) \cup BytesOf(z(2)) \cup BytesOf(z(3))
      /\ z(1) \o z(2) \o z(3) \in Seq(Nat)
  BY <1>2, Concat3
<1> QED
  BY <1>2, <1>4, <1>5, ZeroStory

LEMMA OtherConnection ==
  ASSUME NEW c, NEW w \in Seq(Byte), \A i \in DOMAIN w : w[i].conn # c
  PROVE  BytesOf(Of(c, w)) \subseteq {0}
BY DEF BytesOf, Of

(* What an operation queues, with what it did to the stream.               *)
Queued(s, t, d) ==
  /\ d \in Seq(Seq(Byte)) /\ Len(d) <= 3
  /\ \A i \in DOMAIN d : Whole(d[i])
  /\ \A i \in DOMAIN d : \A j \in DOMAIN d[i] : d[i][j].conn = stream.conn
  /\ Ascending(Of(stream.conn, Flat(d)))
  /\ Said(s, t, Of(stream.conn, Flat(d)))

LEMMA SaidMore ==
  ASSUME NEW s, NEW t, NEW v, NEW u, Said(s, t, v),
         BytesOf(u) \subseteq BytesOf(v) \cup {0}, BytesOf(v) \subseteq BytesOf(u)
  PROVE  Said(s, t, u)
<1>1. ASSUME NEW b \in Seq(1 .. Size + 1),
             b \o Available(t) = Available(s),
             BytesOf(v) \subseteq BytesOf(b) \cup {0},
             Owed(BytesOf(b)) \subseteq BytesOf(v)
      PROVE  Said(s, t, u)
  <2>1. /\ BytesOf(u) \subseteq BytesOf(b) \cup {0}
        /\ Owed(BytesOf(b)) \subseteq BytesOf(u)
    BY <1>1
  <2> QED
    BY <1>1, <2>1 DEF Said
<1>2. ASSUME Available(s) = <<>>, Available(t) = <<>>, ~t.open,
             BytesOf(v) \subseteq {0, EofLine}
      PROVE  Said(s, t, u)
  <2>1. BytesOf(u) \subseteq {0, EofLine}
    BY <1>2
  <2> QED
    BY <1>2, <2>1 DEF Said
<1> QED
  BY <1>1, <1>2 DEF Said

LEMMA QueuedTells ==
  ASSUME stream \in Stream, NEW s, NEW t, NEW w, Tells(s, t, w),
         NEW a \in Seq(Seq(Byte)), Len(a) \in 0 .. 2,
         \A i \in DOMAIN a : Silent(a[i])
  PROVE  Queued(s, t, a \o <<w>>)
<1> DEFINE d == a \o <<w>>
           c == stream.conn
           z(i) == Of(c, Nth(d, i))
           n == Len(a)
<1>1. /\ w \in Seq(Byte) /\ Whole(w) /\ Ascending(Of(c, w))
      /\ \A i \in DOMAIN w : w[i].conn = c
      /\ Said(s, t, Of(c, w))
  BY DEF Tells
<1>2. /\ d \in Seq(Seq(Byte)) /\ Len(d) = n + 1 /\ DOMAIN d = 1 .. n + 1
      /\ DOMAIN a = 1 .. n
      /\ \A i \in 1 .. n : d[i] = a[i]
      /\ d[n + 1] = w
  <2>1. <<w>> \in Seq(Seq(Byte)) /\ Len(<<w>>) = 1 /\ <<w>>[1] = w
    BY <1>1
  <2>2. /\ d \in Seq(Seq(Byte)) /\ Len(d) = n + 1
        /\ \A i \in 1 .. n + 1 :
             d[i] = IF i <= n THEN a[i] ELSE <<w>>[i - n]
    BY <2>1, ConcatProperties
  <2>3. DOMAIN d = 1 .. n + 1 /\ DOMAIN a = 1 .. n
    BY <2>2
  <2>4. n \in Nat
    OBVIOUS
  <2> HIDE DEF d, n
  <2>5. n + 1 \in 1 .. n + 1 /\ ~ (n + 1 <= n) /\ (n + 1) - n = 1
    BY <2>4
  <2>6. \A i \in 1 .. n : i \in 1 .. n + 1 /\ i <= n
    BY <2>4
  <2> QED
    BY <2>1, <2>2, <2>3, <2>5, <2>6
<1>3. n \in 0 .. 2
  OBVIOUS
<1>4. \A i \in DOMAIN a : /\ Whole(a[i]) /\ BytesOf(Of(c, a[i])) \subseteq {0}
                          /\ \A j \in DOMAIN a[i] : a[i][j].conn = c
  BY DEF Silent
<1>5. /\ Of(c, Flat(d)) = z(1) \o z(2) \o z(3)
      /\ z(1) \in Seq(Nat) /\ z(2) \in Seq(Nat) /\ z(3) \in Seq(Nat)
  BY <1>2, FlatOf
<1> HIDE DEF d, n
<1>6. \A i \in 1 .. n : BytesOf(z(i)) \subseteq {0}
  <2> TAKE i \in 1 .. n
  <2>1. i \in 1 .. n + 1
    BY <1>3
  <2>2. Nth(d, i) = a[i]
    BY <1>2, <2>1 DEF Nth
  <2> QED
    BY <1>2, <1>4, <2>2
<1>7. z(n + 1) = Of(c, w)
  <2>1. n + 1 \in 1 .. n + 1
    BY <1>3
  <2> QED
    BY <1>2, <2>1 DEF Nth
<1>8. \A i \in 1 .. 3 : i > n + 1 => z(i) = <<>>
  <2>1. \A i \in 1 .. 3 : i > n + 1 => i \notin 1 .. n + 1
    BY <1>3
  <2> QED
    BY <1>2, <2>1, OfEmpty DEF Nth
<1> HIDE DEF z
<1>9. \A i \in 1 .. 3 : i = n + 1 \/ BytesOf(z(i)) \subseteq {0}
  <2> TAKE i \in 1 .. 3
  <2>1. i \in 1 .. n \/ i = n + 1 \/ i > n + 1
    BY <1>3
  <2> QED
    BY <1>6, <1>8, <2>1, EmptyStory
<1>10. /\ BytesOf(z(1) \o z(2) \o z(3))
            = BytesOf(z(1)) \cup BytesOf(z(2)) \cup BytesOf(z(3))
       /\ Ascending(z(1) \o z(2) \o z(3))
            <=> /\ Ascending(z(1)) /\ Ascending(z(2)) /\ Ascending(z(3))
                /\ Before(BytesOf(z(1)), BytesOf(z(2)))
                /\ Before(BytesOf(z(1)), BytesOf(z(3)))
                /\ Before(BytesOf(z(2)), BytesOf(z(3)))
  BY <1>5, Concat3
<1>11. n + 1 \in {1, 2, 3}
  BY <1>3
<1>12. /\ BytesOf(z(1) \o z(2) \o z(3)) \subseteq BytesOf(Of(c, w)) \cup {0}
       /\ BytesOf(Of(c, w)) \subseteq BytesOf(z(1) \o z(2) \o z(3))
  <2>1. \A i \in {1, 2, 3} : BytesOf(z(i)) \subseteq BytesOf(Of(c, w)) \cup {0}
    <3> TAKE i \in {1, 2, 3}
    <3>1. i \in 1 .. 3
      OBVIOUS
    <3> QED
      BY <1>7, <1>9, <3>1
  <2>2. \E i \in {1, 2, 3} : BytesOf(Of(c, w)) = BytesOf(z(i))
    BY <1>7, <1>11
  <2> QED
    BY <1>10, <2>1, <2>2
<1>13. \A i \in {1, 2, 3} : Ascending(z(i))
  <2> TAKE i \in {1, 2, 3}
  <2>1. i \in 1 .. 3
    OBVIOUS
  <2> QED
    BY <1>1, <1>5, <1>7, <1>9, <2>1, ZeroStory
<1>14. \A i \in {1, 2, 3}, j \in {1, 2, 3} :
         i # j => Before(BytesOf(z(i)), BytesOf(z(j)))
  <2> TAKE i \in {1, 2, 3}, j \in {1, 2, 3}
  <2>1. i \in 1 .. 3 /\ j \in 1 .. 3
    OBVIOUS
  <2>2. i # j => BytesOf(z(i)) \subseteq {0} \/ BytesOf(z(j)) \subseteq {0}
    BY <1>9, <2>1
  <2> QED
    BY <2>2 DEF Before
<1>15. Ascending(z(1) \o z(2) \o z(3))
  BY <1>10, <1>13, <1>14
<1>16. Said(s, t, Of(c, Flat(d)))
  BY <1>1, <1>5, <1>12, SaidMore
<1>17. \A i \in DOMAIN d : /\ Whole(d[i])
                           /\ \A j \in DOMAIN d[i] : d[i][j].conn = c
  <2> TAKE i \in DOMAIN d
  <2>1. i \in 1 .. n \/ i = n + 1
    BY <1>2, <1>3
  <2> QED
    BY <1>1, <1>2, <1>4, <2>1
<1>18. Len(d) <= 3
  BY <1>2, <1>3
<1> QED
  BY <1>2, <1>5, <1>15, <1>16, <1>17, <1>18 DEF Queued, d

Quiet(d) ==
  d \in Seq(Seq(Byte)) /\ Len(d) <= 3 /\ \A i \in DOMAIN d : Silent(d[i])

LEMMA QuietQueued ==
  ASSUME stream \in Stream, NEW s, Shape(s), NEW d, Quiet(d)
  PROVE  Queued(s, s, d)
<1> DEFINE c == stream.conn
           v == Of(c, Flat(d))
<1>1. /\ d \in Seq(Seq(Byte)) /\ Len(d) <= 3
      /\ \A i \in DOMAIN d :
           /\ Whole(d[i]) /\ BytesOf(Of(c, d[i])) \subseteq {0}
           /\ \A j \in DOMAIN d[i] : d[i][j].conn = c
  BY DEF Quiet, Silent
<1>2. BytesOf(v) \subseteq {0} /\ Ascending(v)
  BY <1>1, FlatZero
<1>3. <<>> \in Seq(1 .. Size + 1) /\ <<>> \o Available(s) = Available(s)
  <2>1. Available(s) \in Seq(Nat)
    BY AvailableAscends
  <2> QED
    BY <2>1, ConcatEmptySeq
<1> HIDE DEF v
<1>4. Said(s, s, v)
  BY <1>2, <1>3, EmptyStory DEF Said, Owed
<1> QED
  BY <1>1, <1>2, <1>4 DEF Queued, v

(* A command reads on in the stream, opens the next one or closes it.      *)
Replies(e) == e.answers \in {<<Frame>>, <<>>}
Answers(s, e) ==
  \E a \in Seq(Seq(Byte)) : \E w :
    /\ e.answers = a \o <<w>> /\ Len(a) \in 0 .. 1
    /\ \A i \in DOMAIN a : Silent(a[i])
    /\ Tells(s, e.stream, w)
Reads(s, e) ==
  GoesOn(s, e.stream) /\ (Answers(s, e) \/ (e.stream = s /\ Replies(e)))
Opens(s, e) ==
  /\ Replies(e)
  /\ \E mark, notify \in BOOLEAN :
       e.stream = Opened(s.conn + 1, mark, notify)
Closes(s, e) ==
  Replies(e) /\ e.stream = Disconnected(s.conn)

LEMMA RepliesOnly ==
  ASSUME NEW s, Shape(s), NEW c, NEW e,
         e = [stream |-> s, answers |-> Reply(c)]
  PROVE  Reads(s, e)
BY DEF Reads, GoesOn, Replies, Reply

LEMMA ReadsAnswer ==
  ASSUME stream \in Stream, NEW s, Shape(s), NEW t, Takes(s, t),
         NEW line,
         line = t.bytes \/ (line = Text(t.bytes) /\ EndsLine(t.bytes)),
         NEW e, e = [stream |-> t.stream, answers |-> ReadAnswer(t, line)]
  PROVE  Reads(s, e)
<1>1. /\ GoesOn(s, t.stream) /\ t.event \in BOOLEAN
      /\ \E w : /\ ReadAnswer(t, line) = Events(t.event) \o <<w>>
                /\ Tells(s, t.stream, w)
  BY ReadAnswerOf
<1>2. /\ Events(t.event) \in Seq(Seq(Byte))
      /\ Len(Events(t.event)) \in 0 .. 1
      /\ \A i \in DOMAIN Events(t.event) : Silent(Events(t.event)[i])
  BY <1>1, EventsSilent
<1> QED
  BY <1>1, <1>2 DEF Reads, Answers

LEMMA ExecutedOf ==
  ASSUME stream \in Stream, NEW s, Shape(s), NEW c \in Command,
         NEW e \in Executed(c, s)
  PROVE  Reads(s, e) \/ Opens(s, e) \/ Closes(s, e)
<1>1. s \in Stream
  BY DEF Shape
<1>2. CASE c.do = "open"
  <2>1. c.mark \in BOOLEAN /\ c.notify \in BOOLEAN
    BY <1>2 DEF Command
  <2>2. \/ e = [stream |-> Opened(s.conn + 1, c.mark, c.notify),
               answers |-> Reply(c)]
        \/ e = [stream |-> s, answers |-> Reply(c)]
    BY <1>2 DEF Executed
  <2> QED
    BY <2>1, <2>2, RepliesOnly DEF Opens, Replies, Reply
<1>3. CASE c.do = "close"
  <2>1. e = [stream |-> Disconnected(s.conn), answers |-> Reply(c)]
    BY <1>3 DEF Executed
  <2> QED
    BY <2>1 DEF Closes, Replies, Reply
<1>4. CASE c.do = "hex"
  <2> DEFINE t == TakeHex(s, c.max)
  <2>1. c.max \in Nat \ {0}
    BY <1>4, ControlAssumption DEF Command
  <2>2. Takes(s, t)
    BY <1>1, <2>1, TakeHexTakes
  <2>3. e = [stream |-> t.stream, answers |-> ReadAnswer(t, t.bytes)]
    BY <1>4 DEF Executed
  <2> HIDE DEF t
  <2> QED
    BY <2>2, <2>3, ReadsAnswer
<1>5. CASE c.do = "ascii"
  <2> DEFINE t == TakeLine(s)
  <2>1. Takes(s, t) /\ EndsLine(t.bytes)
    BY <1>1, TakeLineTakes
  <2>2. e = [stream |-> t.stream, answers |-> ReadAnswer(t, Text(t.bytes))]
    BY <1>5 DEF Executed
  <2> HIDE DEF t
  <2> QED
    BY <2>1, <2>2, ReadsAnswer
<1>6. CASE c.do \in {"ask", "reboot"}
  <2>1. e = [stream |-> s, answers |-> Reply(c)]
    BY <1>6 DEF Executed
  <2> QED
    BY <2>1, RepliesOnly
<1>7. c.do \in {"open", "close", "hex", "ascii", "ask", "reboot"}
  BY DEF Command
<1> QED
  BY <1>2, <1>3, <1>4, <1>5, <1>6, <1>7

(* The main loop polls the stream, then executes a command.                *)
LEMMA PolledOf ==
  ASSUME stream \in Stream, NEW s, Shape(s), NEW event \in BOOLEAN,
         NEW c \in Command, NEW e \in Executed(c, s)
  PROVE  \/ /\ GoesOn(s, e.stream)
            /\ Queued(s, e.stream, Events(event) \o e.answers)
         \/ Opens(s, e) /\ Quiet(Events(event) \o e.answers)
         \/ Closes(s, e) /\ Quiet(Events(event) \o e.answers)
<1> DEFINE v == Events(event)
<1>1. /\ v \in Seq(Seq(Byte)) /\ Len(v) \in 0 .. 1
      /\ \A i \in DOMAIN v : Silent(v[i])
  BY EventsSilent
<1> HIDE DEF v
<1>a. ASSUME NEW a \in Seq(Seq(Byte)), Len(a) \in 0 .. 1,
             \A i \in DOMAIN a : Silent(a[i])
      PROVE  /\ v \o a \in Seq(Seq(Byte)) /\ Len(v \o a) \in 0 .. 2
             /\ \A i \in DOMAIN (v \o a) : Silent((v \o a)[i])
  <2> DEFINE u == v \o a
  <2>1. /\ u \in Seq(Seq(Byte)) /\ Len(u) = Len(v) + Len(a)
        /\ \A i \in 1 .. Len(v) + Len(a) :
             u[i] = IF i <= Len(v) THEN v[i] ELSE a[i - Len(v)]
    BY <1>1, ConcatProperties
  <2>2. /\ DOMAIN u = 1 .. Len(v) + Len(a) /\ DOMAIN v = 1 .. Len(v)
        /\ DOMAIN a = 1 .. Len(a) /\ Len(v) \in Nat /\ Len(a) \in Nat
    BY <1>1, <2>1
  <2> HIDE DEF u
  <2>3. \A i \in DOMAIN u : Silent(u[i])
    <3> TAKE i \in DOMAIN u
    <3>0. i \in 1 .. Len(v) + Len(a)
      BY <2>2
    <3>1. CASE i <= Len(v)
      <4>1. i \in DOMAIN v /\ u[i] = v[i]
        BY <2>1, <2>2, <3>0, <3>1
      <4> QED
        BY <1>1, <4>1
    <3>2. CASE i > Len(v)
      <4>1. i - Len(v) \in 1 .. Len(a)
        BY <2>2, <3>0, <3>2, Beyond
      <4>2. u[i] = a[i - Len(v)]
        BY <2>1, <2>2, <3>0, <3>2
      <4> QED
        BY <1>a, <2>2, <4>1, <4>2
    <3> QED
      BY <2>2, <3>0, <3>1, <3>2
  <2>4. Len(v) + Len(a) \in 0 .. 2
    <3>1. \A x, y \in 0 .. 1 : x + y \in 0 .. 2
      OBVIOUS
    <3> QED
      BY <1>1, <1>a, <3>1
  <2> QED
    BY <2>1, <2>3, <2>4 DEF u
<1>2. CASE GoesOn(s, e.stream) /\ Answers(s, e)
  <2>1. PICK a \in Seq(Seq(Byte)) : \E w :
          /\ e.answers = a \o <<w>> /\ Len(a) \in 0 .. 1
          /\ \A i \in DOMAIN a : Silent(a[i])
          /\ Tells(s, e.stream, w)
    BY <1>2 DEF Answers
  <2>0. PICK w : e.answers = a \o <<w>> /\ Tells(s, e.stream, w)
    BY <2>1
  <2>2. /\ v \o a \in Seq(Seq(Byte)) /\ Len(v \o a) \in 0 .. 2
        /\ \A i \in DOMAIN (v \o a) : Silent((v \o a)[i])
    BY <1>a, <2>1
  <2>3. Queued(s, e.stream, (v \o a) \o <<w>>)
    BY <2>0, <2>2, QueuedTells
  <2>4. (v \o a) \o <<w>> = v \o (a \o <<w>>)
    <3>1. <<w>> \in Seq(Seq(Byte))
      BY <2>0 DEF Tells
    <3>2. \A x, y, z \in Seq(Seq(Byte)) : (x \o y) \o z = x \o (y \o z)
      BY ConcatAssociative
    <3> QED
      BY <1>1, <3>1, <3>2
  <2> QED
    BY <1>2, <2>0, <2>3, <2>4 DEF v
<1>3. ASSUME Replies(e)
      PROVE  Quiet(v \o e.answers)
  <2>0. /\ <<>> \in Seq(Seq(Byte)) /\ Len(<<>>) \in 0 .. 1
        /\ \A i \in DOMAIN <<>> : Silent(<<>>[i])
    OBVIOUS
  <2>1. /\ <<Frame>> \in Seq(Seq(Byte)) /\ Len(<<Frame>>) \in 0 .. 1
        /\ \A i \in DOMAIN <<Frame>> : Silent(<<Frame>>[i])
    BY FrameSilent DEF Silent
  <2> DEFINE u == v \o e.answers
  <2>2. u \in Seq(Seq(Byte)) /\ Len(u) \in 0 .. 2
        /\ \A i \in DOMAIN u : Silent(u[i])
    <3>1. CASE e.answers = <<Frame>>
      BY <1>a, <2>1, <3>1
    <3>2. CASE e.answers = <<>>
      BY <1>a, <2>0, <3>2
    <3> QED
      BY <1>3, <3>1, <3>2 DEF Replies
  <2> HIDE DEF u
  <2>3. Quiet(u)
    BY <2>2 DEF Quiet
  <2> QED
    BY <2>3 DEF u
<1>4. CASE GoesOn(s, e.stream) /\ e.stream = s /\ Replies(e)
  <2>1. Queued(s, s, v \o e.answers)
    BY <1>3, <1>4, QuietQueued
  <2> QED
    BY <1>4, <2>1 DEF v
<1> QED
  BY <1>2, <1>3, <1>4, ExecutedOf DEF Reads, Opens, Closes, v

LEMMA OpenedShape ==
  ASSUME NEW n \in Nat, NEW mark \in BOOLEAN, NEW notify \in BOOLEAN
  PROVE  LET s == Opened(n, mark, notify)
         IN  Shape(s) /\ s.conn = n /\ s.open /\ Available(s) = Run(0, Size)
<1> DEFINE s == Opened(n, mark, notify)
<1>1. 0 \in 0 .. Size /\ <<>> \in Seq(1 .. Size + 1) /\ Len(<<>>) = 0
      /\ 0 <= Ahead /\ Size - 0 = Size /\ 0 + Size = Size /\ Size \in Nat
  BY ControlAssumption
<1>3. s \in Stream /\ s.fifo = <<>> /\ s.open = TRUE /\ s.eof = FALSE
      /\ s.pos = 0 /\ s.conn = n
  <2> DEFINE d == Disconnected(n)
  <2>1. d \in Stream /\ d.fifo = <<>> /\ d.eof = FALSE /\ d.pos = 0
        /\ d.conn = n
    BY <1>1 DEF Stream, Disconnected
  <2>2. s = [d EXCEPT !.open = TRUE, !.mark = mark, !.notify = notify]
    BY DEF Opened
  <2> HIDE DEF d
  <2> QED
    BY <2>1, <2>2 DEF Stream
<1> HIDE DEF s
<1>5. Available(s) = <<>> \o Run(0, Size)
  BY <1>1, <1>3, AvailableIs
<1>6. Run(0, Size) \in Seq(Nat)
  BY RunStory, ControlAssumption
<1>7. Available(s) = Run(0, Size)
  BY <1>5, <1>6, ConcatEmptySeq
<1>8. RunTo(Run(0, Size), Size)
  BY <1>1, RunToRun
<1>4. Shape(s)
  BY <1>1, <1>3, <1>7, <1>8, RunToEmpty, EmptyStory DEF Shape
<1> QED
  BY <1>3, <1>4, <1>7 DEF s

LEMMA DisconnectedShape ==
  ASSUME NEW n \in Nat
  PROVE  /\ Shape(Disconnected(n)) /\ Disconnected(n).conn = n
         /\ ~Connected(Disconnected(n)) /\ Available(Disconnected(n)) = <<>>
<1> DEFINE s == Disconnected(n)
<1>1. 0 \in 0 .. Size /\ <<>> \in Seq(1 .. Size + 1) /\ Len(<<>>) = 0
      /\ 0 <= Ahead
  BY ControlAssumption
<1>2. s \in Stream /\ s.fifo = <<>> /\ s.open = FALSE /\ s.eof = FALSE
      /\ s.conn = n
  BY <1>1 DEF Stream, Disconnected
<1> HIDE DEF s
<1>4. Available(s) = <<>> \o <<>>
  BY <1>2, AvailableIs
<1>5. <<>> \o <<>> = <<>>
  BY <1>1, ConcatEmptySeq
<1>3. Shape(s)
  BY <1>1, <1>2, <1>4, <1>5, RunToEmpty, EmptyStory DEF Shape
<1> QED
  BY <1>2, <1>3, <1>4, <1>5 DEF Connected, s

Polled(s, t) ==
  /\ GoesOn(s, t)
  /\ \/ Available(t) = Available(s)
     \/ /\ s.open /\ ~t.open
        /\ Available(t) = Available(s) \o <<EofByte>>

LEMMA PollStreamOf ==
  ASSUME Shape(stream), PollStream
  PROVE  Polled(stream, stream') /\ Quiet(due')
<1> DEFINE h == HostPolled(stream)
<1>1. stream' = h.stream /\ due' = Events(h.event)
  BY DEF PollStream
<1>2. Polled(stream, h.stream) /\ h.event \in BOOLEAN
  BY HostPolledOf DEF Polled, GoesOn
<1>3. Quiet(Events(h.event))
  BY <1>2, EventsSilent DEF Quiet, Shape
<1> QED
  BY <1>1, <1>2, <1>3

LEMMA PollCommandOf ==
  ASSUME Shape(stream), commands \in Seq(Command), PollCommand
  PROVE  \E s : /\ Polled(stream, s)
                /\ \/ GoesOn(s, stream') /\ Queued(s, stream', due')
                   \/ /\ Quiet(due')
                      /\ \E mark, notify \in BOOLEAN :
                           stream' = Opened(stream.conn + 1, mark, notify)
                   \/ Quiet(due') /\ stream' = Disconnected(stream.conn)
<1> DEFINE h == HostPolled(stream)
           c == Head(commands)
<1>1. PICK e \in Executed(c, h.stream) :
        stream' = e.stream /\ due' = Events(h.event) \o e.answers
  BY DEF PollCommand
<1>2. Polled(stream, h.stream) /\ h.event \in BOOLEAN
  BY HostPolledOf DEF Polled, GoesOn
<1>3. c \in Command
  BY HeadTailProperties DEF PollCommand
<1>4. stream \in Stream /\ Shape(h.stream) /\ h.stream.conn = stream.conn
  BY <1>2 DEF Shape, Polled, GoesOn
<1> DEFINE s == h.stream
<1> HIDE DEF s, c
<1>5. \/ /\ GoesOn(s, e.stream)
         /\ Queued(s, e.stream, Events(h.event) \o e.answers)
      \/ Opens(s, e) /\ Quiet(Events(h.event) \o e.answers)
      \/ Closes(s, e) /\ Quiet(Events(h.event) \o e.answers)
  BY <1>1, <1>2, <1>3, <1>4, PolledOf DEF s
<1>6. \/ GoesOn(s, stream') /\ Queued(s, stream', due')
      \/ Opens(s, e) /\ Quiet(due')
      \/ Closes(s, e) /\ Quiet(due')
  BY <1>1, <1>5
<1> QED
  BY <1>1, <1>2, <1>4, <1>6 DEF s, Opens, Closes

-----------------------------------------------------------------------------
(***************************************************************************)
(* Types.                                                                  *)
(***************************************************************************)
TypeCommands == commands \in Seq(Command) /\ Len(commands) < Depth
TypeAnswers ==
  /\ sending \in Seq(Byte) /\ ring \in Seq(Byte)
  /\ Len(ring) + Len(sending) <= Capacity
  /\ tkb \in Byte
TypeDue == due \in Seq(Seq(Byte)) /\ Len(due) <= 3
TypeInputs ==
  /\ done \in BOOLEAN /\ keys \in 0 .. typed
  /\ sent \in 0 .. MaxCommands /\ typed \in 0 .. MaxKeys
  /\ boots \in 0 .. MaxBoots
TypeControl ==
  /\ enabled \in BOOLEAN
  /\ loader \in [Task -> {"idle", "pop", "answer", "keys"}]
  /\ boot \in {"up", "wanted", "clear", "reset"}
  /\ mid \in BOOLEAN /\ lost \in BOOLEAN /\ raced \in BOOLEAN
TypeHeard == heard \in Seq(1 .. Size + 2)

Types ==
  /\ TypeCommands /\ Shape(stream) /\ TypeDue /\ TypeAnswers
  /\ TypeInputs /\ TypeControl /\ TypeHeard

LEMMA TypesOK == Types => TypeOK
BY DEF Types, TypeCommands, Shape, TypeDue, TypeAnswers, TypeInputs,
       TypeControl, TypeHeard, TypeOK

(* Nothing is popped from an empty ring. *)
Popping == \A t \in Task : loader[t] = "answer" => ring # <<>>

(* The steps of either task's load. *)
Tests == \E t \in Task : Test(t)
Pops == \E t \in Task : Pop(t)
Loads == \E t \in Task : Load(t)
LoadsNothing == \E t \in Task : LoadNothing(t)

LEMMA StepActions ==
  ASSUME [Next]_vars
  PROVE  \/ UNCHANGED vars
         \/ (\E c \in Command : Submit(c))
         \/ PollStream \/ PollCommand \/ QueueAnswer \/ Push
         \/ ReadTKB \/ ClearDone \/ Tests \/ Pops \/ Loads \/ LoadsNothing
         \/ Type \/ BeginBoot \/ ClearAnswers \/ ResetMachine
BY ControlAssumption DEF Next, Tests, Pops, Loads, LoadsNothing

LEMMA TypeCommandsStep ==
  ASSUME Types, [Next]_vars
  PROVE  TypeCommands'
<1> USE DEF TypeCommands
<1>1. TypeCommands
  BY DEF Types
<1>2. ASSUME NEW c \in Command, Submit(c) PROVE TypeCommands'
  <2>1. Len(commands) \in Nat /\ Depth \in Nat
    BY <1>1, ControlAssumption
  <2> QED
    BY <1>1, <1>2, <2>1 DEF Submit
<1>3. CASE PollCommand
  <2>1. commands # <<>> /\ commands' = Tail(commands)
    BY <1>3 DEF PollCommand
  <2>2. Len(commands) \in Nat /\ Depth \in Nat
    BY <1>1, ControlAssumption
  <2> QED
    BY <1>1, <2>1, <2>2, HeadTailProperties
<1>4. CASE BeginBoot
  <2>1. commands' = <<>> /\ 0 < Depth
    BY <1>4, ControlAssumption DEF BeginBoot
  <2> QED
    BY <2>1
<1>6. CASE \/ PollStream \/ QueueAnswer \/ Push \/ ReadTKB \/ ClearDone
           \/ Tests \/ Pops \/ Loads \/ LoadsNothing \/ Type \/ ClearAnswers
           \/ ResetMachine \/ UNCHANGED vars
  BY <1>1, <1>6
     DEF PollStream, QueueAnswer, Push, ReadTKB, ClearDone, Tests, Test, Pops,
         Pop, Loads, Load, LoadsNothing, LoadNothing, Type, ClearAnswers,
         ResetMachine, vars
<1> QED
  BY <1>2, <1>3, <1>4, <1>6, StepActions

LEMMA ShapeStep ==
  ASSUME Types, [Next]_vars
  PROVE  Shape(stream)'
<1>1. Shape(stream) /\ commands \in Seq(Command) /\ stream.conn \in Nat
  BY DEF Types, TypeCommands, Shape, Stream
<1>2. CASE PollStream
  BY <1>1, <1>2, PollStreamOf DEF Polled, GoesOn
<1>3. CASE PollCommand
  BY <1>1, <1>3, PollCommandOf, OpenedShape, DisconnectedShape DEF GoesOn
<1>4. CASE BeginBoot
  BY <1>1, <1>4, DisconnectedShape DEF BeginBoot
<1>6. CASE \/ QueueAnswer \/ Push \/ ReadTKB \/ ClearDone \/ Tests \/ Pops
           \/ Loads \/ LoadsNothing \/ Type \/ ClearAnswers \/ ResetMachine
           \/ UNCHANGED vars \/ (\E c \in Command : Submit(c))
  BY <1>1, <1>6
     DEF QueueAnswer, Push, ReadTKB, ClearDone, Tests, Test, Pops, Pop,
         Submit, Loads, Load, LoadsNothing, LoadNothing, Type, ClearAnswers,
         ResetMachine, vars
<1> QED
  BY <1>2, <1>3, <1>4, <1>6, StepActions

LEMMA TypeDueStep ==
  ASSUME Types, [Next]_vars
  PROVE  TypeDue'
<1> USE DEF TypeDue
<1>1. /\ Shape(stream) /\ commands \in Seq(Command) /\ TypeDue
  BY DEF Types, TypeCommands
<1>2. CASE PollStream
  BY <1>1, <1>2, PollStreamOf DEF Quiet
<1>3. CASE PollCommand
  BY <1>1, <1>3, PollCommandOf DEF Quiet, Queued
<1>4. CASE QueueAnswer
  <2>1. due # <<>> /\ due' = Tail(due)
    BY <1>4 DEF QueueAnswer
  <2>2. due' \in Seq(Seq(Byte)) /\ Len(due') = Len(due) - 1
    BY <1>1, <2>1, HeadTailProperties
  <2>3. Len(due) \in Nat
    BY <1>1
  <2> QED
    BY <1>1, <2>2, <2>3
<1>5. CASE UNCHANGED due
  BY <1>1, <1>5
<1>6. CASE \/ (\E c \in Command : Submit(c)) \/ Push \/ ReadTKB \/ ClearDone
           \/ Tests \/ Pops \/ Loads \/ LoadsNothing \/ Type \/ BeginBoot
           \/ ClearAnswers \/ ResetMachine \/ UNCHANGED vars
  <2>1. UNCHANGED due
    BY <1>6
       DEF Submit, Push, ReadTKB, ClearDone, Tests, Test, Pops, Pop, Loads,
           Load, LoadsNothing, LoadNothing, Type, BeginBoot, ClearAnswers,
           ResetMachine, vars
  <2> QED
    BY <1>5, <2>1
<1> QED
  BY <1>2, <1>3, <1>4, <1>6, StepActions

(* A load takes the first byte of the ring. *)
LEMMA LoadTypes ==
  ASSUME TypeAnswers, LoadAnswer, ring # <<>>
  PROVE  /\ tkb' \in Byte /\ ring' \in Seq(Byte)
         /\ Len(ring') = Len(ring) - 1
BY HeadTailProperties DEF TypeAnswers, LoadAnswer

LEMMA TypeAnswersStep ==
  ASSUME Types, Popping, [Next]_vars
  PROVE  TypeAnswers'
<1>1. /\ sending \in Seq(Byte) /\ ring \in Seq(Byte) /\ tkb \in Byte
      /\ Len(ring) + Len(sending) <= Capacity
      /\ due \in Seq(Seq(Byte)) /\ TypeAnswers
  BY DEF Types, TypeAnswers, TypeDue
<1>2. Len(ring) \in Nat /\ Len(sending) \in Nat /\ Capacity \in Nat
  BY <1>1, ControlAssumption
<1>3. CASE QueueAnswer
  <2>1. due # <<>> /\ sending = <<>> /\ UNCHANGED <<ring, tkb>>
    BY <1>3 DEF QueueAnswer, receiverVars
  <2>2. Head(due) \in Seq(Byte)
    BY <1>1, <2>1, HeadTailProperties
  <2>3. CASE Len(Head(due)) <= Capacity - Len(ring)
    <3>1. sending' = Head(due)
      BY <1>3, <2>3 DEF QueueAnswer
    <3>2. Len(Head(due)) \in Nat
      BY <2>2
    <3>3. Len(ring) + Len(Head(due)) <= Capacity
      BY <1>2, <2>3, <3>2
    <3> QED
      BY <1>1, <2>1, <2>2, <3>1, <3>3 DEF TypeAnswers
  <2>4. CASE ~ (Len(Head(due)) <= Capacity - Len(ring))
    <3>1. sending' = sending
      BY <1>3, <2>4 DEF QueueAnswer
    <3> QED
      BY <1>1, <2>1, <3>1 DEF TypeAnswers
  <2> QED
    BY <2>3, <2>4
<1>4. CASE Push
  <2>1. /\ sending # <<>> /\ ring' = Append(ring, Head(sending))
        /\ sending' = Tail(sending) /\ UNCHANGED tkb
    BY <1>4 DEF Push, receiverVars
  <2>2. Head(sending) \in Byte /\ sending' \in Seq(Byte)
        /\ Len(sending') = Len(sending) - 1
    BY <1>1, <2>1, HeadTailProperties
  <2>3. ring' \in Seq(Byte) /\ Len(ring') = Len(ring) + 1
    BY <1>1, <2>1, <2>2
  <2>4. Len(ring') + Len(sending') <= Capacity
    BY <1>1, <1>2, <2>2, <2>3
  <2> QED
    BY <1>1, <2>1, <2>2, <2>3, <2>4 DEF TypeAnswers
<1>5. CASE LoadAnswer /\ ring # <<>> /\ UNCHANGED sending
  <2>1. /\ tkb' \in Byte /\ ring' \in Seq(Byte)
        /\ Len(ring') = Len(ring) - 1
    BY <1>1, <1>5, LoadTypes
  <2>2. Len(ring') + Len(sending') <= Capacity
    BY <1>1, <1>2, <1>5, <2>1
  <2> QED
    BY <1>1, <1>5, <2>1, <2>2 DEF TypeAnswers
<1>6. CASE LoadKey /\ UNCHANGED sending
  <2>1. tkb' = Key /\ UNCHANGED <<ring, sending>>
    BY <1>6 DEF LoadKey
  <2>2. Key \in Byte
    BY ControlAssumption DEF Key, Byte
  <2> QED
    BY <1>1, <2>1, <2>2 DEF TypeAnswers
<1>7. CASE Loads
  BY <1>5, <1>6, <1>7 DEF Loads, Load, Popping
<1>9. CASE ClearAnswers
  <2>1. ring' = <<>> /\ UNCHANGED <<sending, tkb>>
    BY <1>9 DEF ClearAnswers
  <2>2. Len(<<>>) + Len(sending) <= Capacity
    BY <1>1, <1>2
  <2> QED
    BY <1>1, <2>1, <2>2 DEF TypeAnswers
<1>10. CASE UNCHANGED <<ring, sending, tkb>>
  BY <1>1, <1>10 DEF TypeAnswers
<1>11. CASE \/ (\E c \in Command : Submit(c)) \/ PollStream \/ PollCommand
            \/ ReadTKB \/ ClearDone \/ Tests \/ Pops \/ LoadsNothing
            \/ Type \/ BeginBoot \/ ResetMachine \/ UNCHANGED vars
  <2>1. UNCHANGED <<ring, sending, tkb>>
    BY <1>11
       DEF Submit, PollStream, PollCommand, ReadTKB, ClearDone, Tests, Test,
           Pops, Pop, LoadsNothing, LoadNothing, Type, BeginBoot,
           ResetMachine, vars, receiverVars
  <2> QED
    BY <1>10, <2>1
<1> QED
  BY <1>3, <1>4, <1>7, <1>9, <1>11, StepActions

LEMMA TypeInputsStep ==
  ASSUME Types, [Next]_vars
  PROVE  TypeInputs'
<1>1. /\ done \in BOOLEAN /\ keys \in 0 .. typed
      /\ sent \in 0 .. MaxCommands /\ typed \in 0 .. MaxKeys
      /\ boots \in 0 .. MaxBoots /\ TypeInputs
      /\ MaxCommands \in Nat /\ MaxKeys \in Nat /\ MaxBoots \in Nat
  BY ControlAssumption DEF Types, TypeInputs
<1>a. ASSUME LoadAnswer \/ LoadKey
      PROVE  done' \in BOOLEAN /\ keys' \in 0 .. typed
  <2>1. CASE LoadAnswer
    BY <1>1, <2>1 DEF LoadAnswer
  <2>2. CASE LoadKey
    <3>1. done' = TRUE /\ keys > 0 /\ keys' = keys - 1
      BY <2>2 DEF LoadKey
    <3> QED
      BY <1>1, <3>1
  <2> QED
    BY <1>a, <2>1, <2>2
<1> USE DEF TypeInputs, inputVars, receiverVars
<1>2. ASSUME NEW c \in Command, Submit(c) PROVE TypeInputs'
  BY <1>1, <1>2 DEF Submit
<1>3. CASE ReadTKB \/ ClearDone
  <2>1. done' = FALSE /\ UNCHANGED <<keys, sent, typed, boots>>
    BY <1>3 DEF ReadTKB, ClearDone
  <2> QED
    BY <1>1, <2>1
<1>5. CASE Loads
  <2>1. LoadAnswer \/ LoadKey
    BY <1>5 DEF Loads, Load
  <2>2. UNCHANGED <<sent, typed, boots>>
    BY <1>5 DEF Loads, Load
  <2> QED
    BY <1>1, <1>a, <2>1, <2>2
<1>6. CASE Type
  BY <1>1, <1>6 DEF Type
<1>7. CASE BeginBoot
  BY <1>1, <1>7 DEF BeginBoot
<1>8. CASE ResetMachine
  BY <1>1, <1>8 DEF ResetMachine
<1>9. CASE \/ PollStream \/ PollCommand \/ QueueAnswer \/ Push \/ Tests
           \/ Pops \/ LoadsNothing \/ ClearAnswers \/ UNCHANGED vars
  <2>1. UNCHANGED <<done, keys, sent, typed, boots>>
    BY <1>9
       DEF PollStream, PollCommand, QueueAnswer, Push, Tests, Test, Pops, Pop,
           LoadsNothing, LoadNothing, ClearAnswers, vars
  <2> QED
    BY <1>1, <2>1
<1> QED
  BY <1>2, <1>3, <1>5, <1>6, <1>7, <1>8, <1>9, StepActions

LEMMA TypeControlStep ==
  ASSUME Types, [Next]_vars
  PROVE  TypeControl'
<1>1. /\ loader \in [Task -> {"idle", "pop", "answer", "keys"}]
      /\ enabled \in BOOLEAN
      /\ boot \in {"up", "wanted", "clear", "reset"}
      /\ mid \in BOOLEAN /\ lost \in BOOLEAN /\ raced \in BOOLEAN
  BY DEF Types, TypeControl
<1>2. /\ loader' \in [Task -> {"idle", "pop", "answer", "keys"}]
      /\ enabled' = enabled
  BY <1>1, StepActions
     DEF Submit, PollStream, PollCommand, QueueAnswer, Push, ReadTKB,
         ClearDone, Tests, Test, Pops, Pop, Loads, Load, LoadsNothing,
         LoadNothing, Type, BeginBoot, ClearAnswers, ResetMachine, vars
<1>3. boot' \in {"up", "wanted", "clear", "reset"}
  BY <1>1, StepActions
     DEF Submit, PollStream, PollCommand, QueueAnswer, Push, ReadTKB,
         ClearDone, Tests, Test, Pops, Pop, Loads, Load, LoadsNothing,
         LoadNothing, Type, BeginBoot, ClearAnswers, ResetMachine, vars
<1>4. mid' \in BOOLEAN
  <2>1. \/ mid' = mid \/ mid' = FALSE \/ mid' = ~Head(ring).last
    BY StepActions
       DEF Submit, PollStream, PollCommand, QueueAnswer, Push, ReadTKB,
           ClearDone, Tests, Test, Pops, Pop, Loads, Load, LoadsNothing,
           LoadNothing, Type, BeginBoot, ClearAnswers, ResetMachine, vars,
           receiverVars, LoadAnswer, LoadKey
  <2> QED
    BY <1>1, <2>1
<1>5. lost' \in BOOLEAN
  <2>1. CASE PollCommand
    <3>1. lost' = (lost /\ stream'.conn = stream.conn)
      BY <2>1 DEF PollCommand
    <3> QED
      BY <3>1
  <2>2. CASE QueueAnswer
    <3>1. \/ lost' = lost
          \/ lost' = (lost \/ \E i \in DOMAIN Head(due) :
                                /\ Head(due)[i].at # 0
                                /\ Head(due)[i].conn = stream.conn)
      BY <2>2 DEF QueueAnswer
    <3> QED
      BY <1>1, <3>1
  <2>3. CASE ClearAnswers
    BY <2>3 DEF ClearAnswers
  <2>5. CASE ClearDone
    <3>1. lost' = (lost \/ (tkb.at # 0 /\ tkb.conn = stream.conn))
      BY <2>5 DEF ClearDone
    <3> QED
      BY <1>1, <3>1
  <2>4. CASE \/ (\E c \in Command : Submit(c)) \/ PollStream \/ Push
             \/ ReadTKB \/ Tests \/ Pops \/ Loads \/ LoadsNothing
             \/ Type \/ BeginBoot \/ ResetMachine \/ UNCHANGED vars
    <3>1. UNCHANGED lost
      BY <2>4
         DEF Submit, PollStream, Push, ReadTKB, Tests, Test, Pops,
             Pop, Loads, Load, LoadsNothing, LoadNothing, Type, BeginBoot,
             ResetMachine, vars
    <3> QED
      BY <1>1, <3>1
  <2> QED
    BY <2>1, <2>2, <2>3, <2>4, <2>5, StepActions
<1>6. raced' \in BOOLEAN
  <2>1. \/ raced' = raced
        \/ \E t \in Task : raced' = (raced \/ \E u \in Task \ {t} :
                                                loader[u] # "idle")
        \/ raced' = (raced \/ loader["clk"] = "answer")
    BY StepActions
       DEF Submit, PollStream, PollCommand, QueueAnswer, Push, ReadTKB,
           ClearDone, Tests, Test, Pops, Pop, Loads, Load, LoadsNothing,
           LoadNothing, Type, BeginBoot, ClearAnswers, ResetMachine, vars
  <2> QED
    BY <1>1, <2>1
<1> QED
  BY <1>1, <1>2, <1>3, <1>4, <1>5, <1>6 DEF TypeControl

(* Core 1 was not alone with the ring once it was not. *)
LEMMA RacedStays ==
  ASSUME TypeControl, [Next]_vars, ~raced'
  PROVE  ~raced
<1>1. \/ raced' = raced
      \/ \E t \in Task : raced' = (raced \/ \E u \in Task \ {t} :
                                              loader[u] # "idle")
      \/ raced' = (raced \/ loader["clk"] = "answer")
  BY StepActions
     DEF Submit, PollStream, PollCommand, QueueAnswer, Push, ReadTKB,
         ClearDone, Tests, Test, Pops, Pop, Loads, Load, LoadsNothing,
         LoadNothing, Type, BeginBoot, ClearAnswers, ResetMachine, vars
<1> QED
  BY <1>1 DEF TypeControl

LEMMA TypeHeardStep ==
  ASSUME Types, [Next]_vars
  PROVE  TypeHeard'
<1>1. heard \in Seq(1 .. Size + 2) /\ tkb \in Byte
  BY DEF Types, TypeHeard, TypeAnswers
<1>2. CASE UNCHANGED heard
  BY <1>1, <1>2 DEF TypeHeard
<1>3. CASE heard' = <<>>
  BY <1>3 DEF TypeHeard
<1>4. CASE PollCommand
  BY <1>2, <1>3, <1>4 DEF PollCommand
<1>5. CASE ReadTKB
  <2>1. CASE tkb.at # 0 /\ tkb.conn = stream.conn
    <3>1. heard' = Append(heard, tkb.at)
      BY <1>5, <2>1 DEF ReadTKB
    <3>2. tkb.at \in 1 .. Size + 2
      BY <1>1, <2>1, ControlAssumption DEF Byte
    <3> QED
      BY <1>1, <3>1, <3>2 DEF TypeHeard
  <2>2. CASE ~ (tkb.at # 0 /\ tkb.conn = stream.conn)
    BY <1>2, <1>5, <2>2 DEF ReadTKB
  <2> QED
    BY <2>1, <2>2
<1>6. CASE ResetMachine
  BY <1>3, <1>6 DEF ResetMachine
<1>7. CASE \/ (\E c \in Command : Submit(c)) \/ PollStream \/ QueueAnswer
           \/ Push \/ ClearDone \/ Tests \/ Pops \/ Loads \/ LoadsNothing
           \/ Type \/ BeginBoot \/ ClearAnswers \/ UNCHANGED vars
  <2>1. UNCHANGED heard
    BY <1>7
       DEF Submit, PollStream, QueueAnswer, Push, ClearDone, Tests, Test,
           Pops, Pop, Loads, Load, LoadsNothing, LoadNothing, Type, BeginBoot,
           ClearAnswers, vars, receiverVars
  <2> QED
    BY <1>2, <2>1
<1> QED
  BY <1>4, <1>5, <1>6, <1>7, StepActions

LEMMA TypesStep ==
  ASSUME Types, Popping, [Next]_vars
  PROVE  Types'
BY TypeCommandsStep, ShapeStep, TypeDueStep, TypeAnswersStep,
   TypeInputsStep, TypeControlStep, TypeHeardStep DEF Types

LEMMA TypesInit ==
  ASSUME Init
  PROVE  Types
<1>1. /\ <<>> \in Seq(Command) /\ Len(<<>>) < Depth
      /\ <<>> \in Seq(Byte) /\ <<>> \in Seq(Seq(Byte)) /\ Len(<<>>) <= 3
      /\ Len(<<>>) + Len(<<>>) <= Capacity /\ <<>> \in Seq(1 .. Size + 2)
      /\ 0 \in 0 .. MaxCommands /\ 0 \in 0 .. MaxKeys /\ 0 \in 0 .. MaxBoots
      /\ 0 \in 0 .. 0 /\ 0 \in Nat
  BY ControlAssumption
<1>2. Key \in Byte
  BY ControlAssumption DEF Key, Byte
<1>3. Shape(stream)
  BY <1>1, DisconnectedShape DEF Init
<1> QED
  BY <1>1, <1>2, <1>3
     DEF Init, Types, TypeCommands, TypeDue, TypeAnswers, TypeInputs,
         TypeControl, TypeHeard

-----------------------------------------------------------------------------
(***************************************************************************)
(* Frames.  Of an answer that is loaded in part the rest is in the ring,   *)
(* or still being pushed; core 1 does nothing else until it has pushed it  *)
(* all, so the rest is in the ring when the guest reads the byte loaded.   *)
(***************************************************************************)
Ends ==
  /\ sending # <<>> => Whole(sending)
  /\ sending = <<>> /\ ring # <<>> => Whole(ring)

Rest ==
  mid => /\ ring # <<>> \/ sending # <<>>
         /\ ~done => ring # <<>>

DueWhole == \A i \in DOMAIN due : Whole(due[i])

LoaderWaits ==
  /\ \A t \in Task : /\ loader[t] # "idle" => ~done
                     /\ loader[t] = "keys" => ~mid
  /\ \A t, u \in Task : t # u => loader[t] = "idle" \/ loader[u] = "idle"

BootWaits ==
  boot \in {"clear", "reset"}
    => due = <<>> /\ sending = <<>> /\ loader["cpu"] = "idle"

Frames == Popping /\ Ends /\ Rest /\ DueWhole /\ LoaderWaits /\ BootWaits

(* The tail of a sequence ends as the sequence does. *)
LEMMA WholeTail ==
  ASSUME NEW w \in Seq(Byte), w # <<>>, Whole(w)
  PROVE  IF Tail(w) = <<>> THEN Head(w).last ELSE Whole(Tail(w))
<1> DEFINE t == Tail(w)
<1>1. /\ t \in Seq(Byte) /\ Len(t) = Len(w) - 1
      /\ \A i \in 1 .. Len(t) : t[i] = w[i + 1]
  BY HeadTailProperties
<1>2. Len(w) \in Nat /\ Head(w) = w[1]
  OBVIOUS
<1> HIDE DEF t
<1>3. CASE t = <<>>
  <2>1. Len(w) = 1
    <3>1. Len(t) = 0
      BY <1>3
    <3> QED
      BY <1>1, <1>2, <3>1
  <2> QED
    BY <1>2, <1>3, <2>1 DEF Whole, t
<1>4. CASE t # <<>>
  <2>1. Len(t) \in Nat /\ Len(t) # 0
    BY <1>1, <1>4
  <2>2. Len(t) \in 1 .. Len(t) /\ Len(t) + 1 = Len(w)
    BY <1>1, <1>2, <2>1
  <2> QED
    BY <1>1, <1>4, <2>2 DEF Whole, t
<1> QED
  BY <1>3, <1>4

LEMMA WholeAppend ==
  ASSUME NEW w \in Seq(Byte), NEW b \in Byte
  PROVE  Whole(Append(w, b)) <=> b.last
<1>1. Append(w, b) # <<>> /\ Append(w, b)[Len(Append(w, b))] = b
  BY AppendProperties
<1> QED
  BY <1>1 DEF Whole

LEMMA PoppingStep ==
  ASSUME Types, Frames, [Next]_vars, ~raced'
  PROVE  Popping'
<1>1. /\ Popping /\ ring \in Seq(Byte) /\ sending \in Seq(Byte)
      /\ TypeControl /\ LoaderWaits /\ BootWaits
      /\ loader \in [Task -> {"idle", "pop", "answer", "keys"}]
  BY DEF Frames, Types, TypeAnswers, TypeControl
<1>2. ~raced
  BY <1>1, RacedStays
<1>3. CASE Pops
  BY <1>1, <1>3 DEF Pops, Pop, Popping
<1>4. CASE ClearAnswers
  <2>1. boot = "clear" /\ loader["clk"] # "answer" /\ loader' = loader
    BY <1>4 DEF ClearAnswers
  <2>2. loader["cpu"] = "idle"
    BY <1>1, <2>1 DEF BootWaits
  <2> QED
    BY <2>1, <2>2 DEF Popping, Task
<1>6. CASE Push
  <2>1. sending # <<>> /\ ring' = Append(ring, Head(sending))
    BY <1>6 DEF Push
  <2>2. ring' # <<>>
    BY <1>1, <2>1, HeadTailProperties, AppendProperties
  <2> QED
    BY <2>2 DEF Popping
<1>7. CASE Loads
  <2>1. PICK t \in Task : Load(t)
    BY <1>7 DEF Loads
  <2>2. /\ loader[t] # "idle" /\ loader' = [loader EXCEPT ![t] = "idle"]
    BY <2>1 DEF Load
  <2>3. \A u \in Task : loader'[u] = "idle"
    BY <1>1, <2>2 DEF LoaderWaits
  <2> QED
    BY <2>3 DEF Popping
<1>8. CASE Tests \/ LoadsNothing
  <2>1. ring' = ring /\ \E t \in Task, x \in {"pop", "idle"} :
                            loader' = [loader EXCEPT ![t] = x]
    BY <1>8 DEF Tests, Test, LoadsNothing, LoadNothing
  <2> QED
    BY <1>1, <2>1 DEF Popping
<1>9. CASE \/ (\E c \in Command : Submit(c)) \/ PollStream \/ PollCommand
           \/ QueueAnswer \/ ReadTKB \/ ClearDone \/ Type \/ BeginBoot
           \/ ResetMachine \/ UNCHANGED vars
  <2>1. UNCHANGED <<loader, ring>>
    BY <1>9
       DEF Submit, PollStream, PollCommand, QueueAnswer, ReadTKB, ClearDone,
           Type, BeginBoot, ResetMachine, vars
  <2> QED
    BY <1>1, <2>1 DEF Popping
<1> QED
  BY <1>3, <1>4, <1>6, <1>7, <1>8, <1>9, StepActions

(* An answer is loaded from the ring: what follows its first byte. *)
LEMMA LoadEnds ==
  ASSUME Types, Frames, LoadAnswer, ring # <<>>, UNCHANGED sending
  PROVE  Ends' /\ Rest'
<1>1. ring \in Seq(Byte) /\ ring' = Tail(ring) /\ done' = TRUE
      /\ mid' = ~Head(ring).last /\ Ends
  BY DEF Types, TypeAnswers, LoadAnswer, Frames
<1>2. CASE sending # <<>>
  BY <1>1, <1>2 DEF Ends, Rest
<1>3. CASE sending = <<>>
  <2>1. IF Tail(ring) = <<>> THEN Head(ring).last ELSE Whole(Tail(ring))
    BY <1>1, <1>3, WholeTail DEF Ends
  <2> QED
    BY <1>1, <1>3, <2>1 DEF Ends, Rest
<1> QED
  BY <1>2, <1>3

LEMMA EndsStep ==
  ASSUME Types, Frames, [Next]_vars
  PROVE  Ends'
<1>1. /\ Ends /\ ring \in Seq(Byte) /\ sending \in Seq(Byte)
      /\ due \in Seq(Seq(Byte)) /\ DueWhole /\ Popping
  BY DEF Frames, Types, TypeAnswers, TypeDue
<1>2. CASE QueueAnswer
  <2>1. /\ due # <<>> /\ sending = <<>> /\ ring' = ring
        /\ sending' = sending \/ sending' = Head(due)
    BY <1>2 DEF QueueAnswer
  <2>2. Whole(Head(due))
    <3>1. Head(due) = due[1] /\ 1 \in DOMAIN due
      BY <1>1, <2>1
    <3> QED
      BY <1>1, <3>1 DEF DueWhole
  <2> QED
    BY <1>1, <2>1, <2>2 DEF Ends, Whole
<1>3. CASE Push
  <2>1. /\ sending # <<>> /\ ring' = Append(ring, Head(sending))
        /\ sending' = Tail(sending) /\ Head(sending) \in Byte
    BY <1>1, <1>3, HeadTailProperties DEF Push
  <2>2. IF Tail(sending) = <<>> THEN Head(sending).last
        ELSE Whole(Tail(sending))
    BY <1>1, <2>1, WholeTail DEF Ends
  <2>3. Whole(Append(ring, Head(sending))) <=> Head(sending).last
    BY <1>1, <2>1, WholeAppend
  <2> QED
    BY <2>1, <2>2, <2>3 DEF Ends
<1>4. CASE LoadKey /\ UNCHANGED sending
  BY <1>1, <1>4 DEF LoadKey, Ends
<1>6. CASE Loads
  <2>1. UNCHANGED sending /\ ((LoadAnswer /\ ring # <<>>) \/ LoadKey)
    BY <1>1, <1>6 DEF Loads, Load, Popping
  <2> QED
    BY <1>4, <2>1, LoadEnds
<1>7. CASE ClearAnswers
  BY <1>1, <1>7 DEF ClearAnswers, Ends
<1>8. CASE \/ (\E c \in Command : Submit(c)) \/ PollStream \/ PollCommand
           \/ ReadTKB \/ ClearDone \/ Tests \/ Pops \/ LoadsNothing
           \/ Type \/ BeginBoot \/ ResetMachine \/ UNCHANGED vars
  <2>1. UNCHANGED <<ring, sending>>
    BY <1>8
       DEF Submit, PollStream, PollCommand, ReadTKB, ClearDone, Tests, Test,
           Pops, Pop, LoadsNothing, LoadNothing, Type, BeginBoot,
           ResetMachine, vars
  <2> QED
    BY <1>1, <2>1 DEF Ends
<1> QED
  BY <1>2, <1>3, <1>6, <1>7, <1>8, StepActions

LEMMA RestStep ==
  ASSUME Types, Frames, [Next]_vars
  PROVE  Rest'
<1>1. /\ Rest /\ ring \in Seq(Byte) /\ sending \in Seq(Byte)
      /\ Popping /\ LoaderWaits /\ BootWaits
  BY DEF Frames, Types, TypeAnswers
<1>2. CASE QueueAnswer
  <2>1. sending = <<>> /\ UNCHANGED <<ring, mid, done>>
    BY <1>2 DEF QueueAnswer, receiverVars
  <2> QED
    BY <1>1, <2>1 DEF Rest
<1>3. CASE Push
  <2>1. sending # <<>> /\ ring' = Append(ring, Head(sending))
    BY <1>3 DEF Push
  <2>2. ring' # <<>>
    BY <1>1, <2>1, HeadTailProperties, AppendProperties
  <2> QED
    BY <2>2 DEF Rest
<1>5. CASE Loads
  <2>1. PICK t \in Task : Load(t)
    BY <1>5 DEF Loads
  <2>2. CASE loader[t] = "answer" /\ LoadAnswer
    BY <1>1, <2>1, <2>2, LoadEnds DEF Load, Popping
  <2>3. CASE loader[t] = "keys" /\ LoadKey
    <3>1. ~mid /\ mid' = mid
      BY <1>1, <2>3 DEF LoadKey, LoaderWaits
    <3> QED
      BY <3>1 DEF Rest
  <2> QED
    BY <2>1, <2>2, <2>3 DEF Load
<1>6. CASE ReadTKB \/ ClearDone
  <2>1. sending = <<>> /\ UNCHANGED <<ring, mid, sending>>
    BY <1>6 DEF ReadTKB, ClearDone, Idle
  <2> QED
    BY <1>1, <2>1 DEF Rest
<1>7. CASE ClearAnswers
  BY <1>7 DEF ClearAnswers, Rest
<1>8. CASE ResetMachine
  <2>1. sending = <<>> /\ UNCHANGED <<ring, mid, sending>>
    BY <1>1, <1>8 DEF ResetMachine, BootWaits
  <2> QED
    BY <1>1, <2>1 DEF Rest
<1>9. CASE \/ (\E c \in Command : Submit(c)) \/ PollStream \/ PollCommand
           \/ Tests \/ Pops \/ LoadsNothing \/ Type \/ BeginBoot
           \/ UNCHANGED vars
  <2>1. UNCHANGED <<ring, sending, mid, done>>
    BY <1>9
       DEF Submit, PollStream, PollCommand, Tests, Test, Pops, Pop,
           LoadsNothing, LoadNothing, Type, BeginBoot, vars, receiverVars
  <2> QED
    BY <1>1, <2>1 DEF Rest
<1> QED
  BY <1>2, <1>3, <1>5, <1>6, <1>7, <1>8, <1>9, StepActions

LEMMA DueWholeStep ==
  ASSUME Types, Frames, [Next]_vars
  PROVE  DueWhole'
<1>1. /\ DueWhole /\ due \in Seq(Seq(Byte)) /\ Shape(stream)
      /\ commands \in Seq(Command)
  BY DEF Frames, Types, TypeDue, TypeCommands
<1>2. CASE PollStream
  <2>1. Quiet(due')
    BY <1>1, <1>2, PollStreamOf
  <2>2. \A i \in DOMAIN due' : Whole(due'[i])
    BY <2>1 DEF Quiet, Silent
  <2> QED
    BY <2>2 DEF DueWhole
<1>3. CASE PollCommand
  <2>1. Quiet(due') \/ \E s, t : Queued(s, t, due')
    BY <1>1, <1>3, PollCommandOf
  <2>2. \A i \in DOMAIN due' : Whole(due'[i])
    BY <2>1 DEF Quiet, Queued, Silent
  <2> QED
    BY <2>2 DEF DueWhole
<1>4. CASE QueueAnswer
  <2>1. due # <<>> /\ due' = Tail(due)
    BY <1>4 DEF QueueAnswer
  <2>2. /\ due' \in Seq(Seq(Byte)) /\ Len(due') = Len(due) - 1
        /\ \A i \in 1 .. Len(due') : due'[i] = due[i + 1]
    BY <1>1, <2>1, HeadTailProperties
  <2>3. \A i \in DOMAIN due' : due'[i] = due[i + 1] /\ i + 1 \in DOMAIN due
    BY <1>1, <2>2
  <2> QED
    BY <1>1, <2>3 DEF DueWhole
<1>5. CASE \/ (\E c \in Command : Submit(c)) \/ Push \/ ReadTKB \/ ClearDone
           \/ Tests \/ Pops \/ Loads \/ LoadsNothing \/ Type \/ BeginBoot
           \/ ClearAnswers \/ ResetMachine \/ UNCHANGED vars
  <2>1. UNCHANGED due
    BY <1>5
       DEF Submit, Push, ReadTKB, ClearDone, Tests, Test, Pops, Pop, Loads,
           Load, LoadsNothing, LoadNothing, Type, BeginBoot, ClearAnswers,
           ResetMachine, vars
  <2> QED
    BY <1>1, <2>1 DEF DueWhole
<1> QED
  BY <1>2, <1>3, <1>4, <1>5, StepActions

LEMMA LoaderWaitsStep ==
  ASSUME Types, Frames, [Next]_vars, ~raced'
  PROVE  LoaderWaits'
<1>1. /\ LoaderWaits /\ Rest /\ TypeControl
      /\ loader \in [Task -> {"idle", "pop", "answer", "keys"}]
  BY DEF Frames, Types, TypeControl
<1>2. CASE ReadTKB \/ ClearDone
  <2>1. done' = FALSE /\ UNCHANGED <<loader, mid>>
    BY <1>2 DEF ReadTKB, ClearDone
  <2> QED
    BY <1>1, <2>1 DEF LoaderWaits
<1>4. CASE Tests
  <2>1. PICK t \in Task : Test(t)
    BY <1>4 DEF Tests
  <2>2. /\ ~done /\ UNCHANGED <<done, mid>>
        /\ loader' = [loader EXCEPT ![t] = "pop"]
        /\ \A u \in Task \ {t} : loader[u] = "idle"
    BY <2>1 DEF Test, receiverVars
  <2>3. loader'[t] = "pop" /\ \A u \in Task \ {t} : loader'[u] = "idle"
    BY <1>1, <2>2
  <2> QED
    BY <2>2, <2>3 DEF LoaderWaits
<1>5. CASE Pops
  <2>1. PICK t \in Task : Pop(t)
    BY <1>5 DEF Pops
  <2>2. /\ loader[t] = "pop" /\ UNCHANGED <<done, mid>>
        /\ loader' = [loader EXCEPT
                        ![t] = IF ring # <<>> THEN "answer" ELSE "keys"]
    BY <2>1 DEF Pop, receiverVars
  <2>3. ~done /\ \A u \in Task \ {t} : loader[u] = "idle"
    BY <1>1, <2>2 DEF LoaderWaits
  <2>4. /\ loader'[t] = "keys" => ~mid
        /\ \A u \in Task \ {t} : loader'[u] = "idle"
    BY <1>1, <2>2, <2>3 DEF Rest
  <2> QED
    BY <2>2, <2>3, <2>4 DEF LoaderWaits
<1>6. CASE Loads \/ LoadsNothing
  <2>1. PICK t \in Task : /\ loader[t] # "idle"
                          /\ loader' = [loader EXCEPT ![t] = "idle"]
    BY <1>6 DEF Loads, Load, LoadsNothing, LoadNothing
  <2>2. \A u \in Task : loader'[u] = "idle"
    BY <1>1, <2>1 DEF LoaderWaits
  <2> QED
    BY <2>2 DEF LoaderWaits
<1>7. CASE ClearAnswers
  <2>1. mid' = FALSE /\ UNCHANGED <<loader, done>>
    BY <1>7 DEF ClearAnswers
  <2> QED
    BY <1>1, <2>1 DEF LoaderWaits
<1>8. CASE ResetMachine
  <2>1. done' = FALSE /\ UNCHANGED <<loader, mid>>
    BY <1>8 DEF ResetMachine
  <2> QED
    BY <1>1, <2>1 DEF LoaderWaits
<1>9. CASE \/ (\E c \in Command : Submit(c)) \/ PollStream \/ PollCommand
           \/ QueueAnswer \/ Push \/ Type \/ BeginBoot \/ UNCHANGED vars
  <2>1. UNCHANGED <<loader, done, mid>>
    BY <1>9
       DEF Submit, PollStream, PollCommand, QueueAnswer, Push, Type,
           BeginBoot, vars, receiverVars
  <2> QED
    BY <1>1, <2>1 DEF LoaderWaits
<1> QED
  BY <1>2, <1>4, <1>5, <1>6, <1>7, <1>8, <1>9, StepActions

LEMMA BootWaitsStep ==
  ASSUME Types, Frames, [Next]_vars
  PROVE  BootWaits'
<1>1. /\ BootWaits
      /\ loader \in [Task -> {"idle", "pop", "answer", "keys"}]
  BY DEF Frames, Types, TypeControl
<1>2. CASE PollStream \/ PollCommand
  <2>1. boot' \notin {"clear", "reset"}
    BY <1>2 DEF PollStream, PollCommand, Idle
  <2> QED
    BY <2>1 DEF BootWaits
<1>3. CASE QueueAnswer \/ Push
  <2>1. boot \notin {"clear", "reset"} /\ boot' = boot
    BY <1>1, <1>3 DEF QueueAnswer, Push, BootWaits
  <2> QED
    BY <2>1 DEF BootWaits
<1>4. CASE BeginBoot
  BY <1>4 DEF BeginBoot, BootWaits, Idle
<1>5. CASE ClearAnswers
  BY <1>1, <1>5 DEF ClearAnswers, BootWaits
<1>6. CASE ResetMachine
  BY <1>6 DEF ResetMachine, BootWaits
<1>7. CASE \/ (\E c \in Command : Submit(c)) \/ ReadTKB \/ ClearDone
           \/ Type \/ UNCHANGED vars
  <2>1. UNCHANGED <<boot, due, sending, loader>>
    BY <1>7 DEF Submit, ReadTKB, ClearDone, Type, vars
  <2> QED
    BY <1>1, <2>1 DEF BootWaits
<1>8. CASE Tests
  <2>1. PICK t \in Task : Test(t)
    BY <1>8 DEF Tests
  <2>2. /\ UNCHANGED <<boot, due, sending>>
        /\ loader' = [loader EXCEPT ![t] = "pop"]
        /\ t = "cpu" => boot \in {"up", "wanted"}
    BY <2>1 DEF Test, Idle
  <2> QED
    BY <1>1, <2>2 DEF BootWaits, Task
<1>9. CASE Pops \/ Loads \/ LoadsNothing
  <2>1. PICK t \in Task, x \in {"answer", "keys", "idle"} :
          loader[t] # "idle" /\ loader' = [loader EXCEPT ![t] = x]
    BY <1>9 DEF Pops, Pop, Loads, Load, LoadsNothing, LoadNothing
  <2>2. UNCHANGED <<boot, due, sending>>
    BY <1>9 DEF Pops, Pop, Loads, Load, LoadsNothing, LoadNothing
  <2> QED
    BY <1>1, <2>1, <2>2 DEF BootWaits, Task
<1> QED
  BY <1>2, <1>3, <1>4, <1>5, <1>6, <1>7, <1>8, <1>9, StepActions

LEMMA FramesStep ==
  ASSUME Types, Frames, [Next]_vars, ~raced'
  PROVE  Frames'
BY PoppingStep, EndsStep, RestStep, DueWholeStep, LoaderWaitsStep,
   BootWaitsStep DEF Frames

LEMMA FramesInit ==
  ASSUME Init
  PROVE  Frames
BY DEF Init, Frames, Popping, Ends, Rest, DueWhole, LoaderWaits, BootWaits,
       Task

-----------------------------------------------------------------------------
(***************************************************************************)
(* The story of the file, part by part: heard, loaded, in the ring, being  *)
(* pushed, due, and still to be read.                                      *)
(***************************************************************************)
Loaded == IF done THEN <<tkb>> ELSE <<>>
Mine(w) == Of(stream.conn, w)
Parts == <<heard, Mine(Loaded), Mine(ring), Mine(sending), Mine(Flat(due)),
           Available(stream)>>

Known(p) == UNION {BytesOf(p[i]) : i \in 1 .. 6}

(* What a part may lose: what INASCII drops, the byte of EOF=, and bytes   *)
(* that are not the file's.                                                *)
Slack == Dropped \cup {0, Size + 1}

Told(p) ==
  /\ \A i \in 1 .. 6 : Ascending(p[i])
  /\ \A i, j \in 1 .. 6 : i < j => Before(BytesOf(p[i]), BytesOf(p[j]))

(* The bytes come in order; while the file is connected none is missing    *)
(* unless an answer was lost, and while it is open nothing follows them.   *)
Fine(s, p, missing) ==
  /\ Told(p)
  /\ Connected(s) /\ ~missing => (1 .. Size) \ Dropped \subseteq Known(p)
  /\ s.open => Known(p) \subseteq 0 .. Size

UpTo(w, c) == \A i \in DOMAIN w : w[i].conn <= c

Earlier ==
  /\ UpTo(ring, stream.conn) /\ UpTo(sending, stream.conn)
  /\ \A i \in DOMAIN due : UpTo(due[i], stream.conn)
  /\ tkb.conn <= stream.conn

BootCloses == boot \in {"clear", "reset"} => ~Connected(stream)

Stories == Fine(stream, Parts, lost) /\ Earlier /\ BootCloses

Inv == raced \/ (Types /\ Frames /\ Stories)

LEMMA LoadedTyped ==
  ASSUME Types
  PROVE  /\ Loaded \in Seq(Byte) /\ ring \in Seq(Byte) /\ sending \in Seq(Byte)
         /\ Flat(due) \in Seq(Byte) /\ due \in Seq(Seq(Byte))
<1>1. /\ ring \in Seq(Byte) /\ sending \in Seq(Byte)
      /\ due \in Seq(Seq(Byte)) /\ tkb \in Byte
  BY DEF Types, TypeAnswers, TypeDue
<1>2. Flat(due) \in Seq(Byte)
  BY <1>1, FlatOf
<1>3. Loaded \in Seq(Byte)
  <2>1. <<tkb>> \in Seq(Byte) /\ <<>> \in Seq(Byte)
    BY <1>1
  <2> QED
    BY <2>1 DEF Loaded
<1> QED
  BY <1>1, <1>2, <1>3

LEMMA PartsTyped ==
  ASSUME Types
  PROVE  /\ \A i \in 1 .. 6 : Parts[i] \in Seq(Nat)
         /\ \A i \in 1 .. 5 : BytesOf(Parts[i]) \subseteq 0 .. Size + 2
         /\ BytesOf(Parts[6]) \subseteq 1 .. Size + 1
<1> DEFINE c == stream.conn
<1>1. /\ Loaded \in Seq(Byte) /\ ring \in Seq(Byte) /\ sending \in Seq(Byte)
      /\ Flat(due) \in Seq(Byte) /\ Shape(stream)
      /\ heard \in Seq(1 .. Size + 2)
  BY LoadedTyped DEF Types, TypeHeard
<1>2. ASSUME NEW w \in Seq(Byte)
      PROVE  Mine(w) \in Seq(Nat) /\ BytesOf(Mine(w)) \subseteq 0 .. Size + 2
  <2>1. /\ Mine(w) \in Seq(Nat) /\ Len(Mine(w)) = Len(w)
        /\ \A i \in 1 .. Len(w) : Mine(w)[i] \in 0 .. Size + 2
    BY OfSeq DEF Mine
  <2>2. DOMAIN Mine(w) = 1 .. Len(w)
    BY <2>1
  <2> QED
    BY <2>1, <2>2 DEF BytesOf
<1>3. /\ Available(stream) \in Seq(Nat)
      /\ BytesOf(Available(stream)) \subseteq 1 .. Size + 1
  BY <1>1, AvailableAscends
<1>4. heard \in Seq(Nat) /\ BytesOf(heard) \subseteq 0 .. Size + 2
  <2>1. 1 .. Size + 2 \subseteq Nat /\ 1 .. Size + 2 \subseteq 0 .. Size + 2
    BY ControlAssumption
  <2>2. \A i \in 1 .. Len(heard) : heard[i] \in 1 .. Size + 2
    BY <1>1, ElementOfSeq
  <2>3. DOMAIN heard = 1 .. Len(heard)
    BY <1>1
  <2> QED
    BY <1>1, <2>1, <2>2, <2>3, SeqMonotonic DEF BytesOf
<1> DEFINE p == Parts
<1>5. /\ p[1] = heard /\ p[2] = Mine(Loaded) /\ p[3] = Mine(ring)
      /\ p[4] = Mine(sending) /\ p[5] = Mine(Flat(due))
      /\ p[6] = Available(stream)
  BY DEF Parts
<1> HIDE DEF p
<1>6. /\ p[1] \in Seq(Nat) /\ p[2] \in Seq(Nat) /\ p[3] \in Seq(Nat)
      /\ p[4] \in Seq(Nat) /\ p[5] \in Seq(Nat) /\ p[6] \in Seq(Nat)
  BY <1>1, <1>2, <1>3, <1>4, <1>5
<1>7. /\ BytesOf(p[1]) \subseteq 0 .. Size + 2
      /\ BytesOf(p[2]) \subseteq 0 .. Size + 2
      /\ BytesOf(p[3]) \subseteq 0 .. Size + 2
      /\ BytesOf(p[4]) \subseteq 0 .. Size + 2
      /\ BytesOf(p[5]) \subseteq 0 .. Size + 2
  BY <1>1, <1>2, <1>4, <1>5
<1>8. /\ \A i \in 1 .. 6 : i = 1 \/ i = 2 \/ i = 3 \/ i = 4 \/ i = 5 \/ i = 6
      /\ \A i \in 1 .. 5 : i = 1 \/ i = 2 \/ i = 3 \/ i = 4 \/ i = 5
  OBVIOUS
<1>9. \A i \in 1 .. 6 : p[i] \in Seq(Nat)
  BY <1>6, <1>8
<1>10. \A i \in 1 .. 5 : BytesOf(p[i]) \subseteq 0 .. Size + 2
  BY <1>7, <1>8
<1> QED
  BY <1>3, <1>5, <1>9, <1>10 DEF p

(* The story is its parts, one after the other. *)
LEMMA SixParts ==
  ASSUME NEW p, \A i \in 1 .. 6 : p[i] \in Seq(Nat),
         NEW s, s = p[1] \o (p[2] \o p[3] \o p[4] \o p[5]) \o p[6]
  PROVE  /\ BytesOf(s) = Known(p)
         /\ Told(p) => Ascending(s)
<1> DEFINE u == p[2] \o p[3] \o p[4]
           v == u \o p[5]
<1>1. /\ p[1] \in Seq(Nat) /\ p[2] \in Seq(Nat) /\ p[3] \in Seq(Nat)
      /\ p[4] \in Seq(Nat) /\ p[5] \in Seq(Nat) /\ p[6] \in Seq(Nat)
  OBVIOUS
<1>2. /\ u \in Seq(Nat)
      /\ BytesOf(u) = BytesOf(p[2]) \cup BytesOf(p[3]) \cup BytesOf(p[4])
      /\ Ascending(u)
           <=> /\ Ascending(p[2]) /\ Ascending(p[3]) /\ Ascending(p[4])
               /\ Before(BytesOf(p[2]), BytesOf(p[3]))
               /\ Before(BytesOf(p[2]), BytesOf(p[4]))
               /\ Before(BytesOf(p[3]), BytesOf(p[4]))
  BY <1>1, Concat3
<1>3. s = p[1] \o v \o p[6]
  OBVIOUS
<1> HIDE DEF u
<1>4. /\ v \in Seq(Nat) /\ BytesOf(v) = BytesOf(u) \cup BytesOf(p[5])
      /\ Ascending(v) <=> /\ Ascending(u) /\ Ascending(p[5])
                          /\ Before(BytesOf(u), BytesOf(p[5]))
  BY <1>1, <1>2, ConcatProperties, BytesOfConcat, AscendingConcat
<1> HIDE DEF v
<1>a. p[1] \in Seq(Nat) /\ p[6] \in Seq(Nat) /\ v \in Seq(Nat)
  BY <1>1, <1>4
<1>b. /\ BytesOf(p[1] \o v \o p[6])
           = BytesOf(p[1]) \cup BytesOf(v) \cup BytesOf(p[6])
      /\ Ascending(p[1] \o v \o p[6])
           <=> /\ Ascending(p[1]) /\ Ascending(v) /\ Ascending(p[6])
               /\ Before(BytesOf(p[1]), BytesOf(v))
               /\ Before(BytesOf(p[1]), BytesOf(p[6]))
               /\ Before(BytesOf(v), BytesOf(p[6]))
  BY <1>a, Concat3
<1>5. /\ BytesOf(s) = BytesOf(p[1]) \cup BytesOf(v) \cup BytesOf(p[6])
      /\ Ascending(s)
           <=> /\ Ascending(p[1]) /\ Ascending(v) /\ Ascending(p[6])
               /\ Before(BytesOf(p[1]), BytesOf(v))
               /\ Before(BytesOf(p[1]), BytesOf(p[6]))
               /\ Before(BytesOf(v), BytesOf(p[6]))
  BY <1>3, <1>b
<1>6. \A i \in 1 .. 6 : i = 1 \/ i = 2 \/ i = 3 \/ i = 4 \/ i = 5 \/ i = 6
  OBVIOUS
<1>7. BytesOf(s) = Known(p)
  <2>1. Known(p) = BytesOf(p[1]) \cup BytesOf(p[2]) \cup BytesOf(p[3])
                     \cup BytesOf(p[4]) \cup BytesOf(p[5]) \cup BytesOf(p[6])
    <3>1. /\ 1 \in 1 .. 6 /\ 2 \in 1 .. 6 /\ 3 \in 1 .. 6
          /\ 4 \in 1 .. 6 /\ 5 \in 1 .. 6 /\ 6 \in 1 .. 6
      OBVIOUS
    <3> DEFINE U == BytesOf(p[1]) \cup BytesOf(p[2]) \cup BytesOf(p[3])
                     \cup BytesOf(p[4]) \cup BytesOf(p[5]) \cup BytesOf(p[6])
    <3>2. ASSUME NEW b \in Known(p) PROVE b \in U
      <4>1. PICK i \in 1 .. 6 : b \in BytesOf(p[i])
        BY DEF Known
      <4> QED
        BY <1>6, <4>1
    <3>3. \A i \in 1 .. 6 : BytesOf(p[i]) \subseteq Known(p)
      BY DEF Known
    <3>4. /\ BytesOf(p[1]) \subseteq Known(p) /\ BytesOf(p[2]) \subseteq Known(p)
          /\ BytesOf(p[3]) \subseteq Known(p) /\ BytesOf(p[4]) \subseteq Known(p)
          /\ BytesOf(p[5]) \subseteq Known(p) /\ BytesOf(p[6]) \subseteq Known(p)
      BY <3>1, <3>3
    <3> QED
      BY <3>2, <3>4
  <2> QED
    BY <1>2, <1>4, <1>5, <2>1
<1>8. ASSUME Told(p) PROVE Ascending(s)
  <2>1. /\ Ascending(p[1]) /\ Ascending(p[2]) /\ Ascending(p[3])
        /\ Ascending(p[4]) /\ Ascending(p[5]) /\ Ascending(p[6])
    BY <1>8 DEF Told
  <2>2. \A i, j \in 1 .. 6 : i < j => Before(BytesOf(p[i]), BytesOf(p[j]))
    BY <1>8 DEF Told
  <2>3. \A i \in {2, 3, 4, 5, 6} : Before(BytesOf(p[1]), BytesOf(p[i]))
    BY <2>2
  <2>4. \A i \in {3, 4, 5, 6} : Before(BytesOf(p[2]), BytesOf(p[i]))
    BY <2>2
  <2>5. \A i \in {4, 5, 6} : Before(BytesOf(p[3]), BytesOf(p[i]))
    BY <2>2
  <2>6. /\ Before(BytesOf(p[4]), BytesOf(p[5]))
        /\ Before(BytesOf(p[4]), BytesOf(p[6]))
        /\ Before(BytesOf(p[5]), BytesOf(p[6]))
    BY <2>2
  <2>7. \A S, T, U : Before(S, U) /\ Before(T, U) => Before(S \cup T, U)
    BY DEF Before
  <2>8. \A S, T, U : Before(S, T) /\ Before(S, U) => Before(S, T \cup U)
    BY DEF Before
  <2>9. Ascending(u)
    BY <1>2, <2>1, <2>4, <2>5
  <2>10. Ascending(v)
    <3>1. Before(BytesOf(u), BytesOf(p[5]))
      BY <1>2, <2>4, <2>5, <2>6 DEF Before
    <3> QED
      BY <1>4, <2>1, <2>9, <3>1
  <2>11. Before(BytesOf(p[1]), BytesOf(v))
    <3>1. Before(BytesOf(p[1]), BytesOf(u))
      BY <1>2, <2>3 DEF Before
    <3> QED
      BY <1>4, <2>3, <2>8, <3>1
  <2>12. Before(BytesOf(v), BytesOf(p[6]))
    <3>1. Before(BytesOf(u), BytesOf(p[6]))
      BY <1>2, <2>4, <2>5, <2>6 DEF Before
    <3> QED
      BY <1>4, <2>6, <2>7, <3>1
  <2> QED
    BY <1>5, <2>1, <2>3, <2>10, <2>11, <2>12
<1> QED
  BY <1>7, <1>8

LEMMA StoryIs ==
  ASSUME Types
  PROVE  BytesOf(Story) = Known(Parts) /\ (Told(Parts) => Ascending(Story))
<1> DEFINE u == Loaded \o ring \o sending
<1>1. /\ Loaded \in Seq(Byte) /\ ring \in Seq(Byte) /\ sending \in Seq(Byte)
      /\ Flat(due) \in Seq(Byte)
  BY LoadedTyped
<1>2. Loaded \o ring \in Seq(Byte) /\ u \in Seq(Byte)
  BY <1>1, ConcatProperties
<1>3. UnderWay = u \o Flat(due)
  BY UnderWayIs DEF Loaded
<1>a. Mine(Loaded \o ring) = Mine(Loaded) \o Mine(ring)
  BY <1>1, OfConcat DEF Mine
<1>b. Mine((Loaded \o ring) \o sending) = Mine(Loaded \o ring) \o Mine(sending)
  BY <1>1, <1>2, OfConcat DEF Mine
<1>4. Mine(u) = Mine(Loaded) \o Mine(ring) \o Mine(sending)
  BY <1>a, <1>b
<1> HIDE DEF u
<1>5. Mine(u \o Flat(due)) = Mine(u) \o Mine(Flat(due))
  BY <1>1, <1>2, OfConcat DEF Mine
<1>6. OfConnection(UnderWay)
        = Mine(Loaded) \o Mine(ring) \o Mine(sending) \o Mine(Flat(due))
  BY <1>3, <1>4, <1>5, OfConnectionIs DEF Mine
<1> DEFINE p == Parts
<1>7. Story = p[1] \o (p[2] \o p[3] \o p[4] \o p[5]) \o p[6]
  BY <1>6 DEF Story, Parts
<1>8. \A i \in 1 .. 6 : p[i] \in Seq(Nat)
  BY PartsTyped
<1> HIDE DEF p
<1> QED
  BY <1>7, <1>8, SixParts DEF p

(* A step changes two neighbouring parts, and nothing but zeros is new.    *)
Moves(p, q, i) ==
  /\ \A k \in (1 .. 6) \ {i, i + 1} : q[k] = p[k]
  /\ Ascending(q[i]) /\ Ascending(q[i + 1])
  /\ Before(BytesOf(q[i]), BytesOf(q[i + 1]))
  /\ BytesOf(q[i]) \cup BytesOf(q[i + 1])
       \subseteq BytesOf(p[i]) \cup BytesOf(p[i + 1]) \cup {0}

LEMMA Adjacent ==
  ASSUME NEW p, NEW q, NEW i \in 1 .. 5, Moves(p, q, i), Told(p)
  PROVE  Told(q) /\ Known(q) \subseteq Known(p) \cup {0}
<1>1. /\ \A k \in (1 .. 6) \ {i, i + 1} : q[k] = p[k]
      /\ Ascending(q[i]) /\ Ascending(q[i + 1])
      /\ Before(BytesOf(q[i]), BytesOf(q[i + 1]))
      /\ BytesOf(q[i]) \cup BytesOf(q[i + 1])
           \subseteq BytesOf(p[i]) \cup BytesOf(p[i + 1]) \cup {0}
  BY DEF Moves
<1>2. /\ \A k \in 1 .. 6 : Ascending(p[k])
      /\ \A j, k \in 1 .. 6 : j < k => Before(BytesOf(p[j]), BytesOf(p[k]))
  BY DEF Told
<1>3. i \in 1 .. 6 /\ i + 1 \in 1 .. 6
  OBVIOUS
<1>4. \A k \in 1 .. 6 : Ascending(q[k])
  BY <1>1, <1>2
<1>5. ASSUME NEW j \in 1 .. 6, NEW k \in 1 .. 6, j < k
      PROVE  Before(BytesOf(q[j]), BytesOf(q[k]))
  <2>1. CASE j \in {i, i + 1} /\ k \in {i, i + 1}
    <3>1. j = i /\ k = i + 1
      BY <1>5, <2>1
    <3> QED
      BY <1>1, <3>1
  <2>2. CASE j \in {i, i + 1} /\ k \notin {i, i + 1}
    <3>1. q[k] = p[k] /\ i < k /\ i + 1 < k
      BY <1>1, <1>5, <2>2
    <3>2. /\ Before(BytesOf(p[i]), BytesOf(p[k]))
          /\ Before(BytesOf(p[i + 1]), BytesOf(p[k]))
      BY <1>2, <1>3, <3>1
    <3>3. BytesOf(q[j]) \subseteq BytesOf(p[i]) \cup BytesOf(p[i + 1]) \cup {0}
      BY <1>1, <2>2
    <3> QED
      BY <3>1, <3>2, <3>3 DEF Before
  <2>3. CASE j \notin {i, i + 1} /\ k \in {i, i + 1}
    <3>1. q[j] = p[j] /\ j < i /\ j < i + 1
      BY <1>1, <1>5, <2>3
    <3>2. /\ Before(BytesOf(p[j]), BytesOf(p[i]))
          /\ Before(BytesOf(p[j]), BytesOf(p[i + 1]))
      BY <1>2, <1>3, <3>1
    <3>3. BytesOf(q[k]) \subseteq BytesOf(p[i]) \cup BytesOf(p[i + 1]) \cup {0}
      BY <1>1, <2>3
    <3> QED
      BY <3>1, <3>2, <3>3 DEF Before
  <2>4. CASE j \notin {i, i + 1} /\ k \notin {i, i + 1}
    BY <1>1, <1>2, <1>5, <2>4
  <2> QED
    BY <2>1, <2>2, <2>3, <2>4
<1>6. ASSUME NEW k \in 1 .. 6
      PROVE  BytesOf(q[k]) \subseteq Known(p) \cup {0}
  <2>1. \A j \in 1 .. 6 : BytesOf(p[j]) \subseteq Known(p)
    BY DEF Known
  <2> QED
    BY <1>1, <1>3, <2>1
<1>7. Known(q) \subseteq Known(p) \cup {0}
  BY <1>6 DEF Known
<1> QED
  BY <1>4, <1>5, <1>7 DEF Told

(* ... and nothing of the file is missing. *)
LEMMA Kept ==
  ASSUME NEW p, NEW q, NEW i \in 1 .. 5,
         \A k \in (1 .. 6) \ {i, i + 1} : q[k] = p[k],
         NEW S, BytesOf(p[i]) \cup BytesOf(p[i + 1])
                  \subseteq BytesOf(q[i]) \cup BytesOf(q[i + 1]) \cup S
  PROVE  Known(p) \subseteq Known(q) \cup S
<1>1. i \in 1 .. 6 /\ i + 1 \in 1 .. 6
  OBVIOUS
<1>2. \A k \in 1 .. 6 : BytesOf(q[k]) \subseteq Known(q)
  BY DEF Known
<1>3. ASSUME NEW k \in 1 .. 6
      PROVE  BytesOf(p[k]) \subseteq Known(q) \cup S
  BY <1>1, <1>2
<1> QED
  BY <1>3 DEF Known

LEMMA OfOne ==
  ASSUME NEW c, NEW b \in Byte
  PROVE  /\ <<b>> \in Seq(Byte) /\ Of(c, <<b>>) \in Seq(Nat)
         /\ Ascending(Of(c, <<b>>))
         /\ BytesOf(Of(c, <<b>>)) = {IF b.conn = c THEN b.at ELSE 0}
<1> DEFINE x == IF b.conn = c THEN b.at ELSE 0
<1>1. <<b>> \in Seq(Byte)
  OBVIOUS
<1>2. Of(c, <<b>>) = <<x>>
  BY DEF Of
<1>3. Ascending(<<x>>) /\ BytesOf(<<x>>) = {x}
  BY DEF Ascending, BytesOf
<1> QED
  BY <1>1, <1>2, <1>3, OfSeq

LEMMA OfFirst ==
  ASSUME NEW c, NEW w \in Seq(Byte), w # <<>>
  PROVE  /\ Head(w) \in Byte /\ Tail(w) \in Seq(Byte)
         /\ Of(c, w) = Of(c, <<Head(w)>>) \o Of(c, Tail(w))
         /\ BytesOf(Of(c, w))
              = BytesOf(Of(c, <<Head(w)>>)) \cup BytesOf(Of(c, Tail(w)))
         /\ Ascending(Of(c, w))
              => /\ Ascending(Of(c, Tail(w)))
                 /\ Before(BytesOf(Of(c, <<Head(w)>>)),
                           BytesOf(Of(c, Tail(w))))
<1>1. /\ Head(w) \in Byte /\ Tail(w) \in Seq(Byte)
      /\ w = <<Head(w)>> \o Tail(w)
  <2>1. Len(w) \in Nat /\ Len(w) # 0 /\ Head(w) = w[1]
    OBVIOUS
  <2>2. 1 \in 1 .. Len(w) /\ Len(w) \in 1 .. Len(w)
    BY <2>1
  <2>3. SubSeq(w, 1, Len(w)) = <<w[1]>> \o SubSeq(w, 1 + 1, Len(w))
    BY <2>2, SubSeqRecursiveFirst
  <2>4. SubSeq(w, 1 + 1, Len(w)) = Tail(w)
    BY TailIsSubSeq
  <2> QED
    BY <2>1, <2>3, <2>4, HeadTailProperties, SubSeqFull
<1> DEFINE h == <<Head(w)>>
           t == Tail(w)
<1>2. h \in Seq(Byte) /\ Of(c, h) \in Seq(Nat) /\ Of(c, t) \in Seq(Nat)
  BY <1>1, OfOne, OfSeq
<1>4. t \in Seq(Byte) /\ w = h \o t
  BY <1>1
<1> HIDE DEF h, t
<1>3. Of(c, w) = Of(c, h) \o Of(c, t)
  BY <1>2, <1>4, OfConcat
<1>5. BytesOf(Of(c, h) \o Of(c, t)) = BytesOf(Of(c, h)) \cup BytesOf(Of(c, t))
  BY <1>2, BytesOfConcat
<1>6. Ascending(Of(c, h) \o Of(c, t))
        => /\ Ascending(Of(c, t))
           /\ Before(BytesOf(Of(c, h)), BytesOf(Of(c, t)))
  BY <1>2, AscendingConcat
<1>7. /\ Of(c, w) = Of(c, h) \o Of(c, t)
      /\ BytesOf(Of(c, w)) = BytesOf(Of(c, h)) \cup BytesOf(Of(c, t))
      /\ Ascending(Of(c, w))
           => /\ Ascending(Of(c, t))
              /\ Before(BytesOf(Of(c, h)), BytesOf(Of(c, t)))
  BY <1>3, <1>5, <1>6
<1> QED
  BY <1>1, <1>7 DEF h, t

LEMMA FineMoves ==
  ASSUME NEW s, NEW t, NEW p, NEW q, NEW l, NEW k, NEW i \in 1 .. 5,
         Fine(s, p, l), Moves(p, q, i),
         t.open => s.open, Connected(t) => Connected(s),
         Connected(t) /\ ~k
           => ~l /\ BytesOf(p[i]) \cup BytesOf(p[i + 1])
                      \subseteq BytesOf(q[i]) \cup BytesOf(q[i + 1])
                                  \cup Slack
  PROVE  Fine(t, q, k)
<1>1. Told(q) /\ Known(q) \subseteq Known(p) \cup {0}
  BY Adjacent DEF Fine
<1>2. ASSUME t.open
      PROVE  Known(q) \subseteq 0 .. Size
  <2>1. Known(p) \subseteq 0 .. Size /\ 0 \in 0 .. Size
    BY <1>2, ControlAssumption DEF Fine
  <2> QED
    BY <1>1, <2>1
<1>3. ASSUME Connected(t), ~k
      PROVE  (1 .. Size) \ Dropped \subseteq Known(q)
  <2>1. (1 .. Size) \ Dropped \subseteq Known(p)
    BY <1>3 DEF Fine
  <2>2. \A j \in (1 .. 6) \ {i, i + 1} : q[j] = p[j]
    BY DEF Moves
  <2>3. BytesOf(p[i]) \cup BytesOf(p[i + 1])
          \subseteq BytesOf(q[i]) \cup BytesOf(q[i + 1])
                      \cup Slack
    BY <1>3
  <2>4. Known(p) \subseteq Known(q) \cup Slack
    BY <2>2, <2>3, Kept
  <2>5. 0 \notin 1 .. Size /\ Size + 1 \notin 1 .. Size
    BY ControlAssumption
  <2> QED
    BY <2>1, <2>4, <2>5 DEF Slack
<1> QED
  BY <1>1, <1>2, <1>3 DEF Fine

(* A poll leaves the story alone, but for the byte of EOF= at its end.     *)
LEMMA FinePolled ==
  ASSUME NEW s, NEW t, NEW p, NEW q, NEW l, Fine(s, p, l), Shape(s),
         Polled(s, t), p[6] = Available(s), q[6] = Available(t),
         \A k \in 1 .. 5 : q[k] = p[k]
  PROVE  Fine(t, q, l)
<1>1. /\ Available(s) \in Seq(Nat) /\ Available(t) \in Seq(Nat)
      /\ Ascending(Available(t)) /\ (t.open => s.open)
      /\ Connected(t) <=> Connected(s)
  BY AvailableAscends DEF Polled, GoesOn
<1>2. \A k \in 1 .. 6 : k \in 1 .. 5 \/ k = 6
  OBVIOUS
<1>3. CASE Available(t) = Available(s)
  <2>1. \A k \in 1 .. 6 : q[k] = p[k]
    BY <1>2, <1>3
  <2>2. Known(q) = Known(p) /\ (Told(p) => Told(q))
    BY <2>1 DEF Known, Told
  <2> QED
    BY <1>1, <2>2 DEF Fine
<1>4. CASE s.open /\ ~t.open /\ Available(t) = Available(s) \o <<EofByte>>
  <2>1. EofByte \in Nat /\ <<EofByte>> \in Seq(Nat)
        /\ BytesOf(<<EofByte>>) = {EofByte}
        /\ \A b \in 0 .. Size : b < EofByte
    BY ControlAssumption DEF EofByte, BytesOf
  <2>2. BytesOf(q[6]) = BytesOf(p[6]) \cup {EofByte}
    <3>1. BytesOf(Available(s) \o <<EofByte>>)
            = BytesOf(Available(s)) \cup BytesOf(<<EofByte>>)
      BY <1>1, <2>1, BytesOfConcat
    <3> QED
      BY <1>4, <2>1, <3>1
  <2>3. Known(p) \subseteq 0 .. Size /\ Told(p)
    BY <1>4 DEF Fine
  <2>4. Told(q)
    <3>1. \A k \in 1 .. 6 : Ascending(q[k])
      BY <1>1, <1>2, <2>3 DEF Told
    <3>2. ASSUME NEW j \in 1 .. 6, NEW k \in 1 .. 6, j < k
          PROVE  Before(BytesOf(q[j]), BytesOf(q[k]))
      <4>1. j \in 1 .. 5 /\ q[j] = p[j]
        BY <3>2
      <4>2. Before(BytesOf(p[j]), BytesOf(p[k]))
        BY <2>3, <3>2 DEF Told
      <4>3. CASE k \in 1 .. 5
        BY <4>1, <4>2, <4>3
      <4>4. CASE k = 6
        <5>1. BytesOf(p[j]) \subseteq 0 .. Size
          BY <2>3 DEF Known
        <5> QED
          BY <2>1, <2>2, <4>1, <4>2, <4>4, <5>1 DEF Before
      <4> QED
        BY <1>2, <4>3, <4>4
    <3> QED
      BY <3>1, <3>2 DEF Told
  <2>5. Known(p) \subseteq Known(q)
    <3>1. \A k \in 1 .. 6 : BytesOf(p[k]) \subseteq BytesOf(q[k])
      BY <1>2, <2>2
    <3> QED
      BY <3>1 DEF Known
  <2> QED
    BY <1>1, <1>4, <2>4, <2>5 DEF Fine
<1> QED
  BY <1>3, <1>4 DEF Polled

(* The answer to a read takes its bytes from what was still to be read.    *)
LEMMA FineSaid ==
  ASSUME NEW s, NEW t, NEW p, NEW q, NEW l, Fine(s, p, l), Shape(s),
         GoesOn(s, t), p[5] = <<>>, p[6] = Available(s),
         q[6] = Available(t), \A k \in 1 .. 4 : q[k] = p[k],
         \A k \in 1 .. 4 : BytesOf(p[k]) \subseteq 0 .. Size + 2,
         Ascending(q[5]), Said(s, t, q[5])
  PROVE  Fine(t, q, l)
<1>1. /\ Available(s) \in Seq(Nat) /\ Available(t) \in Seq(Nat)
      /\ Ascending(Available(s)) /\ Ascending(Available(t))
      /\ (t.open => s.open) /\ (Connected(t) <=> Connected(s))
      /\ BytesOf(p[5]) = {}
  BY AvailableAscends, EmptyStory DEF GoesOn
<1>2. ASSUME NEW b \in Seq(1 .. Size + 1), b \o Available(t) = Available(s),
             BytesOf(q[5]) \subseteq BytesOf(b) \cup {0},
             Owed(BytesOf(b)) \subseteq BytesOf(q[5])
      PROVE  Fine(t, q, l)
  <2>1. b \in Seq(Nat)
    BY FileStory
  <2>2. /\ BytesOf(p[6]) = BytesOf(b) \cup BytesOf(q[6])
        /\ Before(BytesOf(b), BytesOf(q[6]))
    <3>1. /\ BytesOf(b \o Available(t)) = BytesOf(b) \cup BytesOf(Available(t))
          /\ Ascending(b \o Available(t))
               => Before(BytesOf(b), BytesOf(Available(t)))
      BY <1>1, <2>1, BytesOfConcat, AscendingConcat
    <3> QED
      BY <1>1, <1>2, <3>1
  <2>3. Before(BytesOf(q[5]), BytesOf(q[6]))
    BY <1>2, <2>2 DEF Before
  <2>4. 5 \in 1 .. 5 /\ 5 + 1 = 6 /\ (1 .. 6) \ {5, 6} = 1 .. 4
    OBVIOUS
  <2>5. Moves(p, q, 5)
    BY <1>1, <1>2, <2>2, <2>3, <2>4 DEF Moves
  <2>6. BytesOf(p[5]) \cup BytesOf(p[5 + 1])
          \subseteq BytesOf(q[5]) \cup BytesOf(q[5 + 1]) \cup Slack
    <3>1. BytesOf(b) \subseteq Owed(BytesOf(b)) \cup Slack
      <4>1. BytesOf(b) \subseteq 1 .. Size + 1
        <5>1. \A i \in 1 .. Len(b) : b[i] \in 1 .. Size + 1
          BY ElementOfSeq
        <5>2. DOMAIN b = 1 .. Len(b)
          OBVIOUS
        <5> QED
          BY <5>1, <5>2 DEF BytesOf
      <4>2. \A x \in 1 .. Size + 1 : x \in 1 .. Size \/ x = Size + 1
        BY ControlAssumption
      <4> QED
        BY <4>1, <4>2 DEF Owed, Slack
    <3> QED
      BY <1>1, <1>2, <2>2, <2>4, <3>1
  <2>7. 5 \in 1 .. 5 /\ (t.open => s.open) /\ (Connected(t) => Connected(s))
    BY <1>1
  <2> QED
    BY <2>5, <2>6, <2>7, FineMoves
<1>3. ASSUME Available(s) = <<>>, Available(t) = <<>>, ~t.open,
             BytesOf(q[5]) \subseteq {0, EofLine}
      PROVE  Fine(t, q, l)
  <2>1. p[6] = <<>> /\ q[6] = <<>> /\ BytesOf(q[6]) = {}
    BY <1>3, EmptyStory
  <2>2. \A b \in 0 .. Size + 2 : b < EofLine \/ b = EofLine
    BY ControlAssumption DEF EofLine
  <2>3. \A k \in 1 .. 6 : k \in 1 .. 4 \/ k = 5 \/ k = 6
    OBVIOUS
  <2>4. Told(p)
    BY DEF Fine
  <2>5. Told(q)
    <3>1. \A k \in 1 .. 6 : Ascending(q[k])
      BY <1>1, <2>3, <2>4 DEF Told
    <3>2. ASSUME NEW j \in 1 .. 6, NEW k \in 1 .. 6, j < k
          PROVE  Before(BytesOf(q[j]), BytesOf(q[k]))
      <4>1. CASE k = 6
        BY <2>1, <4>1 DEF Before
      <4>2. CASE k = 5
        <5>1. j \in 1 .. 4 /\ q[j] = p[j]
          BY <3>2, <4>2
        <5>2. BytesOf(p[j]) \subseteq 0 .. Size + 2
          BY <5>1
        <5> QED
          BY <1>3, <2>2, <4>2, <5>1, <5>2 DEF Before
      <4>3. CASE k \in 1 .. 4
        <5>1. j \in 1 .. 4
          BY <3>2, <4>3
        <5> QED
          BY <2>4, <3>2, <4>3, <5>1 DEF Told
      <4> QED
        BY <2>3, <4>1, <4>2, <4>3
    <3> QED
      BY <3>1, <3>2 DEF Told
  <2>6. Known(p) \subseteq Known(q)
    <3>1. \A k \in 1 .. 6 : BytesOf(p[k]) \subseteq BytesOf(q[k])
      BY <1>1, <2>1, <2>3
    <3> QED
      BY <3>1 DEF Known
  <2> QED
    BY <1>1, <1>3, <2>5, <2>6 DEF Fine
<1> QED
  BY <1>2, <1>3 DEF Said

(* A new connection: nothing of it has been said.                          *)
LEMMA FineOpened ==
  ASSUME NEW t, NEW q, NEW l, q[6] = Run(0, Size),
         \A k \in 1 .. 5 : Ascending(q[k]) /\ BytesOf(q[k]) \subseteq {0}
  PROVE  Fine(t, q, l)
<1>1. /\ Ascending(q[6]) /\ BytesOf(q[6]) = 1 .. Size
  <2>1. /\ 0 \in Nat /\ Size \in Nat /\ 0 + Size <= Size /\ 0 + 1 = 1
        /\ 0 + Size = Size
    BY ControlAssumption
  <2>2. Ascending(Run(0, Size)) /\ BytesOf(Run(0, Size)) = 0 + 1 .. 0 + Size
    BY <2>1, RunStory
  <2> QED
    BY <2>1, <2>2
<1>2. \A k \in 1 .. 6 : k \in 1 .. 5 \/ k = 6
  OBVIOUS
<1>3. Told(q)
  <2>1. \A k \in 1 .. 6 : Ascending(q[k])
    BY <1>1, <1>2
  <2>2. ASSUME NEW j \in 1 .. 6, NEW k \in 1 .. 6, j < k
        PROVE  Before(BytesOf(q[j]), BytesOf(q[k]))
    <3>1. j \in 1 .. 5
      BY <2>2
    <3> QED
      BY <3>1 DEF Before
  <2> QED
    BY <2>1, <2>2 DEF Told
<1>4. 1 .. Size \subseteq Known(q)
  <2>1. 6 \in 1 .. 6
    OBVIOUS
  <2>2. BytesOf(q[6]) \subseteq Known(q)
    BY <2>1 DEF Known
  <2> QED
    BY <1>1, <2>2
<1>5. Known(q) \subseteq 0 .. Size
  <2>1. 1 .. Size \subseteq 0 .. Size /\ 0 \in 0 .. Size
    BY ControlAssumption
  <2>2. \A k \in 1 .. 6 : BytesOf(q[k]) \subseteq 0 .. Size
    BY <1>1, <1>2, <2>1
  <2> QED
    BY <2>2 DEF Known
<1> QED
  BY <1>3, <1>4, <1>5 DEF Fine

(***************************************************************************)
(* Steps that leave the stream alone.                                      *)
(***************************************************************************)
LEMMA PartsAre ==
  /\ Parts[1] = heard /\ Parts[2] = Mine(Loaded) /\ Parts[3] = Mine(ring)
  /\ Parts[4] = Mine(sending) /\ Parts[5] = Mine(Flat(due))
  /\ Parts[6] = Available(stream)
BY DEF Parts

LEMMA FineStep ==
  ASSUME Fine(stream', Parts', lost')
  PROVE  Fine(stream, Parts, lost)'
BY DEF Fine, Told, Known, Connected, Ascending, BytesOf, Before

LEMMA PartsNext ==
  LET c == stream'.conn
  IN  /\ Parts'[1] = heard' /\ Parts'[2] = Of(c, Loaded')
      /\ Parts'[3] = Of(c, ring') /\ Parts'[4] = Of(c, sending')
      /\ Parts'[5] = Of(c, Flat(due')) /\ Parts'[6] = Available(stream')
BY DEF Parts, Mine

LEMMA LoadedNext == Loaded' = IF done' THEN <<tkb'>> ELSE <<>>
BY DEF Loaded

LEMMA StoryRests ==
  ASSUME Stories, UNCHANGED <<heard, tkb, done, ring, sending, due, stream, lost>>
  PROVE  Fine(stream, Parts, lost)'
<1>1. Parts' = Parts
  BY DEF Parts, Mine, Loaded
<1> QED
  BY <1>1, FineStep DEF Stories

LEMMA SameStream ==
  ASSUME Stories, UNCHANGED stream, NEW i \in 1 .. 5,
         Moves(Parts, Parts', i),
         Connected(stream) /\ ~lost'
           => ~lost /\ BytesOf(Parts[i]) \cup BytesOf(Parts[i + 1])
                         \subseteq BytesOf(Parts'[i]) \cup BytesOf(Parts'[i + 1])
                                     \cup Slack
  PROVE  Fine(stream, Parts, lost)'
<1> DEFINE p == Parts
           q == Parts'
<1>1. Fine(stream, p, lost) /\ stream' = stream
  BY DEF Stories
<1>2. Fine(stream', q, lost')
  BY <1>1, FineMoves
<1> QED
  BY <1>2, FineStep

LEMMA OfLast ==
  ASSUME NEW c, NEW w \in Seq(Byte), NEW b \in Byte
  PROVE  /\ BytesOf(Of(c, Append(w, b))) = BytesOf(Of(c, w)) \cup BytesOf(Of(c, <<b>>))
         /\ Ascending(Of(c, w)) /\ Before(BytesOf(Of(c, w)), BytesOf(Of(c, <<b>>)))
              => Ascending(Of(c, Append(w, b)))
<1>1. Append(w, b) = w \o <<b>>
  BY AppendIsConcat
<1>2. /\ <<b>> \in Seq(Byte) /\ Of(c, <<b>>) \in Seq(Nat)
      /\ Of(c, w) \in Seq(Nat) /\ Ascending(Of(c, <<b>>))
  BY OfOne, OfSeq
<1>3. Of(c, w \o <<b>>) = Of(c, w) \o Of(c, <<b>>)
  BY <1>2, OfConcat
<1>4. /\ BytesOf(Of(c, w) \o Of(c, <<b>>))
           = BytesOf(Of(c, w)) \cup BytesOf(Of(c, <<b>>))
      /\ Ascending(Of(c, w)) /\ Before(BytesOf(Of(c, w)), BytesOf(Of(c, <<b>>)))
           => Ascending(Of(c, w) \o Of(c, <<b>>))
  BY <1>2, BytesOfConcat, AscendingConcat
<1> QED
  BY <1>1, <1>3, <1>4

LEMMA FlatTail ==
  ASSUME NEW c, NEW d \in Seq(Seq(Byte)), d # <<>>, Len(d) <= 3
  PROVE  /\ Head(d) \in Seq(Byte) /\ Tail(d) \in Seq(Seq(Byte))
         /\ BytesOf(Of(c, Flat(d)))
              = BytesOf(Of(c, Head(d))) \cup BytesOf(Of(c, Flat(Tail(d))))
         /\ Ascending(Of(c, Flat(d)))
              => /\ Ascending(Of(c, Head(d))) /\ Ascending(Of(c, Flat(Tail(d))))
                 /\ Before(BytesOf(Of(c, Head(d))),
                           BytesOf(Of(c, Flat(Tail(d)))))
<1> DEFINE t == Tail(d)
           x == Of(c, Nth(d, 1))
           y == Of(c, Nth(d, 2))
           z == Of(c, Nth(d, 3))
<1>1. /\ Head(d) \in Seq(Byte) /\ t \in Seq(Seq(Byte)) /\ Len(t) = Len(d) - 1
      /\ \A i \in 1 .. Len(t) : t[i] = d[i + 1]
  BY HeadTailProperties
<1>2. /\ Len(d) \in Nat /\ Len(d) # 0 /\ Head(d) = d[1]
      /\ DOMAIN d = 1 .. Len(d)
  BY EmptySeq
<1>3. DOMAIN t = 1 .. Len(t) /\ Len(t) \in Nat
  BY <1>1
<1> HIDE DEF t
<1>4. Nth(d, 1) = Head(d)
  BY <1>2 DEF Nth
<1>5. Nth(t, 1) = Nth(d, 2) /\ Nth(t, 2) = Nth(d, 3) /\ Nth(t, 3) = <<>>
  <2>1. ASSUME NEW i \in 1 .. 3
        PROVE  Nth(t, i) = Nth(d, i + 1)
    <3>1. i \in DOMAIN t <=> i + 1 \in DOMAIN d
      BY <1>1, <1>2, <1>3
    <3>2. i \in DOMAIN t => t[i] = d[i + 1]
      BY <1>1, <1>3
    <3> QED
      BY <3>1, <3>2 DEF Nth
  <2>2. 1 \in 1 .. 3 /\ 2 \in 1 .. 3 /\ 3 \in 1 .. 3
        /\ 1 + 1 = 2 /\ 2 + 1 = 3 /\ 3 + 1 = 4
    OBVIOUS
  <2>3. Nth(d, 4) = <<>>
    <3>1. 4 \notin DOMAIN d
      BY <1>2
    <3> QED
      BY <3>1 DEF Nth
  <2> QED
    BY <2>1, <2>2, <2>3
<1>6. /\ Of(c, Flat(d)) = x \o y \o z
      /\ x \in Seq(Nat) /\ y \in Seq(Nat) /\ z \in Seq(Nat)
  BY FlatOf
<1>7. Of(c, Flat(t)) = y \o z \o <<>>
  <2>1. Of(c, Flat(t)) = Of(c, Nth(t, 1)) \o Of(c, Nth(t, 2))
                           \o Of(c, Nth(t, 3))
    BY <1>1, FlatOf
  <2> QED
    BY <1>5, <2>1, OfEmpty
<1>8. x = Of(c, Head(d))
  BY <1>4
<1> HIDE DEF x, y, z
<1>9. y \o z \o <<>> = y \o z /\ y \o z \in Seq(Nat)
  <2>1. y \o z \in Seq(Nat)
    BY <1>6, ConcatProperties
  <2>2. \A w \in Seq(Nat) : w \o <<>> = w
    BY ConcatEmptySeq
  <2> QED
    BY <2>1, <2>2
<1>10. /\ BytesOf(x \o y \o z) = BytesOf(x) \cup BytesOf(y) \cup BytesOf(z)
       /\ Ascending(x \o y \o z)
            <=> /\ Ascending(x) /\ Ascending(y) /\ Ascending(z)
                /\ Before(BytesOf(x), BytesOf(y))
                /\ Before(BytesOf(x), BytesOf(z))
                /\ Before(BytesOf(y), BytesOf(z))
  BY <1>6, Concat3
<1>11. /\ BytesOf(y \o z) = BytesOf(y) \cup BytesOf(z)
       /\ Ascending(y \o z)
            <=> /\ Ascending(y) /\ Ascending(z)
                /\ Before(BytesOf(y), BytesOf(z))
  BY <1>6, BytesOfConcat, AscendingConcat
<1>12. ASSUME Ascending(x \o y \o z)
       PROVE  Before(BytesOf(x), BytesOf(y \o z))
  BY <1>10, <1>11, <1>12 DEF Before
<1> QED
  BY <1>1, <1>6, <1>7, <1>8, <1>9, <1>10, <1>11, <1>12 DEF t

LEMMA PushStory ==
  ASSUME Types, Stories, Push
  PROVE  Fine(stream, Parts, lost)'
<1> DEFINE c == stream.conn
           p == Parts
           q == Parts'
           h == Head(sending)
           t == Tail(sending)
<1>1. /\ sending # <<>> /\ ring' = Append(ring, h) /\ sending' = t
      /\ UNCHANGED <<heard, tkb, done, due, stream, lost>>
  BY DEF Push, receiverVars
<1>2. sending \in Seq(Byte) /\ ring \in Seq(Byte)
  BY LoadedTyped
<1>3. /\ p[3] = Of(c, ring) /\ p[4] = Of(c, sending)
      /\ q[3] = Of(c, Append(ring, h)) /\ q[4] = Of(c, t)
      /\ \A k \in (1 .. 6) \ {3, 4} : q[k] = p[k]
  BY <1>1 DEF Parts, Mine, Loaded
<1>4. /\ Ascending(p[3]) /\ Ascending(p[4])
      /\ Before(BytesOf(p[3]), BytesOf(p[4]))
  BY DEF Stories, Fine, Told
<1>5. /\ h \in Byte
      /\ BytesOf(Of(c, sending)) = BytesOf(Of(c, <<h>>)) \cup BytesOf(Of(c, t))
      /\ Ascending(Of(c, sending))
           => /\ Ascending(Of(c, t))
              /\ Before(BytesOf(Of(c, <<h>>)), BytesOf(Of(c, t)))
  BY <1>1, <1>2, OfFirst
<1>6. /\ BytesOf(Of(c, Append(ring, h)))
           = BytesOf(Of(c, ring)) \cup BytesOf(Of(c, <<h>>))
      /\ Ascending(Of(c, ring)) /\ Before(BytesOf(Of(c, ring)), BytesOf(Of(c, <<h>>)))
           => Ascending(Of(c, Append(ring, h)))
  BY <1>2, <1>5, OfLast
<1> HIDE DEF p, q, h, t
<1>7. /\ Before(BytesOf(Of(c, ring)), BytesOf(Of(c, <<h>>)))
      /\ Before(BytesOf(q[3]), BytesOf(q[4]))
  BY <1>3, <1>4, <1>5, <1>6 DEF Before
<1>8. 3 \in 1 .. 5 /\ 3 + 1 = 4
  OBVIOUS
<1>9. Moves(p, q, 3)
  BY <1>3, <1>4, <1>5, <1>6, <1>7, <1>8 DEF Moves
<1>10. BytesOf(p[3]) \cup BytesOf(p[3 + 1])
         \subseteq BytesOf(q[3]) \cup BytesOf(q[3 + 1]) \cup Slack
  BY <1>3, <1>5, <1>6, <1>8
<1> QED
  BY <1>1, <1>8, <1>9, <1>10, SameStream DEF p, q

LEMMA ReadStory ==
  ASSUME Types, Stories, ReadTKB
  PROVE  Fine(stream, Parts, lost)'
<1> DEFINE c == stream.conn
           p == Parts
           q == Parts'
           x == IF tkb.conn = c THEN tkb.at ELSE 0
<1>1. /\ done /\ done' = FALSE /\ UNCHANGED <<ring, sending, due, stream, lost>>
      /\ heard' = IF tkb.at # 0 /\ tkb.conn = c THEN Append(heard, tkb.at)
                  ELSE heard
  BY DEF ReadTKB
<1>2. tkb \in Byte /\ tkb.at \in Nat
  BY ControlAssumption DEF Types, TypeAnswers, Byte
<1>3. /\ p[1] = heard /\ p[2] = Of(c, <<tkb>>) /\ q[1] = heard'
      /\ q[2] = Of(c, <<>>) /\ \A k \in (1 .. 6) \ {1, 2} : q[k] = p[k]
  BY <1>1 DEF Parts, Mine, Loaded
<1>4. p[1] \in Seq(Nat)
  BY PartsTyped
<1>5. /\ Ascending(p[1]) /\ Ascending(p[2])
      /\ Before(BytesOf(p[1]), BytesOf(p[2]))
  BY DEF Stories, Fine, Told
<1>6. BytesOf(Of(c, <<tkb>>)) = {x} /\ q[2] = <<>> /\ BytesOf(<<>>) = {}
      /\ Ascending(<<>>)
  BY <1>2, <1>3, OfOne, OfEmpty, EmptyStory
<1> HIDE DEF p, q
<1>7. /\ Ascending(q[1]) /\ BytesOf(q[1]) \subseteq BytesOf(p[1]) \cup {x, 0}
      /\ BytesOf(p[1]) \cup {x} \subseteq BytesOf(q[1]) \cup {0}
  <2>1. CASE tkb.at # 0 /\ tkb.conn = c
    <3>1. q[1] = p[1] \o <<tkb.at>> /\ x = tkb.at
      BY <1>1, <1>2, <1>3, <1>4, <2>1, AppendIsConcat
    <3>2. /\ <<tkb.at>> \in Seq(Nat) /\ Ascending(<<tkb.at>>)
          /\ BytesOf(<<tkb.at>>) = {tkb.at}
      BY <1>2 DEF Ascending, BytesOf
    <3>3. Before(BytesOf(p[1]), {tkb.at})
      BY <1>3, <1>5, <1>6, <3>1
    <3>4. /\ BytesOf(p[1] \o <<tkb.at>>) = BytesOf(p[1]) \cup BytesOf(<<tkb.at>>)
          /\ Ascending(p[1] \o <<tkb.at>>)
      BY <1>4, <1>5, <3>2, <3>3, BytesOfConcat, AscendingConcat
    <3> QED
      BY <3>1, <3>2, <3>4
  <2>2. CASE ~ (tkb.at # 0 /\ tkb.conn = c)
    <3>1. q[1] = p[1] /\ x = 0
      BY <1>1, <1>3, <2>2
    <3> QED
      BY <1>5, <3>1
  <2> QED
    BY <2>1, <2>2
<1>8. 1 \in 1 .. 5 /\ 1 + 1 = 2
  OBVIOUS
<1>9. Before(BytesOf(q[1]), BytesOf(q[2]))
  BY <1>6 DEF Before
<1>10. Moves(p, q, 1)
  BY <1>3, <1>6, <1>7, <1>8, <1>9 DEF Moves
<1>11. BytesOf(p[1]) \cup BytesOf(p[1 + 1])
         \subseteq BytesOf(q[1]) \cup BytesOf(q[1 + 1]) \cup Slack
  BY <1>3, <1>6, <1>7, <1>8 DEF Slack
<1> QED
  BY <1>1, <1>8, <1>10, <1>11, SameStream DEF p, q

(* A byte is cleared that the guest has not read. *)
LEMMA ClearDoneStory ==
  ASSUME Types, Stories, ClearDone
  PROVE  Fine(stream, Parts, lost)'
<1> DEFINE c == stream.conn
           p == Parts
           q == Parts'
           x == IF tkb.conn = c THEN tkb.at ELSE 0
<1>1. /\ done /\ done' = FALSE
      /\ UNCHANGED <<heard, ring, sending, due, stream>>
      /\ lost' = (lost \/ (tkb.at # 0 /\ tkb.conn = c))
  BY DEF ClearDone
<1>2. tkb \in Byte
  BY DEF Types, TypeAnswers
<1>3. /\ p[2] = Of(c, <<tkb>>) /\ q[2] = Of(c, <<>>)
      /\ \A k \in (1 .. 6) \ {2} : q[k] = p[k]
  BY <1>1 DEF Parts, Mine, Loaded
<1>4. Ascending(p[1])
  BY DEF Stories, Fine, Told
<1>5. BytesOf(p[2]) = {x} /\ q[2] = <<>> /\ BytesOf(<<>>) = {}
      /\ Ascending(<<>>)
  BY <1>2, <1>3, OfOne, OfEmpty, EmptyStory
<1>6. ~lost' => ~lost /\ x = 0
  BY <1>1
<1> HIDE DEF p, q, x
<1>7. 1 \in 1 .. 5 /\ 1 + 1 = 2
  OBVIOUS
<1>8. Before(BytesOf(q[1]), BytesOf(q[2])) /\ q[1] = p[1]
  BY <1>3, <1>5 DEF Before
<1>9. Moves(p, q, 1)
  BY <1>3, <1>4, <1>5, <1>7, <1>8 DEF Moves
<1>10. ~lost' => /\ ~lost
                 /\ BytesOf(p[1]) \cup BytesOf(p[1 + 1])
                      \subseteq BytesOf(q[1]) \cup BytesOf(q[1 + 1])
                                  \cup Slack
  BY <1>5, <1>6, <1>7, <1>8 DEF Slack
<1> QED
  BY <1>1, <1>7, <1>9, <1>10, SameStream DEF p, q

(* A byte is loaded when none is. *)
LEMMA LoadAnswerStory ==
  ASSUME Types, Stories, LoadAnswer, ~done, ring # <<>>,
         UNCHANGED <<heard, sending, due, stream, lost>>
  PROVE  Fine(stream, Parts, lost)'
<1> DEFINE c == stream.conn
           p == Parts
           q == Parts'
           h == Head(ring)
           t == Tail(ring)
<1>1. tkb' = h /\ done' = TRUE /\ ring' = t
  BY DEF LoadAnswer
<1>2. ring \in Seq(Byte)
  BY LoadedTyped
<1>3. /\ p[2] = Of(c, <<>>) /\ p[3] = Of(c, ring)
      /\ q[2] = Of(c, <<h>>) /\ q[3] = Of(c, t)
      /\ \A k \in (1 .. 6) \ {2, 3} : q[k] = p[k]
  BY <1>1 DEF Parts, Mine, Loaded
<1>4. Ascending(p[3])
  BY DEF Stories, Fine, Told
<1>5. /\ h \in Byte
      /\ BytesOf(Of(c, ring)) = BytesOf(Of(c, <<h>>)) \cup BytesOf(Of(c, t))
      /\ Ascending(Of(c, ring))
           => /\ Ascending(Of(c, t))
              /\ Before(BytesOf(Of(c, <<h>>)), BytesOf(Of(c, t)))
  BY <1>2, OfFirst
<1>6. Ascending(Of(c, <<h>>)) /\ BytesOf(p[2]) = {}
  BY <1>3, <1>5, OfOne, OfEmpty, EmptyStory
<1> HIDE DEF p, q, h, t
<1>8. 2 \in 1 .. 5 /\ 2 + 1 = 3
  OBVIOUS
<1>9. Moves(p, q, 2)
  BY <1>3, <1>4, <1>5, <1>6, <1>8 DEF Moves
<1>10. BytesOf(p[2]) \cup BytesOf(p[2 + 1])
         \subseteq BytesOf(q[2]) \cup BytesOf(q[2 + 1]) \cup Slack
  BY <1>3, <1>5, <1>6, <1>8
<1> QED
  BY <1>8, <1>9, <1>10, SameStream DEF p, q

LEMMA LoadKeyStory ==
  ASSUME Types, Stories, LoadKey, ~done,
         UNCHANGED <<heard, sending, due, stream, lost>>
  PROVE  Fine(stream, Parts, lost)'
<1> DEFINE c == stream.conn
           p == Parts
           q == Parts'
<1>1. tkb' = Key /\ done' = TRUE /\ ring' = ring
  BY DEF LoadKey
<1>3. /\ p[2] = Of(c, <<>>) /\ q[2] = Of(c, <<Key>>)
      /\ \A k \in (1 .. 6) \ {2} : q[k] = p[k]
  BY <1>1 DEF Parts, Mine, Loaded
<1>4. Ascending(p[3])
  BY DEF Stories, Fine, Told
<1>5. Key \in Byte /\ Key.at = 0
  BY ControlAssumption DEF Key, Byte
<1>6. /\ Ascending(Of(c, <<Key>>)) /\ BytesOf(Of(c, <<Key>>)) = {0}
      /\ BytesOf(p[2]) = {}
  BY <1>3, <1>5, OfOne, OfEmpty, EmptyStory
<1> HIDE DEF p, q
<1>7. Before(BytesOf(q[2]), BytesOf(q[3])) /\ q[3] = p[3]
  BY <1>3, <1>6 DEF Before
<1>8. 2 \in 1 .. 5 /\ 2 + 1 = 3
  OBVIOUS
<1>9. Moves(p, q, 2)
  BY <1>3, <1>4, <1>6, <1>7, <1>8 DEF Moves
<1>10. BytesOf(p[2]) \cup BytesOf(p[2 + 1])
         \subseteq BytesOf(q[2]) \cup BytesOf(q[2 + 1]) \cup Slack
  BY <1>6, <1>7, <1>8
<1> QED
  BY <1>8, <1>9, <1>10, SameStream DEF p, q

LEMMA QueueStory ==
  ASSUME Types, Stories, QueueAnswer
  PROVE  Fine(stream, Parts, lost)'
<1> DEFINE c == stream.conn
           p == Parts
           q == Parts'
           h == Head(due)
           t == Tail(due)
<1>1. /\ sending = <<>> /\ due # <<>> /\ due' = t
      /\ UNCHANGED <<heard, tkb, done, ring, stream>>
  BY DEF QueueAnswer, receiverVars
<1>2. due \in Seq(Seq(Byte)) /\ Len(due) <= 3
  BY DEF Types, TypeDue
<1>3. /\ p[4] = Of(c, <<>>) /\ p[5] = Of(c, Flat(due))
      /\ q[4] = Of(c, sending') /\ q[5] = Of(c, Flat(t))
      /\ \A k \in (1 .. 6) \ {4, 5} : q[k] = p[k]
  BY <1>1 DEF Parts, Mine, Loaded
<1>4. Ascending(p[5])
  BY DEF Stories, Fine, Told
<1>5. /\ h \in Seq(Byte)
      /\ BytesOf(Of(c, Flat(due))) = BytesOf(Of(c, h)) \cup BytesOf(Of(c, Flat(t)))
      /\ Ascending(Of(c, Flat(due)))
           => /\ Ascending(Of(c, h)) /\ Ascending(Of(c, Flat(t)))
              /\ Before(BytesOf(Of(c, h)), BytesOf(Of(c, Flat(t))))
  BY <1>1, <1>2, FlatTail
<1>6. Of(c, <<>>) = <<>> /\ BytesOf(<<>>) = {} /\ Ascending(<<>>)
  BY OfEmpty, EmptyStory
<1>7. \/ sending' = h /\ lost' = lost
      \/ /\ sending' = <<>>
         /\ lost' = (lost \/ \E i \in DOMAIN h : h[i].at # 0 /\ h[i].conn = c)
  BY <1>1 DEF QueueAnswer
<1> HIDE DEF p, q, h, t, c
<1>8. 4 \in 1 .. 5 /\ 4 + 1 = 5
  OBVIOUS
<1>9. CASE sending' = h /\ lost' = lost
  <2>1. q[4] = Of(c, h)
    BY <1>3, <1>9
  <2>2. Moves(p, q, 4)
    BY <1>3, <1>4, <1>5, <1>8, <2>1 DEF Moves
  <2>3. BytesOf(p[4]) \cup BytesOf(p[4 + 1])
          \subseteq BytesOf(q[4]) \cup BytesOf(q[4 + 1]) \cup Slack
    BY <1>3, <1>5, <1>6, <1>8, <2>1
  <2> QED
    BY <1>1, <1>8, <1>9, <2>2, <2>3, SameStream DEF p, q
<1>10. CASE /\ sending' = <<>>
            /\ lost' = (lost \/ \E i \in DOMAIN h : h[i].at # 0 /\ h[i].conn = c)
  <2>1. q[4] = <<>>
    BY <1>3, <1>6, <1>10
  <2>2. Before(BytesOf(q[4]), BytesOf(q[5]))
    BY <1>6, <2>1 DEF Before
  <2>3. Moves(p, q, 4)
    BY <1>3, <1>4, <1>5, <1>6, <1>8, <2>1, <2>2 DEF Moves
  <2>4. ASSUME ~lost'
        PROVE  ~lost /\ BytesOf(p[4]) \cup BytesOf(p[4 + 1])
                 \subseteq BytesOf(q[4]) \cup BytesOf(q[4 + 1])
                             \cup Slack
    <3>1. ~lost /\ \A i \in DOMAIN h : h[i].at = 0 \/ h[i].conn # c
      BY <1>10, <2>4
    <3>2. BytesOf(Of(c, h)) \subseteq {0}
      BY <3>1 DEF BytesOf, Of
    <3> QED
      BY <1>3, <1>5, <1>6, <1>8, <3>1, <3>2 DEF Slack
  <2> QED
    BY <1>1, <1>8, <2>3, <2>4, SameStream DEF p, q
<1> QED
  BY <1>7, <1>9, <1>10

LEMMA ClearStory ==
  ASSUME Types, Stories, ClearAnswers
  PROVE  Fine(stream, Parts, lost)'
<1> DEFINE c == stream.conn
           p == Parts
           q == Parts'
<1>1. /\ ring' = <<>> /\ lost' = TRUE
      /\ UNCHANGED <<heard, tkb, done, sending, due, stream>>
  BY DEF ClearAnswers
<1>2. /\ q[3] = Of(c, <<>>) /\ \A k \in (1 .. 6) \ {3} : q[k] = p[k]
  BY <1>1 DEF Parts, Mine, Loaded
<1>3. Ascending(p[4])
  BY DEF Stories, Fine, Told
<1>4. q[3] = <<>> /\ BytesOf(<<>>) = {} /\ Ascending(<<>>)
  BY <1>2, OfEmpty, EmptyStory
<1> HIDE DEF p, q
<1>5. Before(BytesOf(q[3]), BytesOf(q[4])) /\ q[4] = p[4]
  BY <1>2, <1>4 DEF Before
<1>6. 3 \in 1 .. 5 /\ 3 + 1 = 4
  OBVIOUS
<1>7. Moves(p, q, 3)
  BY <1>2, <1>3, <1>4, <1>5, <1>6 DEF Moves
<1> QED
  BY <1>1, <1>6, <1>7, SameStream DEF p, q

LEMMA ResetStory ==
  ASSUME Types, Stories, ResetMachine
  PROVE  Fine(stream, Parts, lost)'
<1> DEFINE c == stream.conn
           p == Parts
           q == Parts'
<1>1. /\ heard' = <<>> /\ done' = FALSE /\ boot = "reset"
      /\ UNCHANGED <<tkb, ring, sending, due, stream, lost>>
  BY DEF ResetMachine
<1>2. /\ q[1] = <<>> /\ q[2] = Of(c, <<>>)
      /\ \A k \in (1 .. 6) \ {1, 2} : q[k] = p[k]
  BY <1>1 DEF Parts, Mine, Loaded
<1>3. ~Connected(stream)
  BY <1>1 DEF Stories, BootCloses
<1>4. q[2] = <<>> /\ BytesOf(<<>>) = {} /\ Ascending(<<>>)
  BY <1>2, OfEmpty, EmptyStory
<1> HIDE DEF p, q
<1>5. Before(BytesOf(q[1]), BytesOf(q[2]))
  BY <1>4 DEF Before
<1>6. 1 \in 1 .. 5 /\ 1 + 1 = 2
  OBVIOUS
<1>7. Moves(p, q, 1)
  BY <1>2, <1>4, <1>5, <1>6 DEF Moves
<1> QED
  BY <1>1, <1>3, <1>6, <1>7, SameStream DEF p, q

(***************************************************************************)
(* Steps of the main loop.                                                 *)
(***************************************************************************)
LEMMA FlatEmpty == \A c : Of(c, Flat(<<>>)) = <<>>
<1>1. Flat(<<>>) = <<>> \o <<>> \o <<>>
  BY DEF Flat, Nth
<1>2. <<>> \o <<>> \o <<>> = <<>>
  OBVIOUS
<1> QED
  BY <1>1, <1>2, OfEmpty

LEMMA QuietZero ==
  ASSUME NEW d, Quiet(d)
  PROVE  /\ BytesOf(Of(stream.conn, Flat(d))) \subseteq {0}
         /\ Ascending(Of(stream.conn, Flat(d)))
BY FlatZero DEF Quiet, Silent

LEMMA QuietOther ==
  ASSUME NEW d, Quiet(d), NEW c, c # stream.conn
  PROVE  BytesOf(Of(c, Flat(d))) \subseteq {0} /\ Ascending(Of(c, Flat(d)))
<1>1. \A i \in DOMAIN d : BytesOf(Of(c, d[i])) \subseteq {0}
  BY OtherConnection DEF Quiet, Silent
<1> QED
  BY <1>1, FlatZero DEF Quiet

(* The story once TT1 has read ahead, when no answer is due.               *)
AheadOf(p, s) == [k \in 1 .. 6 |-> IF k = 6 THEN Available(s) ELSE p[k]]

LEMMA AheadFine ==
  ASSUME Types, Stories, NEW s, Polled(stream, s)
  PROVE  Fine(s, AheadOf(Parts, s), lost)
<1> DEFINE p == Parts
           r == AheadOf(Parts, s)
<1>1. Fine(stream, p, lost) /\ Shape(stream)
  BY DEF Stories, Types
<1>2. p[6] = Available(stream)
  BY PartsAre
<1>3. r[6] = Available(s) /\ \A k \in 1 .. 5 : r[k] = p[k]
  BY DEF AheadOf
<1> HIDE DEF p, r
<1>4. Fine(s, r, lost)
  BY <1>1, <1>2, <1>3, FinePolled
<1> QED
  BY <1>4 DEF r

LEMMA PollStory ==
  ASSUME Types, Stories, PollStream
  PROVE  Fine(stream, Parts, lost)'
<1> DEFINE c == stream.conn
           q == Parts'
           r == AheadOf(Parts, stream')
<1>1. /\ due = <<>> /\ UNCHANGED <<heard, tkb, done, ring, sending, lost>>
  BY DEF PollStream, Idle, receiverVars
<1>2. Shape(stream)
  BY DEF Types
<1>3. /\ Polled(stream, stream') /\ Quiet(due') /\ stream'.conn = c
      /\ Shape(stream')
  BY <1>2, PollStreamOf DEF Polled, GoesOn
<1>4. Fine(stream', r, lost)
  BY <1>3, AheadFine
<1>5. /\ r[5] = Of(c, Flat(<<>>)) /\ r[6] = Available(stream')
      /\ q[5] = Of(c, Flat(due')) /\ q[6] = r[6]
      /\ \A k \in 1 .. 4 : q[k] = r[k]
  BY <1>1, <1>3 DEF Parts, Mine, Loaded, AheadOf
<1>6. Ascending(q[6])
  BY <1>3, <1>5, AvailableAscends
<1>7. BytesOf(q[5]) \subseteq {0} /\ Ascending(q[5]) /\ BytesOf(r[5]) = {}
  BY <1>3, <1>5, QuietZero, FlatEmpty, EmptyStory
<1> HIDE DEF q, r
<1>8. 5 \in 1 .. 5 /\ 5 + 1 = 6 /\ (1 .. 6) \ {5, 6} = 1 .. 4
  OBVIOUS
<1>9. Before(BytesOf(q[5]), BytesOf(q[6]))
  BY <1>7 DEF Before
<1>10. Moves(r, q, 5)
  BY <1>5, <1>6, <1>7, <1>8, <1>9 DEF Moves
<1>11. BytesOf(r[5]) \cup BytesOf(r[5 + 1])
         \subseteq BytesOf(q[5]) \cup BytesOf(q[5 + 1]) \cup Slack
  BY <1>5, <1>7, <1>8
<1>12. Fine(stream', q, lost')
  BY <1>1, <1>4, <1>8, <1>10, <1>11, FineMoves
<1> QED
  BY <1>12, FineStep DEF q

(* The connection is closed. *)
LEMMA FineClosed ==
  ASSUME NEW s, NEW t, NEW p, NEW q, NEW l, NEW k, Fine(s, p, l),
         ~Connected(t), q[6] = <<>>, \A j \in 1 .. 4 : q[j] = p[j],
         BytesOf(q[5]) \subseteq {0}, Ascending(q[5])
  PROVE  Fine(t, q, k)
<1>1. BytesOf(<<>>) = {} /\ Ascending(<<>>)
  BY EmptyStory
<1>2. 5 \in 1 .. 5 /\ 5 + 1 = 6 /\ (1 .. 6) \ {5, 6} = 1 .. 4
  OBVIOUS
<1>3. Before(BytesOf(q[5]), BytesOf(q[6]))
  BY <1>1 DEF Before
<1>4. Moves(p, q, 5)
  BY <1>1, <1>2, <1>3 DEF Moves
<1>5. (t.open => s.open) /\ (Connected(t) => Connected(s))
  BY DEF Connected
<1> QED
  BY <1>2, <1>4, <1>5, FineMoves

LEMMA CommandStory ==
  ASSUME Types, Stories, PollCommand
  PROVE  Fine(stream, Parts, lost)'
<1> DEFINE c == stream.conn
           p == Parts
           q == Parts'
<1>1. /\ due = <<>> /\ sending = <<>> /\ UNCHANGED <<tkb, done, ring, sending>>
      /\ heard' = IF stream'.conn = c THEN heard ELSE <<>>
      /\ lost' = (lost /\ stream'.conn = c)
  BY DEF PollCommand, Idle
<1>2. /\ Shape(stream) /\ commands \in Seq(Command) /\ lost \in BOOLEAN
      /\ c \in Nat
  BY DEF Types, TypeCommands, TypeControl, Shape, Stream
<1>3. PICK s : /\ Polled(stream, s)
               /\ \/ GoesOn(s, stream') /\ Queued(s, stream', due')
                  \/ /\ Quiet(due')
                     /\ \E mark, notify \in BOOLEAN :
                          stream' = Opened(stream.conn + 1, mark, notify)
                  \/ Quiet(due') /\ stream' = Disconnected(stream.conn)
  BY <1>2, PollCommandOf
<1> DEFINE r == AheadOf(Parts, s)
<1>4. Fine(s, r, lost) /\ Shape(s) /\ s.conn = c
  BY <1>3, AheadFine DEF Polled, GoesOn
<1>5. /\ r[5] = Of(c, Flat(<<>>)) /\ r[6] = Available(s)
      /\ \A k \in 1 .. 5 : r[k] = p[k]
      /\ q[5] = Of(stream'.conn, Flat(due')) /\ q[6] = Available(stream')
  BY <1>1 DEF Parts, Mine, AheadOf
<1>6. ASSUME stream'.conn = c
      PROVE  lost' = lost /\ \A k \in 1 .. 4 : q[k] = r[k]
  BY <1>1, <1>2, <1>6 DEF Parts, Mine, Loaded, AheadOf
<1>7. \A k \in 1 .. 4 : BytesOf(r[k]) \subseteq 0 .. Size + 2
  <2>1. \A k \in 1 .. 5 : BytesOf(p[k]) \subseteq 0 .. Size + 2
    BY PartsTyped
  <2> HIDE DEF p, r
  <2> QED
    BY <1>5, <2>1
<1>8. r[5] = <<>>
  BY <1>5, FlatEmpty
<1>9. CASE GoesOn(s, stream') /\ Queued(s, stream', due')
  <2>1. stream'.conn = c
    BY <1>4, <1>9 DEF GoesOn
  <2>2. Ascending(q[5]) /\ Said(s, stream', q[5])
    BY <1>5, <1>9, <2>1 DEF Queued
  <2>3. lost' = lost /\ \A k \in 1 .. 4 : q[k] = r[k]
    BY <1>6, <2>1
  <2> HIDE DEF q, r
  <2>4. Fine(stream', q, lost')
    BY <1>4, <1>5, <1>7, <1>8, <1>9, <2>2, <2>3, FineSaid
  <2> QED
    BY <2>4, FineStep DEF q
<1>10. ASSUME Quiet(due'), NEW mark \in BOOLEAN, NEW notify \in BOOLEAN,
              stream' = Opened(c + 1, mark, notify)
       PROVE  Fine(stream, Parts, lost)'
  <2>1. /\ stream'.conn = c + 1 /\ Available(stream') = Run(0, Size)
        /\ c + 1 # c
    BY <1>2, <1>10, OpenedShape
  <2>2. /\ Loaded \in Seq(Byte) /\ ring \in Seq(Byte)
        /\ \A i \in DOMAIN Loaded : Loaded[i].conn # c + 1
        /\ \A i \in DOMAIN ring : ring[i].conn # c + 1
    <3>1. /\ \A i \in DOMAIN ring : ring[i].conn <= c
          /\ tkb.conn <= c
      BY DEF Stories, Earlier, UpTo
    <3>2. \A i \in DOMAIN Loaded : Loaded[i] = tkb
      BY DEF Loaded
    <3>3. /\ tkb.conn \in Nat /\ ring \in Seq(Byte)
          /\ \A i \in DOMAIN ring : ring[i].conn \in Nat
      <4>1. tkb \in Byte /\ ring \in Seq(Byte)
        BY DEF Types, TypeAnswers
      <4>2. \A i \in DOMAIN ring : ring[i] \in Byte
        BY <4>1
      <4> QED
        BY <4>1, <4>2 DEF Byte
    <3>4. \A n \in Nat : n <= c => n # c + 1
      BY <1>2
    <3> QED
      BY <3>1, <3>2, <3>3, <3>4, LoadedTyped
  <2>3. /\ q[1] = <<>> /\ q[2] = Of(c + 1, Loaded) /\ q[3] = Of(c + 1, ring)
        /\ q[4] = Of(c + 1, <<>>) /\ q[5] = Of(c + 1, Flat(due'))
        /\ q[6] = Run(0, Size)
    BY <1>1, <2>1 DEF Parts, Mine, Loaded
  <2>4. /\ Ascending(q[1]) /\ BytesOf(q[1]) \subseteq {0}
        /\ Ascending(q[4]) /\ BytesOf(q[4]) \subseteq {0}
    BY <2>3, OfEmpty, EmptyStory
  <2>5. /\ Ascending(q[2]) /\ BytesOf(q[2]) \subseteq {0}
        /\ Ascending(q[3]) /\ BytesOf(q[3]) \subseteq {0}
    <3>1. /\ BytesOf(Of(c + 1, Loaded)) \subseteq {0}
          /\ BytesOf(Of(c + 1, ring)) \subseteq {0}
      BY <2>2, OtherConnection
    <3>2. Of(c + 1, Loaded) \in Seq(Nat) /\ Of(c + 1, ring) \in Seq(Nat)
      BY <2>2, OfSeq
    <3> QED
      BY <2>3, <3>1, <3>2, ZeroStory
  <2>6. Ascending(q[5]) /\ BytesOf(q[5]) \subseteq {0}
    BY <1>10, <2>1, <2>3, QuietOther
  <2> HIDE DEF q
  <2>7. \A k \in 1 .. 5 : k = 1 \/ k = 2 \/ k = 3 \/ k = 4 \/ k = 5
    OBVIOUS
  <2>8. \A k \in 1 .. 5 : Ascending(q[k]) /\ BytesOf(q[k]) \subseteq {0}
    BY <2>4, <2>5, <2>6, <2>7
  <2>9. Fine(stream', q, lost')
    BY <2>3, <2>8, FineOpened
  <2> QED
    BY <2>9, FineStep DEF q
<1>11. CASE Quiet(due') /\ stream' = Disconnected(c)
  <2>1. /\ stream'.conn = c /\ ~Connected(stream')
        /\ Available(stream') = <<>>
    BY <1>2, <1>11, DisconnectedShape
  <2>2. BytesOf(q[5]) \subseteq {0} /\ Ascending(q[5]) /\ q[6] = <<>>
    BY <1>5, <1>11, <2>1, QuietZero
  <2>3. \A k \in 1 .. 4 : q[k] = r[k]
    BY <1>6, <2>1
  <2> HIDE DEF q, r
  <2>4. Fine(stream', q, lost')
    BY <1>4, <2>1, <2>2, <2>3, FineClosed
  <2> QED
    BY <2>4, FineStep DEF q
<1> QED
  BY <1>3, <1>9, <1>10, <1>11

LEMMA BootStory ==
  ASSUME Types, Stories, BeginBoot
  PROVE  Fine(stream, Parts, lost)'
<1> DEFINE c == stream.conn
           p == Parts
           q == Parts'
<1>1. /\ due = <<>> /\ UNCHANGED <<heard, tkb, done, ring, sending, due>>
      /\ stream' = Disconnected(c)
  BY DEF BeginBoot, Idle, receiverVars
<1>2. c \in Nat
  BY DEF Types, Shape, Stream
<1>3. /\ stream'.conn = c /\ ~Connected(stream')
      /\ Available(stream') = <<>>
  BY <1>1, <1>2, DisconnectedShape
<1>4. /\ q[6] = <<>> /\ q[5] = Of(c, Flat(<<>>))
      /\ \A j \in 1 .. 4 : q[j] = p[j]
  BY <1>1, <1>3 DEF Parts, Mine, Loaded
<1>5. BytesOf(q[5]) \subseteq {0} /\ Ascending(q[5])
  BY <1>4, FlatEmpty, EmptyStory
<1>6. Fine(stream, p, lost)
  BY DEF Stories
<1> HIDE DEF p, q
<1>7. Fine(stream', q, lost')
  BY <1>3, <1>4, <1>5, <1>6, FineClosed
<1> QED
  BY <1>7, FineStep DEF q

LEMMA UpToParts ==
  ASSUME NEW c \in Nat, NEW w \in Seq(Byte), w # <<>>, UpTo(w, c)
  PROVE  Head(w).conn <= c /\ UpTo(Tail(w), c)
<1> DEFINE t == Tail(w)
<1>1. /\ t \in Seq(Byte) /\ Len(t) = Len(w) - 1
      /\ \A i \in 1 .. Len(t) : t[i] = w[i + 1]
  BY HeadTailProperties
<1>2. Len(w) \in Nat /\ Len(w) # 0 /\ Head(w) = w[1]
      /\ DOMAIN w = 1 .. Len(w)
  OBVIOUS
<1>3. DOMAIN t = 1 .. Len(t)
  BY <1>1
<1> HIDE DEF t
<1>4. \A i \in DOMAIN t : t[i] = w[i + 1] /\ i + 1 \in DOMAIN w
  BY <1>1, <1>2, <1>3
<1>5. 1 \in DOMAIN w
  BY <1>2
<1> QED
  BY <1>2, <1>4, <1>5 DEF UpTo, t

LEMMA UpToAppend ==
  ASSUME NEW c \in Nat, NEW w \in Seq(Byte), NEW b \in Byte, UpTo(w, c),
         b.conn <= c
  PROVE  UpTo(Append(w, b), c)
<1> DEFINE a == Append(w, b)
<1>1. /\ a \in Seq(Byte) /\ Len(a) = Len(w) + 1
      /\ \A i \in 1 .. Len(w) : a[i] = w[i]
      /\ a[Len(w) + 1] = b
  BY AppendProperties
<1>2. Len(w) \in Nat /\ DOMAIN w = 1 .. Len(w)
  OBVIOUS
<1>3. DOMAIN a = 1 .. Len(w) + 1
  BY <1>1
<1> HIDE DEF a
<1>4. \A i \in DOMAIN a : i \in DOMAIN w \/ i = Len(w) + 1
  BY <1>2, <1>3
<1> QED
  BY <1>1, <1>2, <1>4 DEF UpTo, a

LEMMA EarlierStep ==
  ASSUME Types, Popping, Stories, [Next]_vars
  PROVE  Earlier'
<1> DEFINE c == stream.conn
<1>1. /\ UpTo(ring, c) /\ UpTo(sending, c) /\ tkb.conn <= c
      /\ \A i \in DOMAIN due : UpTo(due[i], c)
  BY DEF Stories, Earlier
<1>2. /\ ring \in Seq(Byte) /\ sending \in Seq(Byte) /\ tkb \in Byte
      /\ due \in Seq(Seq(Byte)) /\ Shape(stream) /\ commands \in Seq(Command)
      /\ c \in Nat
  BY DEF Types, TypeAnswers, TypeDue, TypeCommands, Shape, Stream
<1>3. CASE PollStream \/ PollCommand
  <2>1. UNCHANGED <<ring, sending, tkb>>
    BY <1>3 DEF PollStream, PollCommand, receiverVars
  <2>2. /\ \A i \in DOMAIN due' : \A j \in DOMAIN due'[i] : due'[i][j].conn = c
        /\ stream'.conn \in {c, c + 1}
    <3>1. CASE PollStream
      <4>1. Quiet(due') /\ stream'.conn = c
        BY <1>2, <3>1, PollStreamOf DEF Polled, GoesOn
      <4> QED
        BY <4>1 DEF Quiet, Silent
    <3>2. CASE PollCommand
      <4>1. PICK s : /\ Polled(stream, s)
                     /\ \/ GoesOn(s, stream') /\ Queued(s, stream', due')
                        \/ /\ Quiet(due')
                           /\ \E mark, notify \in BOOLEAN :
                                stream' = Opened(stream.conn + 1, mark,
                                                 notify)
                        \/ Quiet(due') /\ stream' = Disconnected(stream.conn)
        BY <1>2, <3>2, PollCommandOf
      <4>2. stream'.conn \in {c, c + 1}
        BY <1>2, <4>1, OpenedShape, DisconnectedShape DEF Polled, GoesOn
      <4>3. Quiet(due') \/ Queued(s, stream', due')
        BY <4>1
      <4> QED
        BY <4>2, <4>3 DEF Quiet, Silent, Queued
    <3> QED
      BY <1>3, <3>1, <3>2
  <2>3. \A n \in Nat : n <= c => n <= stream'.conn
    BY <1>2, <2>2
  <2>4. ASSUME NEW w \in Seq(Byte), UpTo(w, c)
        PROVE  UpTo(w, stream'.conn)
    <3>1. \A i \in DOMAIN w : w[i].conn \in Nat
      <4>1. \A i \in DOMAIN w : w[i] \in Byte
        OBVIOUS
      <4> QED
        BY <4>1 DEF Byte
    <3> QED
      BY <2>3, <2>4, <3>1 DEF UpTo
  <2>5. tkb.conn \in Nat /\ c <= c
    BY <1>2 DEF Byte
  <2>6. \A i \in DOMAIN due' : UpTo(due'[i], stream'.conn)
    BY <1>2, <2>2, <2>3, <2>5 DEF UpTo
  <2> QED
    BY <1>1, <1>2, <2>1, <2>3, <2>4, <2>5, <2>6 DEF Earlier
<1>4. CASE QueueAnswer
  <2>1. /\ due # <<>> /\ due' = Tail(due)
        /\ sending' = sending \/ sending' = Head(due)
        /\ UNCHANGED <<ring, tkb, stream>>
    BY <1>4 DEF QueueAnswer, receiverVars
  <2> DEFINE t == Tail(due)
  <2>2. /\ Len(t) = Len(due) - 1 /\ t \in Seq(Seq(Byte))
        /\ \A i \in 1 .. Len(t) : t[i] = due[i + 1]
    BY <1>2, <2>1, HeadTailProperties
  <2>3. DOMAIN t = 1 .. Len(t) /\ DOMAIN due = 1 .. Len(due)
        /\ Len(due) \in Nat /\ Len(due) # 0 /\ Head(due) = due[1]
    BY <1>2, <2>1, <2>2, EmptySeq
  <2>7. due' = t
    BY <2>1
  <2> HIDE DEF t
  <2>4. \A i \in DOMAIN t : t[i] = due[i + 1] /\ i + 1 \in DOMAIN due
    BY <2>2, <2>3
  <2>5. UpTo(Head(due), c)
    <3>1. 1 \in DOMAIN due
      BY <2>3
    <3> QED
      BY <1>1, <2>3, <3>1
  <2>6. \A i \in DOMAIN t : UpTo(t[i], c)
    BY <1>1, <2>4
  <2> QED
    BY <1>1, <2>1, <2>5, <2>6, <2>7 DEF Earlier
<1>5. CASE Push
  <2>1. /\ sending # <<>> /\ ring' = Append(ring, Head(sending))
        /\ sending' = Tail(sending) /\ UNCHANGED <<due, tkb, stream>>
    BY <1>5 DEF Push, receiverVars
  <2>2. /\ Head(sending).conn <= c /\ UpTo(Tail(sending), c)
        /\ Head(sending) \in Byte
    BY <1>1, <1>2, <2>1, UpToParts, HeadTailProperties
  <2>3. UpTo(Append(ring, Head(sending)), c)
    BY <1>1, <1>2, <2>2, UpToAppend
  <2> QED
    BY <1>1, <2>1, <2>2, <2>3 DEF Earlier
<1>6. CASE LoadAnswer /\ ring # <<>> /\ UNCHANGED <<sending, due, stream>>
  <2>1. tkb' = Head(ring) /\ ring' = Tail(ring)
    BY <1>6 DEF LoadAnswer
  <2>2. Head(ring).conn <= c /\ UpTo(Tail(ring), c)
    BY <1>1, <1>2, <1>6, UpToParts
  <2> QED
    BY <1>1, <1>6, <2>1, <2>2 DEF Earlier
<1>7. CASE LoadKey /\ UNCHANGED <<sending, due, stream>>
  <2>1. tkb' = Key /\ ring' = ring /\ Key.conn <= c
    BY <1>2, <1>7 DEF LoadKey, Key
  <2> QED
    BY <1>1, <1>7, <2>1 DEF Earlier
<1>9. CASE Loads
  <2>1. UNCHANGED <<sending, due, stream>>
        /\ ((LoadAnswer /\ ring # <<>>) \/ LoadKey)
    BY <1>9 DEF Loads, Load, Popping
  <2> QED
    BY <1>6, <1>7, <2>1
<1>10. CASE ClearAnswers
  <2>1. ring' = <<>> /\ UNCHANGED <<sending, due, stream, tkb>>
    BY <1>10 DEF ClearAnswers
  <2> QED
    BY <1>1, <2>1 DEF Earlier, UpTo
<1>11. CASE BeginBoot
  <2>1. stream' = Disconnected(c) /\ UNCHANGED <<ring, sending, due, tkb>>
    BY <1>11 DEF BeginBoot, receiverVars
  <2>2. stream'.conn = c
    BY <1>2, <2>1, DisconnectedShape
  <2> QED
    BY <1>1, <2>1, <2>2 DEF Earlier
<1>12. CASE \/ (\E x \in Command : Submit(x)) \/ ReadTKB \/ ClearDone
            \/ Tests \/ Pops \/ LoadsNothing \/ Type \/ ResetMachine
            \/ UNCHANGED vars
  <2>1. UNCHANGED <<ring, sending, due, stream, tkb>>
    BY <1>12
       DEF Submit, ReadTKB, ClearDone, Tests, Test, Pops, Pop, LoadsNothing,
           LoadNothing, Type, ResetMachine, vars, receiverVars
  <2> QED
    BY <1>1, <2>1 DEF Earlier
<1> QED
  BY <1>3, <1>4, <1>5, <1>9, <1>10, <1>11, <1>12, StepActions

LEMMA BootClosesStep ==
  ASSUME Types, Stories, [Next]_vars
  PROVE  BootCloses'
<1>1. BootCloses /\ stream.conn \in Nat
  BY DEF Stories, Types, Shape, Stream
<1>2. CASE PollStream \/ PollCommand
  <2>1. boot' \notin {"clear", "reset"}
    BY <1>2 DEF PollStream, PollCommand, Idle
  <2> QED
    BY <2>1 DEF BootCloses
<1>3. CASE BeginBoot
  <2>1. ~Connected(stream')
    BY <1>1, <1>3, DisconnectedShape DEF BeginBoot
  <2> QED
    BY <2>1 DEF BootCloses, Connected
<1>4. CASE ClearAnswers
  <2>1. boot = "clear" /\ stream' = stream
    BY <1>4 DEF ClearAnswers
  <2> QED
    BY <1>1, <2>1 DEF BootCloses, Connected
<1>5. CASE ResetMachine
  <2>1. boot' = "up"
    BY <1>5 DEF ResetMachine
  <2> QED
    BY <2>1 DEF BootCloses
<1>6. CASE \/ (\E c \in Command : Submit(c)) \/ QueueAnswer \/ Push \/ ReadTKB
           \/ ClearDone \/ Tests \/ Pops \/ Loads \/ LoadsNothing \/ Type
           \/ UNCHANGED vars
  <2>1. UNCHANGED <<boot, stream>>
    BY <1>6
       DEF Submit, QueueAnswer, Push, ReadTKB, ClearDone, Tests, Test, Pops,
           Pop, Loads, Load, LoadsNothing, LoadNothing, Type, vars
  <2> QED
    BY <1>1, <2>1 DEF BootCloses, Connected
<1> QED
  BY <1>2, <1>3, <1>4, <1>5, <1>6, StepActions

LEMMA StoriesStep ==
  ASSUME Types, Frames, Stories, [Next]_vars, ~raced'
  PROVE  Stories'
<1>1. Popping /\ LoaderWaits
  BY DEF Frames
<1>3. CASE Loads
  <2>1. UNCHANGED <<heard, sending, due, stream, lost>>
    BY <1>3 DEF Loads, Load
  <2>2. /\ ~done
        /\ (LoadAnswer /\ ring # <<>>) \/ LoadKey
    BY <1>1, <1>3 DEF Loads, Load, LoaderWaits, Popping
  <2> QED
    BY <1>1, <2>1, <2>2, LoadAnswerStory, LoadKeyStory, EarlierStep,
       BootClosesStep DEF Stories
<1>4. CASE \/ (\E c \in Command : Submit(c)) \/ Tests \/ Pops \/ LoadsNothing
           \/ Type \/ UNCHANGED vars
  <2>1. UNCHANGED <<heard, tkb, done, ring, sending, due, stream, lost>>
    BY <1>4
       DEF Submit, Tests, Test, Pops, Pop, LoadsNothing, LoadNothing, Type,
           vars, receiverVars
  <2> QED
    BY <1>1, <2>1, StoryRests, EarlierStep, BootClosesStep DEF Stories
<1>5. CASE \/ PollStream \/ PollCommand \/ QueueAnswer \/ Push \/ ReadTKB
           \/ ClearDone \/ BeginBoot \/ ClearAnswers \/ ResetMachine
  <2>1. Fine(stream, Parts, lost)'
    BY <1>5, PollStory, CommandStory, QueueStory, PushStory, ReadStory,
       ClearDoneStory, BootStory, ClearStory, ResetStory
  <2> QED
    BY <1>1, <2>1, EarlierStep, BootClosesStep DEF Stories
<1> QED
  BY <1>3, <1>4, <1>5, StepActions

LEMMA StoriesInit ==
  ASSUME Init
  PROVE  Stories
<1> DEFINE p == Parts
<1>1. /\ heard = <<>> /\ done = FALSE /\ ring = <<>> /\ sending = <<>>
      /\ due = <<>> /\ stream = Disconnected(0) /\ tkb = Key /\ boot = "up"
  BY DEF Init
<1>2. /\ stream.conn = 0 /\ ~Connected(stream) /\ Available(stream) = <<>>
  BY <1>1, DisconnectedShape
<1>3. ~stream.open
  BY <1>2 DEF Connected
<1>4. /\ p[1] = <<>> /\ p[2] = Of(0, <<>>) /\ p[3] = Of(0, <<>>)
      /\ p[4] = Of(0, <<>>) /\ p[5] = Of(0, Flat(<<>>)) /\ p[6] = <<>>
  BY <1>1, <1>2 DEF Parts, Mine, Loaded
<1>5. Of(0, <<>>) = <<>> /\ Of(0, Flat(<<>>)) = <<>>
  BY OfEmpty, FlatEmpty
<1>6. \A i \in 1 .. 6 : i = 1 \/ i = 2 \/ i = 3 \/ i = 4 \/ i = 5 \/ i = 6
  OBVIOUS
<1> HIDE DEF p
<1>7. \A i \in 1 .. 6 : p[i] = <<>>
  BY <1>4, <1>5, <1>6
<1>8. Told(p)
  <2>1. BytesOf(<<>>) = {} /\ Ascending(<<>>)
    BY EmptyStory
  <2> QED
    BY <1>7, <2>1 DEF Told, Before
<1>9. Fine(stream, p, lost)
  BY <1>2, <1>3, <1>8 DEF Fine
<1>10. Earlier
  <2>1. Key.conn <= 0
    BY DEF Key
  <2> QED
    BY <1>1, <1>2, <2>1 DEF Earlier, UpTo
<1>11. BootCloses
  BY <1>1 DEF BootCloses
<1> QED
  BY <1>9, <1>10, <1>11 DEF Stories, p

-----------------------------------------------------------------------------
(***************************************************************************)
(* The theorems.                                                           *)
(***************************************************************************)
LEMMA RacedOn == ASSUME raced, [Next]_vars PROVE raced'
<1>1. \/ raced' = raced
      \/ \E t \in Task : raced' = (raced \/ \E u \in Task \ {t} :
                                              loader[u] # "idle")
      \/ raced' = (raced \/ loader["clk"] = "answer")
  BY StepActions
     DEF Submit, PollStream, PollCommand, QueueAnswer, Push, ReadTKB,
         ClearDone, Tests, Test, Pops, Pop, Loads, Load, LoadsNothing,
         LoadNothing, Type, BeginBoot, ClearAnswers, ResetMachine, vars
<1> QED
  BY <1>1

LEMMA InvInit == Init => Inv
BY TypesInit, FramesInit, StoriesInit DEF Inv

LEMMA InvStep == Inv /\ [Next]_vars => Inv'
<1> SUFFICES ASSUME Inv, [Next]_vars, ~raced'
             PROVE  Types' /\ Frames' /\ Stories'
  BY DEF Inv
<1>1. Types /\ Frames /\ Stories
  BY RacedOn DEF Inv
<1>2. Popping
  BY <1>1 DEF Frames
<1> QED
  BY <1>1, <1>2, TypesStep, FramesStep, StoriesStep

LEMMA Invariance == Spec => []Inv
BY InvInit, InvStep, PTL DEF Spec

(* The queue of commands, the ring read ahead into and the ring of answers *)
(* keep their bounds, and an operation has at most three answers to queue, *)
(* as long as core 1 and the clock task load the receiver in turn: two     *)
(* pops at once may take from an empty ring.                               *)
THEOREM ControlTypes == Spec => [](~raced => TypeOK)
<1>1. Inv => (~raced => TypeOK)
  BY TypesOK DEF Inv
<1> QED
  BY <1>1, Invariance, PTL

(* What was typed is never loaded between two bytes of an answer.          *)
THEOREM FramesAreWhole == Spec => FramesWhole
<1>1. ASSUME Inv, [Next]_vars
      PROVE  [keys' < keys => raced \/ ~mid]_vars
  <2> SUFFICES ASSUME keys' < keys, ~raced PROVE ~mid
    OBVIOUS
  <2>1. Types /\ Frames
    BY <1>1 DEF Inv
  <2>2. keys \in Nat
    BY <2>1, ControlAssumption DEF Types, TypeInputs
  <2>3. keys' = keys \/ Type \/ \E t \in Task : loader[t] = "keys"
    BY <1>1, StepActions
       DEF Submit, PollStream, PollCommand, QueueAnswer, Push, ReadTKB,
           ClearDone, LoadAnswer, Tests, Test, Pops, Pop, Loads, Load,
           LoadsNothing, LoadNothing, BeginBoot, ClearAnswers, ResetMachine,
           vars, receiverVars
  <2>4. CASE \E t \in Task : loader[t] = "keys"
    BY <2>1, <2>4 DEF Frames, LoaderWaits
  <2>6. ~ (keys' = keys) /\ ~Type
    BY <2>2 DEF Type
  <2> QED
    BY <2>3, <2>4, <2>6
<1> QED
  BY <1>1, Invariance, PTL DEF Spec, FramesWhole

(* What the guest has read of the file, what is under way to it and what   *)
(* is still to be read are the file's bytes, in order, and none is missing *)
(* but what INASCII drops, unless an answer found the ring full or DONE    *)
(* was cleared over a byte: for every file, ring and queue, until two      *)
(* tasks load at once.                                                     *)
THEOREM FileInOrder == Spec => []StreamInOrder
<1>1. Inv => StreamInOrder
  <2> SUFFICES ASSUME Types, Stories
               PROVE  /\ Ascending(Story)
                      /\ (stream.open \/ stream.eof) /\ ~lost
                           => (1 .. Size) \ Dropped \subseteq BytesOf(Story)
    BY DEF Inv, StreamInOrder
  <2>1. BytesOf(Story) = Known(Parts) /\ (Told(Parts) => Ascending(Story))
    BY StoryIs
  <2> QED
    BY <2>1 DEF Stories, Fine, Connected
<1> QED
  BY <1>1, Invariance, PTL
=============================================================================
