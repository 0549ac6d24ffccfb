----------------------- MODULE ProgrammableClockProofs -----------------------
(***************************************************************************)
(* Proofs about ProgrammableClock, for every width of the registers, every *)
(* set of rates and every period: paying late is exact.                    *)
(***************************************************************************)
EXTENDS ProgrammableClock, Integers, TLAPS

(***************************************************************************)
(* Division.                                                               *)
(***************************************************************************)
LEMMA DivMod ==
  ASSUME NEW e \in Nat, NEW p \in Nat \ {0}
  PROVE  /\ e \div p \in Nat /\ e % p \in 0 .. p - 1
         /\ e = p * (e \div p) + (e % p)
OBVIOUS

LEMMA DivModUnique ==
  ASSUME NEW e \in Nat, NEW p \in Nat \ {0}, NEW q \in Nat, NEW r \in 0 .. p - 1,
         e = p * q + r
  PROVE  e \div p = q /\ e % p = r
OBVIOUS

(* What is left of the first payment is added to the second.               *)
LEMMA DivModSum ==
  ASSUME NEW e \in Nat, NEW b \in Nat, NEW p \in Nat \ {0}
  PROVE  /\ (e + b) \div p = (e \div p) + (((e % p) + b) \div p)
         /\ (e + b) % p = ((e % p) + b) % p
<1> DEFINE q == e \div p
           k == e % p
           q2 == (k + b) \div p
           k2 == (k + b) % p
<1>1. q \in Nat /\ k \in 0 .. p - 1 /\ e = p * q + k
  BY DivMod
<1>2. k + b \in Nat
  BY <1>1
<1>3. q2 \in Nat /\ k2 \in 0 .. p - 1 /\ k + b = p * q2 + k2
  BY <1>2, DivMod
<1> HIDE DEF q, k, q2, k2
<1>4. e + b = p * (q + q2) + k2
  <2>1. e + b = p * q + (k + b)
    BY <1>1
  <2>2. p * (q + q2) = p * q + p * q2
    BY <1>1, <1>3
  <2> QED
    BY <1>1, <1>3, <2>1, <2>2
<1>5. q + q2 \in Nat /\ e + b \in Nat
  BY <1>1, <1>3
<1>6. (e + b) \div p = q + q2 /\ (e + b) % p = k2
  BY <1>3, <1>4, <1>5, DivModUnique
<1> QED
  BY <1>6 DEF q, k, q2, k2

LEMMA DivModLess ==
  ASSUME NEW k \in Nat, NEW p \in Nat \ {0}, k < p
  PROVE  k \div p = 0 /\ k % p = k
BY DivModUnique

LEMMA DivLarge ==
  ASSUME NEW m \in Nat, NEW p \in Nat \ {0}
  PROVE  m \div p > 0 <=> m >= p
<1>1. /\ m \div p \in Nat /\ m % p \in 0 .. p - 1
      /\ m = p * (m \div p) + (m % p)
  BY DivMod
<1> QED
  BY <1>1

-----------------------------------------------------------------------------
(***************************************************************************)
(* The counter.  Before it reaches zero it only moves by what is paid, and *)
(* moves to the same value in one payment or in two.                       *)
(***************************************************************************)
Moved(up, v, n) == (v + (IF up THEN n ELSE Modulus - n)) % Modulus
Steps(up, v) == LET n == IF up THEN Modulus - v ELSE v
                IN  IF n = 0 THEN Modulus ELSE n

LEMMA ModulusType == Modulus \in Nat /\ Modulus >= 2
BY ClockAssumption

LEMMA Remainder ==
  ASSUME NEW x \in Nat, x < 2 * Modulus
  PROVE  x % Modulus = IF x < Modulus THEN x ELSE x - Modulus
<1>1. CASE x < Modulus
  BY <1>1, DivModLess, ModulusType
<1>2. CASE x >= Modulus
  BY <1>2, ModulusType, DivModUnique
<1> QED
  BY <1>1, <1>2, ModulusType

LEMMA StepsRange ==
  ASSUME NEW up \in BOOLEAN, NEW v \in Value
  PROVE  Steps(up, v) \in 1 .. Modulus
BY ModulusType DEF Steps, Value

LEMMA MovedIs ==
  ASSUME NEW up \in BOOLEAN, NEW v \in Value, NEW n \in Nat, n < Steps(up, v)
  PROVE  Moved(up, v, n) = IF up THEN v + n
                           ELSE IF v = 0 /\ n > 0 THEN Modulus - n
                           ELSE v - n
<1> DEFINE x == v + (IF up THEN n ELSE Modulus - n)
<1>1. x \in Nat /\ x < 2 * Modulus
  BY ModulusType DEF Steps, Value
<1>2. Moved(up, v, n) = IF x < Modulus THEN x ELSE x - Modulus
  BY <1>1, Remainder DEF Moved
<1> QED
  BY <1>2, ModulusType DEF Steps, Value

LEMMA MovedSteps ==
  ASSUME NEW up \in BOOLEAN, NEW v \in Value, NEW n \in Nat, n < Steps(up, v)
  PROVE  /\ Moved(up, v, n) \in Value
         /\ Steps(up, Moved(up, v, n)) = Steps(up, v) - n
BY MovedIs, ModulusType DEF Steps, Value

LEMMA MovedTwice ==
  ASSUME NEW up \in BOOLEAN, NEW v \in Value, NEW m \in Nat, NEW n \in Nat,
         m + n < Steps(up, v)
  PROVE  Moved(up, Moved(up, v, m), n) = Moved(up, v, m + n)
<1> DEFINE w == Moved(up, v, m)
<1>0. Steps(up, v) \in 1 .. Modulus
  BY StepsRange
<1>1. w \in Value /\ Steps(up, w) = Steps(up, v) - m
  BY <1>0, MovedSteps
<1>2. n < Steps(up, w)
  BY <1>0, <1>1
<1>3. w = IF up THEN v + m ELSE IF v = 0 /\ m > 0 THEN Modulus - m ELSE v - m
  BY <1>0, MovedIs
<1>4. Moved(up, v, m + n) = IF up THEN v + (m + n)
                            ELSE IF v = 0 /\ m + n > 0 THEN Modulus - (m + n)
                            ELSE v - (m + n)
  BY <1>0, MovedIs
<1> HIDE DEF w
<1>5. Moved(up, w, n) = IF up THEN w + n
                        ELSE IF w = 0 /\ n > 0 THEN Modulus - n ELSE w - n
  BY <1>1, <1>2, MovedIs
<1>6. Moved(up, w, n) = Moved(up, v, m + n)
  BY <1>0, <1>1, <1>2, <1>3, <1>4, <1>5, ModulusType DEF Steps, Value
<1> QED
  BY <1>6 DEF w

LEMMA MovedToZero ==
  ASSUME NEW up \in BOOLEAN, NEW v \in Value
  PROVE  Moved(up, v, 1) = 0 <=> Steps(up, v) = 1
<1> DEFINE x == v + (IF up THEN 1 ELSE Modulus - 1)
<1>1. x \in Nat /\ x < 2 * Modulus
  BY ModulusType DEF Value
<1>2. Moved(up, v, 1) = IF x < Modulus THEN x ELSE x - Modulus
  BY <1>1, Remainder DEF Moved
<1> QED
  BY <1>2, ModulusType DEF Steps, Value

LEMMA MovedByNone ==
  ASSUME NEW up \in BOOLEAN, NEW v \in Value
  PROVE  Moved(up, v, 0) = v
<1>1. 0 < Steps(up, v)
  BY StepsRange
<1> QED
  BY <1>1, MovedIs DEF Value

-----------------------------------------------------------------------------
(***************************************************************************)
(* A payment of n counts, register by register: s is what it makes of r,   *)
(* when it ends before zero, stops there, or goes on for m counts.         *)
(***************************************************************************)
First(r) == Steps(r.control.up, r.cntr)
Cycle(r) == Steps(r.control.up, r.csb)

Counted(r, s, n) ==
  /\ s \in Register /\ s.control = r.control
  /\ (s.err <=> r.err) /\ (s.done <=> r.done) /\ (s.irq <=> r.irq)
  /\ s.csb = r.csb
  /\ s.cntr = Moved(r.control.up, r.cntr, n)

Expired(r, s) ==
  /\ s \in Register /\ s.control = [r.control EXCEPT !.go = FALSE]
  /\ (s.err <=> r.err \/ r.done) /\ s.done /\ (s.irq <=> r.irq \/ r.control.ie)
  /\ s.csb = 0 /\ s.cntr = 0

Repeated(r, s, m) ==
  /\ s \in Register /\ s.control = r.control
  /\ (s.err <=> r.err \/ r.done \/ m >= Cycle(r))
  /\ s.done /\ (s.irq <=> r.irq \/ r.control.ie)
  /\ s.csb = r.csb
  /\ s.cntr = Moved(r.control.up, r.csb, m % Cycle(r))

Pays(r, s, n) ==
  /\ n < First(r) => Counted(r, s, n)
  /\ n >= First(r) /\ ~r.control.repeat => Expired(r, s)
  /\ n >= First(r) /\ r.control.repeat => Repeated(r, s, n - First(r))

LEMMA RegisterFields ==
  ASSUME NEW r \in Register
  PROVE  /\ r.control \in Control /\ r.err \in BOOLEAN /\ r.done \in BOOLEAN
         /\ r.irq \in BOOLEAN /\ r.csb \in Value /\ r.cntr \in Value
         /\ r.control.go \in BOOLEAN /\ r.control.ie \in BOOLEAN
         /\ r.control.repeat \in BOOLEAN /\ r.control.up \in BOOLEAN
         /\ r.control.rate \in Rate
BY DEF Register, Control

LEMMA SameRegister ==
  ASSUME NEW r \in Register, NEW s \in Register,
         r.control = s.control, r.err <=> s.err, r.done <=> s.done,
         r.irq <=> s.irq, r.csb = s.csb, r.cntr = s.cntr
  PROVE  r = s
BY DEF Register

LEMMA CountRanges ==
  ASSUME NEW r \in Register
  PROVE  First(r) \in 1 .. Modulus /\ Cycle(r) \in 1 .. Modulus
BY RegisterFields, StepsRange DEF First, Cycle

LEMMA PaysOne ==
  ASSUME NEW r \in Register, NEW s, NEW t, NEW n \in Nat,
         Pays(r, s, n), Pays(r, t, n)
  PROVE  s = t
<1>0. First(r) \in Nat
  BY CountRanges
<1>1. CASE n < First(r)
  BY <1>1, SameRegister DEF Pays, Counted
<1>2. CASE n >= First(r) /\ ~r.control.repeat
  BY <1>2, SameRegister DEF Pays, Expired
<1>3. CASE n >= First(r) /\ r.control.repeat
  BY <1>3, SameRegister DEF Pays, Repeated
<1> QED
  BY <1>0, <1>1, <1>2, <1>3

LEMMA PaysType ==
  ASSUME NEW r \in Register, NEW s, NEW n \in Nat, Pays(r, s, n)
  PROVE  /\ s \in Register
         /\ s.control.rate = r.control.rate
         /\ n < First(r) \/ r.control.repeat => s.control = r.control
         /\ ~(n < First(r) \/ r.control.repeat) => ~s.control.go
<1>0. First(r) \in Nat
  BY CountRanges
<1>1. CASE n < First(r)
  BY <1>1 DEF Pays, Counted
<1>2. CASE n >= First(r) /\ ~r.control.repeat
  <2>1. s \in Register /\ s.control = [r.control EXCEPT !.go = FALSE]
    BY <1>2 DEF Pays, Expired
  <2> QED
    BY <1>0, <1>2, <2>1 DEF Register, Control
<1>3. CASE n >= First(r) /\ r.control.repeat
  BY <1>3 DEF Pays, Repeated
<1> QED
  BY <1>0, <1>1, <1>2, <1>3

(* The counter is where it would be had it been paid in two payments.      *)
LEMMA PaysTwice ==
  ASSUME NEW r \in Register, NEW s, NEW t, NEW m \in Nat, NEW n \in Nat,
         Pays(r, s, m), m < First(r) \/ r.control.repeat, Pays(s, t, n)
  PROVE  Pays(r, t, m + n)
<1>0. /\ First(r) \in 1 .. Modulus /\ Cycle(r) \in 1 .. Modulus
      /\ s \in Register /\ s.control = r.control
      /\ r.control.up \in BOOLEAN /\ r.cntr \in Value /\ r.csb \in Value
  BY CountRanges, PaysType, RegisterFields
<1>t. t \in Register
  BY <1>0, PaysType
<1>1. CASE m < First(r)
  <2>1. Counted(r, s, m)
    BY <1>1 DEF Pays
  <2>2. First(s) = First(r) - m /\ Cycle(s) = Cycle(r)
    BY <1>0, <1>1, <2>1, MovedSteps DEF Counted, First, Cycle
  <2>3. CASE m + n < First(r)
    <3>1. n < First(s)
      BY <1>0, <2>2, <2>3
    <3>2. Counted(s, t, n)
      BY <3>1 DEF Pays
    <3>3. Moved(r.control.up, s.cntr, n) = Moved(r.control.up, r.cntr, m + n)
      BY <1>0, <2>1, <2>3, MovedTwice DEF Counted, First
    <3>4. Counted(r, t, m + n)
      BY <1>0, <2>1, <3>2, <3>3 DEF Counted
    <3> QED
      BY <1>0, <2>3, <3>4 DEF Pays
  <2>4. CASE m + n >= First(r)
    <3>1. n >= First(s) /\ n - First(s) = (m + n) - First(r)
      BY <1>0, <2>2, <2>4
    <3>2. CASE ~r.control.repeat
      <4>1. Expired(s, t)
        BY <1>0, <3>1, <3>2 DEF Pays
      <4>2. Expired(r, t)
        BY <1>0, <2>1, <4>1 DEF Counted, Expired
      <4> QED
        BY <1>0, <2>4, <3>2, <4>2 DEF Pays
    <3>3. CASE r.control.repeat
      <4>1. Repeated(s, t, (m + n) - First(r))
        BY <1>0, <3>1, <3>3 DEF Pays
      <4>2. Repeated(r, t, (m + n) - First(r))
        BY <1>0, <2>1, <2>2, <4>1 DEF Counted, Repeated
      <4> QED
        BY <1>0, <2>4, <3>3, <4>2 DEF Pays
    <3> QED
      BY <3>2, <3>3
  <2> QED
    BY <1>0, <2>3, <2>4
<1>2. CASE m >= First(r)
  <2> DEFINE c == Cycle(r)
             a == m - First(r)
             j == a % c
             q == a \div c
  <2>0. r.control.repeat /\ c \in Nat \ {0} /\ a \in Nat
    BY <1>0, <1>2
  <2>1. Repeated(r, s, a)
    BY <1>2, <2>0 DEF Pays
  <2>2. q \in Nat /\ j \in 0 .. c - 1 /\ a = c * q + j
    BY <2>0, DivMod
  <2>3. First(s) = c - j /\ Cycle(s) = c /\ s.cntr = Moved(r.control.up, r.csb, j)
    BY <1>0, <2>1, <2>2, MovedSteps DEF Repeated, First, Cycle
  <2>4. a >= c <=> q > 0
    BY <2>0, DivLarge
  <2>5. (m + n) - First(r) = a + n /\ a + n \in Nat /\ m + n >= First(r)
    BY <1>0, <1>2
  <2> HIDE DEF c, a, j, q
  <2>6. CASE n < c - j
    <3>1. Counted(s, t, n)
      BY <2>3, <2>6 DEF Pays
    <3>2. j + n \in 0 .. c - 1 /\ a + n = c * q + (j + n)
      BY <2>0, <2>2, <2>6
    <3>3. (a + n) \div c = q /\ (a + n) % c = j + n
      BY <2>0, <2>2, <2>5, <3>2, DivModUnique
    <3>4. a + n >= c <=> q > 0
      BY <2>0, <2>5, <3>3, DivLarge
    <3>5. Moved(r.control.up, s.cntr, n) = Moved(r.control.up, r.csb, j + n)
      <4>1. j + n < Steps(r.control.up, r.csb)
        BY <2>0, <2>2, <3>2 DEF c, Cycle
      <4> QED
        BY <1>0, <2>2, <2>3, <4>1, MovedTwice
    <3>6. Repeated(r, t, a + n)
      BY <1>0, <2>1, <2>4, <3>1, <3>3, <3>4, <3>5 DEF Counted, Repeated, c
    <3> QED
      BY <1>0, <2>0, <2>5, <3>6 DEF Pays
  <2>7. CASE n >= c - j
    <3> DEFINE b == n - (c - j)
               k == b % c
               p == b \div c
    <3>1. b \in Nat /\ n >= First(s) /\ n - First(s) = b
      BY <2>0, <2>2, <2>3, <2>7
    <3>2. Repeated(s, t, b)
      BY <1>0, <2>0, <3>1 DEF Pays
    <3>3. p \in Nat /\ k \in 0 .. c - 1 /\ b = c * p + k
      BY <2>0, <3>1, DivMod
    <3>4. a + n = c * (q + (p + 1)) + k
      <4>1. a + n = c * q + (c + b)
        BY <2>0, <2>2, <3>1
      <4>2. c * (q + (p + 1)) = c * q + (c * p + c)
        BY <2>0, <2>2, <3>3
      <4> HIDE DEF b, k, p
      <4> QED
        BY <2>0, <2>2, <3>1, <3>3, <4>1, <4>2
    <3> HIDE DEF b, k, p
    <3>5. (a + n) \div c = q + (p + 1) /\ (a + n) % c = k
      <4>1. q + (p + 1) \in Nat
        BY <2>2, <3>3
      <4> QED
        BY <2>0, <2>5, <3>3, <3>4, <4>1, DivModUnique
    <3>6. a + n >= c
      BY <2>0, <2>2, <2>5, <3>3, <3>5, DivLarge
    <3>7. Repeated(r, t, a + n)
      BY <1>0, <2>1, <2>3, <3>2, <3>5, <3>6 DEF Repeated, c, k
    <3> QED
      BY <1>0, <2>0, <2>5, <3>7 DEF Pays
  <2> QED
    BY <2>0, <2>2, <2>6, <2>7
<1> QED
  BY <1>0, <1>1, <1>2

(* A counter that has stopped owes nothing more.                           *)
LEMMA PaysStopped ==
  ASSUME NEW r \in Register, NEW s, NEW m \in Nat, NEW n \in Nat,
         Pays(r, s, m), m >= First(r), ~r.control.repeat
  PROVE  Pays(r, s, m + n)
<1>1. m + n >= First(r)
  BY CountRanges
<1> QED
  BY <1>1, CountRanges DEF Pays

-----------------------------------------------------------------------------
(***************************************************************************)
(* update_clock is such a payment, of the periods that have gone by, and   *)
(* what it leaves is less than a period.                                   *)
(***************************************************************************)
Normal(r, left) ==
  IF r.control.go THEN left < Period[r.control.rate] ELSE left = 0

Lasts(r, n) == n < First(r) \/ r.control.repeat

(* The counts that are due, and the instructions that stay over.           *)
Due(r, left, e) == (left + e) \div Period[r.control.rate]
Over(r, left, e) == (left + e) % Period[r.control.rate]

LEMMA PeriodType == \A rt \in Rate : Period[rt] \in Nat \ {0}
BY ClockAssumption

LEMMA DueType ==
  ASSUME NEW r \in Register, NEW left \in Nat, NEW e \in Nat
  PROVE  /\ Due(r, left, e) \in Nat
         /\ Over(r, left, e) \in 0 .. Period[r.control.rate] - 1
         /\ Over(r, left, e) \in Nat
<1>1. Period[r.control.rate] \in Nat \ {0} /\ left + e \in Nat
  BY PeriodType, RegisterFields
<1>2. /\ Due(r, left, e) \in Nat
      /\ Over(r, left, e) \in 0 .. Period[r.control.rate] - 1
  BY <1>1, DivMod DEF Due, Over
<1> QED
  BY <1>1, <1>2

LEMMA CountsUp ==
  ASSUME NEW r \in Register, NEW n \in Nat, n < First(r)
  PROVE  Counted(r, AdvanceWithoutExpiry(r, n), n)
<1>1. AdvanceWithoutExpiry(r, n)
        = [r EXCEPT !.cntr = Moved(r.control.up, r.cntr, n)]
  BY DEF AdvanceWithoutExpiry, Moved
<1>2. Moved(r.control.up, r.cntr, n) \in Value
  BY RegisterFields, MovedSteps DEF First
<1> QED
  BY <1>1, <1>2 DEF Counted, Register

LEMMA StopsOnce ==
  ASSUME NEW r \in Register
  PROVE  Expired(r, ExpireOnce(r))
<1> DEFINE s == ExpireOnce(r)
<1>1. 0 \in Value /\ ~(1 > 1)
  BY ModulusType DEF Value
<1>2. /\ s \in Register /\ s.control = [r.control EXCEPT !.go = FALSE]
      /\ s.csb = 0 /\ s.cntr = 0 /\ s.done
      /\ (s.irq <=> r.irq \/ r.control.ie)
      /\ (s.err <=> r.err \/ r.done \/ 1 > 1)
  BY <1>1 DEF ExpireOnce, RecordExpirations, Register, Control
<1> HIDE DEF s
<1> QED
  BY <1>1, <1>2 DEF Expired, s

LEMMA GoesOn ==
  ASSUME NEW r \in Register, NEW m \in Nat
  PROVE  Repeated(r, ExpireRepeatedly(r, m), m)
<1> DEFINE c == Cycle(r)
           v == Moved(r.control.up, r.csb, m % c)
           s == ExpireRepeatedly(r, m)
<1>1. c \in 1 .. Modulus /\ m % c \in 0 .. c - 1 /\ m \div c \in Nat
  BY CountRanges, DivMod
<1>2. v \in Value
  BY <1>1, RegisterFields, MovedSteps DEF Cycle
<1>3. 1 + m \div c > 1 <=> m >= c
  BY <1>1, DivLarge
<1>4. s = RecordExpirations([r EXCEPT !.cntr = v], 1 + m \div c)
  BY DEF ExpireRepeatedly, AdvanceWithoutExpiry, StepsToExpiry, Cycle, Steps,
         Moved, Register
<1> HIDE DEF c, v, s
<1>5. /\ s \in Register /\ s.control = r.control /\ s.csb = r.csb /\ s.cntr = v
      /\ s.done /\ (s.irq <=> r.irq \/ r.control.ie)
      /\ (s.err <=> r.err \/ r.done \/ 1 + m \div c > 1)
  BY <1>2, <1>4 DEF RecordExpirations, Register, Control
<1> QED
  BY <1>3, <1>5 DEF Repeated, c, v, s

LEMMA StepsPay ==
  ASSUME NEW r \in Register, NEW n \in Nat, NEW left
  PROVE  /\ Pays(r, AdvanceSteps(r, n, left).reg, n)
         /\ AdvanceSteps(r, n, left).rest = IF Lasts(r, n) THEN left ELSE 0
<1>0. StepsToExpiry(r, r.cntr) = First(r) /\ First(r) \in Nat
  BY CountRanges DEF StepsToExpiry, First, Steps
<1>1. CASE n < First(r)
  <2>1. AdvanceSteps(r, n, left)
          = [reg |-> AdvanceWithoutExpiry(r, n), rest |-> left]
    BY <1>0, <1>1 DEF AdvanceSteps
  <2> QED
    BY <1>0, <1>1, <2>1, CountsUp DEF Pays, Lasts
<1>2. CASE n >= First(r) /\ ~r.control.repeat
  <2>1. AdvanceSteps(r, n, left) = [reg |-> ExpireOnce(r), rest |-> 0]
    BY <1>0, <1>2 DEF AdvanceSteps
  <2> QED
    BY <1>0, <1>2, <2>1, StopsOnce DEF Pays, Lasts
<1>3. CASE n >= First(r) /\ r.control.repeat
  <2>1. AdvanceSteps(r, n, left)
          = [reg |-> ExpireRepeatedly(r, n - First(r)), rest |-> left]
    BY <1>0, <1>3 DEF AdvanceSteps
  <2>2. Repeated(r, ExpireRepeatedly(r, n - First(r)), n - First(r))
    BY <1>0, <1>3, GoesOn
  <2> QED
    BY <1>0, <1>3, <2>1, <2>2 DEF Pays, Lasts
<1> QED
  BY <1>0, <1>1, <1>2, <1>3

LEMMA PaysNone == ASSUME NEW r \in Register PROVE Pays(r, r, 0)
<1>1. First(r) \in 1 .. Modulus
  BY CountRanges
<1>2. Counted(r, r, 0)
  BY RegisterFields, MovedByNone DEF Counted
<1> QED
  BY <1>1, <1>2 DEF Pays

LEMMA UpdatedRunning ==
  ASSUME NEW r \in Register, NEW left \in Nat, NEW e \in Nat, r.control.go
  PROVE  /\ Pays(r, Updated(r, left, e).reg, Due(r, left, e))
         /\ Updated(r, left, e).rest
              = IF Lasts(r, Due(r, left, e)) THEN Over(r, left, e) ELSE 0
<1>0. Due(r, left, e) \in Nat
  BY DueType
<1>1. CASE Due(r, left, e) = 0
  <2>1. Updated(r, left, e) = [reg |-> r, rest |-> Over(r, left, e)]
    BY <1>0, <1>1 DEF Updated, Due, Over
  <2>2. Lasts(r, 0)
    BY CountRanges DEF Lasts
  <2> QED
    BY <1>0, <1>1, <2>1, <2>2, PaysNone
<1>2. CASE Due(r, left, e) > 0
  <2>1. Updated(r, left, e)
          = AdvanceSteps(r, Due(r, left, e), Over(r, left, e))
    BY <1>0, <1>2 DEF Updated, Due, Over
  <2> QED
    BY <1>0, <1>2, <2>1, StepsPay
<1> QED
  BY <1>0, <1>1, <1>2

(* Updated is a record in each case.                                       *)
LEMMA UpdatedRecord ==
  ASSUME NEW r \in Register, NEW left \in Nat, NEW e \in Nat,
         NEW s, s = Updated(r, left, e)
  PROVE  s = [reg |-> s.reg, rest |-> s.rest]
<1>1. r.control.go \in BOOLEAN /\ Due(r, left, e) \in Nat
  BY RegisterFields, DueType
<1>2. CASE ~r.control.go \/ Due(r, left, e) = 0
  BY <1>1, <1>2 DEF Updated, Due
<1>3. CASE r.control.go /\ Due(r, left, e) > 0
  <2> DEFINE n == Due(r, left, e)
  <2>1. s = AdvanceSteps(r, n, Over(r, left, e))
    BY <1>1, <1>3 DEF Updated, Due, Over
  <2>2. StepsToExpiry(r, r.cntr) = First(r) /\ First(r) \in Nat
    BY CountRanges DEF StepsToExpiry, First, Steps
  <2>3. n < First(r) \/ n >= First(r)
    BY <1>1, <2>2
  <2> HIDE DEF n
  <2> QED
    BY <2>1, <2>2, <2>3 DEF AdvanceSteps
<1> QED
  BY <1>1, <1>2, <1>3

LEMMA UpdatedStopped ==
  ASSUME NEW r, NEW left, NEW e, ~r.control.go
  PROVE  Updated(r, left, e) = [reg |-> r, rest |-> 0]
BY DEF Updated

LEMMA UpdatedType ==
  ASSUME NEW r \in Register, NEW left \in Nat, NEW e \in Nat,
         NEW s, s = Updated(r, left, e)
  PROVE  /\ s \in State /\ Normal(s.reg, s.rest)
         /\ s.reg.control.rate = r.control.rate
<1>1. CASE ~r.control.go
  BY <1>1, UpdatedStopped DEF State, Normal
<1>2. CASE r.control.go
  <2> DEFINE n == Due(r, left, e)
  <2>1. /\ Pays(r, s.reg, n)
        /\ s.rest = IF Lasts(r, n) THEN Over(r, left, e) ELSE 0
    BY <1>2, UpdatedRunning
  <2>2. n \in Nat /\ Over(r, left, e) \in 0 .. Period[r.control.rate] - 1
    BY DueType
  <2>3. Period[r.control.rate] \in Nat \ {0}
    BY PeriodType, RegisterFields
  <2> HIDE DEF n
  <2>4. /\ s.reg \in Register /\ s.reg.control.rate = r.control.rate
        /\ Lasts(r, n) => s.reg.control = r.control
        /\ ~Lasts(r, n) => ~s.reg.control.go
    BY <2>1, <2>2, PaysType DEF Lasts
  <2>5. s = [reg |-> s.reg, rest |-> s.rest]
    BY UpdatedRecord
  <2> QED
    BY <1>2, <2>1, <2>2, <2>3, <2>4, <2>5 DEF State, Normal
<1> QED
  BY <1>1, <1>2

-----------------------------------------------------------------------------
(***************************************************************************)
(* Two payments are one, no payment changes nothing, and the payment of    *)
(* one instruction is what the abstract clock does.                        *)
(***************************************************************************)
LEMMA SameState ==
  ASSUME NEW s, NEW t,
         s = [reg |-> s.reg, rest |-> s.rest],
         t = [reg |-> t.reg, rest |-> t.rest],
         s.reg = t.reg, s.rest = t.rest
  PROVE  s = t
OBVIOUS

LEMMA UpdatedZero ==
  ASSUME NEW r \in Register, NEW left \in Nat, Normal(r, left)
  PROVE  Updated(r, left, 0) = [reg |-> r, rest |-> left]
<1>1. CASE ~r.control.go
  BY <1>1, UpdatedStopped DEF Normal
<1>2. CASE r.control.go
  <2>1. left < Period[r.control.rate] /\ Period[r.control.rate] \in Nat \ {0}
    BY <1>2, PeriodType, RegisterFields DEF Normal
  <2>2. left + 0 = left
    OBVIOUS
  <2>3. Due(r, left, 0) = 0 /\ Over(r, left, 0) = left
    BY <2>1, <2>2, DivModLess DEF Due, Over
  <2> QED
    BY <1>2, <2>3 DEF Updated, Due, Over
<1> QED
  BY <1>1, <1>2

LEMMA DueSum ==
  ASSUME NEW r \in Register, NEW s \in Register, NEW left \in Nat,
         NEW a \in Nat, NEW b \in Nat, s.control.rate = r.control.rate
  PROVE  /\ Due(r, left, a + b)
              = Due(r, left, a) + Due(s, Over(r, left, a), b)
         /\ Over(r, left, a + b) = Over(s, Over(r, left, a), b)
<1>1. /\ Period[r.control.rate] \in Nat \ {0}
      /\ left + a \in Nat /\ left + (a + b) = (left + a) + b
  BY PeriodType, RegisterFields
<1> DEFINE p == Period[r.control.rate]
           e == left + a
<1>2. p \in Nat \ {0} /\ e \in Nat
  BY <1>1
<1>3. /\ Due(r, left, a) = e \div p /\ Over(r, left, a) = e % p
      /\ Due(r, left, a + b) = (e + b) \div p
      /\ Over(r, left, a + b) = (e + b) % p
      /\ Due(s, e % p, b) = ((e % p) + b) \div p
      /\ Over(s, e % p, b) = ((e % p) + b) % p
  BY <1>1 DEF Due, Over
<1> HIDE DEF p, e
<1>4. /\ (e + b) \div p = (e \div p) + (((e % p) + b) \div p)
      /\ (e + b) % p = ((e % p) + b) % p
  BY <1>2, DivModSum
<1> QED
  BY <1>3, <1>4

LEMMA DueAfter ==
  ASSUME NEW r \in Register, NEW left \in Nat, NEW a \in Nat, NEW b \in Nat,
         NEW u, u = Updated(r, left, a)
  PROVE  /\ Due(r, left, a + b)
              = Due(r, left, a) + Due(u.reg, Over(r, left, a), b)
         /\ Over(r, left, a + b) = Over(u.reg, Over(r, left, a), b)
<1>1. u.reg \in Register /\ u.reg.control.rate = r.control.rate
  <2>1. u \in State /\ u.reg.control.rate = r.control.rate
    BY UpdatedType
  <2> QED
    BY <2>1 DEF State
<1>2. \A x \in Register :
        x.control.rate = r.control.rate =>
          /\ Due(r, left, a + b)
               = Due(r, left, a) + Due(x, Over(r, left, a), b)
          /\ Over(r, left, a + b) = Over(x, Over(r, left, a), b)
  BY ONLY DueSum
<1> QED
  BY <1>1, <1>2

LEMMA UpdatedTwice ==
  ASSUME NEW r \in Register, NEW left \in Nat, NEW a \in Nat, NEW b \in Nat,
         NEW u, u = Updated(r, left, a)
  PROVE  Updated(u.reg, u.rest, b) = Updated(r, left, a + b)
<1>0. u.reg \in Register /\ u.rest \in Nat /\ a + b \in Nat
  BY UpdatedType DEF State
<1> DEFINE v == Updated(u.reg, u.rest, b)
           w == Updated(r, left, a + b)
<1>1. /\ v = [reg |-> v.reg, rest |-> v.rest]
      /\ w = [reg |-> w.reg, rest |-> w.rest]
  BY <1>0, UpdatedRecord
<1>2. CASE ~r.control.go
  <2>1. u = [reg |-> r, rest |-> 0] /\ w = [reg |-> r, rest |-> 0]
    BY <1>2, UpdatedStopped
  <2> QED
    BY <1>2, <2>1, UpdatedStopped
<1>3. CASE r.control.go
  <2> DEFINE m == Due(r, left, a)
             k == Over(r, left, a)
             n == Due(u.reg, k, b)
  <2>1. /\ Pays(r, u.reg, m) /\ u.rest = IF Lasts(r, m) THEN k ELSE 0
        /\ m \in Nat /\ k \in Nat
    BY <1>3, UpdatedRunning, DueType
  <2>2. u.reg.control.rate = r.control.rate
    BY UpdatedType
  <2>3. /\ Due(r, left, a + b) = m + n /\ n \in Nat
        /\ Over(r, left, a + b) = Over(u.reg, k, b)
    <3>1. n \in Nat
      BY <1>0, <2>1, DueType
    <3> QED
      BY <3>1, DueAfter
  <2>4. /\ Pays(r, w.reg, m + n)
        /\ w.rest = IF Lasts(r, m + n) THEN Over(u.reg, k, b) ELSE 0
    BY <1>0, <1>3, <2>3, UpdatedRunning
  <2> HIDE DEF m, k, n, v, w
  <2>5. CASE Lasts(r, m)
    <3>1. u.reg.control = r.control /\ u.rest = k
      BY <2>1, <2>5, PaysType DEF Lasts
    <3>2. /\ Pays(u.reg, v.reg, n)
          /\ v.rest = IF Lasts(u.reg, n) THEN Over(u.reg, k, b) ELSE 0
      BY <1>0, <1>3, <3>1, UpdatedRunning DEF v, n
    <3>3. Pays(r, v.reg, m + n)
      BY <2>1, <2>3, <2>5, <3>2, PaysTwice DEF Lasts
    <3>4. v.reg = w.reg
      BY <2>1, <2>3, <2>4, <3>3, PaysOne
    <3>5. Lasts(u.reg, n) <=> Lasts(r, m + n)
      <4>1. CASE r.control.repeat
        BY <3>1, <4>1 DEF Lasts
      <4>2. CASE ~r.control.repeat
        <5>1. m < First(r) /\ Counted(r, u.reg, m)
          BY <2>1, <2>5, <4>2 DEF Lasts, Pays
        <5>2. First(u.reg) = First(r) - m
          BY <2>1, <3>1, <5>1, RegisterFields, MovedSteps DEF Counted, First
        <5>3. First(r) \in Nat
          BY CountRanges
        <5> QED
          BY <2>1, <2>3, <3>1, <4>2, <5>1, <5>2, <5>3 DEF Lasts
      <4> QED
        BY <4>1, <4>2
    <3> QED
      BY <1>1, <2>4, <3>2, <3>4, <3>5, SameState DEF v, w
  <2>6. CASE ~Lasts(r, m)
    <3>1. ~u.reg.control.go /\ u.rest = 0
      BY <2>1, <2>6, PaysType DEF Lasts
    <3>2. v = [reg |-> u.reg, rest |-> 0]
      BY <3>1, UpdatedStopped DEF v
    <3>3. ~r.control.repeat /\ m >= First(r) /\ First(r) \in Nat
      BY <2>1, <2>6, CountRanges DEF Lasts
    <3>4. Pays(r, u.reg, m + n)
      BY <2>1, <2>3, <3>3, PaysStopped
    <3>5. w.reg = u.reg
      BY <2>1, <2>3, <2>4, <3>4, PaysOne
    <3>6. ~Lasts(r, m + n)
      BY <2>1, <2>3, <3>3 DEF Lasts
    <3> QED
      BY <1>1, <2>4, <3>2, <3>5, <3>6, SameState DEF v, w
  <2> QED
    BY <2>5, <2>6 DEF v, w
<1> QED
  BY <1>2, <1>3

LEMMA TwoPayments ==
  ASSUME NEW r \in Register, NEW left \in Nat, NEW a \in Nat, NEW b \in Nat
  PROVE  Updated(Updated(r, left, a).reg, Updated(r, left, a).rest, b)
           = Updated(r, left, a + b)
BY UpdatedTwice

-----------------------------------------------------------------------------
(***************************************************************************)
(* The abstract clock shows a state: registers, and the part of a period   *)
(* that has gone by.                                                       *)
(***************************************************************************)
Clock == [control : Control, err : BOOLEAN, done : BOOLEAN, irq : BOOLEAN,
          csb : Value, cntr : Value, phase : Nat]

View(s) ==
  [control |-> s.reg.control, err |-> s.reg.err, done |-> s.reg.done,
   irq |-> s.reg.irq, csb |-> s.reg.csb, cntr |-> s.reg.cntr,
   phase |-> s.rest]

LEMMA ViewType == ASSUME NEW s \in State PROVE View(s) \in Clock
BY DEF State, Register, View, Clock

LEMMA SameClock ==
  ASSUME NEW c \in Clock, NEW d \in Clock,
         c.control = d.control, c.err <=> d.err, c.done <=> d.done,
         c.irq <=> d.irq, c.csb = d.csb, c.cntr = d.cntr, c.phase = d.phase
  PROVE  c = d
BY DEF Clock

LEMMA ClockFields ==
  ASSUME NEW c \in Clock
  PROVE  /\ c.control \in Control /\ c.err \in BOOLEAN /\ c.done \in BOOLEAN
         /\ c.irq \in BOOLEAN /\ c.csb \in Value /\ c.cntr \in Value
         /\ c.phase \in Nat /\ c.control.rate \in Rate
         /\ c.control.go \in BOOLEAN /\ c.control.ie \in BOOLEAN
         /\ c.control.repeat \in BOOLEAN /\ c.control.up \in BOOLEAN
BY DEF Clock, Control

LEMMA ExpireFields ==
  ASSUME NEW c \in Clock, NEW d, d = Promise!Expire(c)
  PROVE  /\ d \in Clock
         /\ c.control.repeat => d.control = c.control
         /\ ~c.control.repeat => d.control = [c.control EXCEPT !.go = FALSE]
         /\ (d.err <=> c.err \/ c.done) /\ d.done
         /\ (d.irq <=> c.irq \/ c.control.ie)
         /\ d.csb = IF c.control.repeat THEN c.csb ELSE 0
         /\ d.cntr = IF c.control.repeat THEN c.csb ELSE 0
         /\ d.phase = c.phase
<1>0. 0 \in Value
  BY ModulusType DEF Value
<1>1. CASE c.control.repeat
  BY <1>0, <1>1 DEF Promise!Expire, Clock, Control
<1>2. CASE ~c.control.repeat
  BY <1>0, <1>2 DEF Promise!Expire, Clock, Control
<1> QED
  BY <1>1, <1>2

LEMMA CountFields ==
  ASSUME NEW c \in Clock, NEW d, d = Promise!Count(c),
         NEW v, v = Moved(c.control.up, c.cntr, 1)
  PROVE  /\ v \in Value
         /\ v # 0 => d = [c EXCEPT !.cntr = v, !.phase = 0]
         /\ v = 0 => d = Promise!Expire([c EXCEPT !.cntr = 0, !.phase = 0])
<1>1. v = (c.cntr + (IF c.control.up THEN 1 ELSE Modulus - 1)) % Modulus
  BY DEF Moved
<1>2. c.cntr + (IF c.control.up THEN 1 ELSE Modulus - 1) \in Nat
  BY ClockFields, ModulusType DEF Value
<1>3. v \in Value
  <2> DEFINE x == c.cntr + (IF c.control.up THEN 1 ELSE Modulus - 1)
  <2>1. x \in Nat /\ v = x % Modulus
    BY <1>1, <1>2
  <2> HIDE DEF x
  <2> QED
    BY <2>1, ModulusType DEF Value
<1> QED
  BY <1>1, <1>3 DEF Promise!Count

(* One instruction, paid at once.                                          *)
LEMMA OneInstruction ==
  ASSUME NEW s \in State, Normal(s.reg, s.rest)
  PROVE  View(Updated(s.reg, s.rest, 1)) = Promise!AfterInstruction(View(s))
<1> DEFINE r == s.reg
           left == s.rest
           t == Updated(r, left, 1)
           c == View(s)
<1>0. /\ r \in Register /\ left \in Nat /\ s = [reg |-> r, rest |-> left]
      /\ c \in Clock /\ c.control = r.control /\ c.phase = left
      /\ c.err = r.err /\ c.done = r.done /\ c.irq = r.irq
      /\ c.csb = r.csb /\ c.cntr = r.cntr
  BY ViewType DEF State, View
<1>n. Normal(r, left)
  OBVIOUS
<1>1. CASE ~r.control.go
  <2>1. t = [reg |-> r, rest |-> 0] /\ left = 0
    BY <1>1, <1>n, UpdatedStopped DEF Normal
  <2>2. View(t) = c
    BY <1>0, <2>1 DEF View
  <2>3. Promise!AfterInstruction(c) = c
    BY <1>0, <1>1 DEF Promise!AfterInstruction
  <2> QED
    BY <2>2, <2>3
<1>2. CASE r.control.go
  <2> DEFINE p == Period[r.control.rate]
  <2>1. p \in Nat \ {0} /\ left < p
    BY <1>0, <1>2, <1>n, PeriodType, RegisterFields DEF Normal
  <2>2. CASE left + 1 < p
    <3>1. Due(r, left, 1) = 0 /\ Over(r, left, 1) = left + 1
      BY <1>0, <2>1, <2>2, DivModLess DEF Due, Over
    <3>2. t = [reg |-> r, rest |-> left + 1]
      BY <1>0, <1>2, <3>1 DEF Updated, Due, Over
    <3>3. View(t) = [c EXCEPT !.phase = left + 1]
      BY <1>0, <3>2 DEF View
    <3>4. Promise!AfterInstruction(c) = [c EXCEPT !.phase = left + 1]
      BY <1>0, <1>2, <2>1, <2>2 DEF Promise!AfterInstruction, Clock
    <3> QED
      BY <3>3, <3>4
  <2>3. CASE left + 1 = p
    <3> DEFINE v == Moved(c.control.up, c.cntr, 1)
               d == Promise!Count(c)
    <3>1. Due(r, left, 1) = 1 /\ Over(r, left, 1) = 0
      <4>1. p = p * 1 + 0 /\ 0 \in 0 .. p - 1
        BY <2>1
      <4>2. p \div p = 1 /\ p % p = 0
        BY <2>1, <4>1, DivModUnique
      <4> QED
        BY <2>3, <4>2 DEF Due, Over
    <3>2. /\ Pays(r, t.reg, 1) /\ t.rest = 0
          /\ t = [reg |-> t.reg, rest |-> t.rest] /\ t \in State
      BY <1>0, <1>2, <3>1, UpdatedRunning, UpdatedRecord, UpdatedType
    <3>3. Promise!AfterInstruction(c) = d
      BY <1>0, <1>2, <2>1, <2>3 DEF Promise!AfterInstruction
    <3>4. /\ v \in Value
          /\ v # 0 => d = [c EXCEPT !.cntr = v, !.phase = 0]
          /\ v = 0 => d = Promise!Expire([c EXCEPT !.cntr = 0, !.phase = 0])
      BY <1>0, CountFields
    <3>5. v = 0 <=> First(r) = 1
      BY <1>0, RegisterFields, MovedToZero DEF First
    <3>6. First(r) \in 1 .. Modulus /\ Cycle(r) \in 1 .. Modulus
      BY <1>0, CountRanges
    <3>7. View(t) \in Clock
      BY <3>2, ViewType
    <3> HIDE DEF t, c, v, d
    <3>8. CASE v # 0
      <4>1. Counted(r, t.reg, 1)
        BY <3>2, <3>5, <3>6, <3>8 DEF Pays
      <4>2. d = [c EXCEPT !.cntr = v, !.phase = 0] /\ d \in Clock
        <5>1. d = [c EXCEPT !.cntr = v, !.phase = 0]
          BY <3>4, <3>8
        <5>2. c \in Clock /\ v \in Value /\ 0 \in Nat
          BY <1>0, <3>4
        <5> QED
          BY ONLY <5>1, <5>2 DEF Clock
      <4>3. View(t) = d
        <5>1. /\ d.control = r.control /\ d.err = r.err /\ d.done = r.done
              /\ d.irq = r.irq /\ d.csb = r.csb /\ d.cntr = v /\ d.phase = 0
          BY <1>0, <4>2 DEF Clock
        <5>2. v = Moved(r.control.up, r.cntr, 1)
          BY <1>0 DEF v
        <5>3. /\ View(t).control = t.reg.control /\ View(t).err = t.reg.err
              /\ View(t).done = t.reg.done /\ View(t).irq = t.reg.irq
              /\ View(t).csb = t.reg.csb /\ View(t).cntr = t.reg.cntr
              /\ View(t).phase = t.rest
          BY DEF View
        <5>4. /\ View(t).control = d.control /\ (View(t).err <=> d.err)
              /\ (View(t).done <=> d.done) /\ (View(t).irq <=> d.irq)
              /\ View(t).csb = d.csb /\ View(t).cntr = d.cntr
              /\ View(t).phase = d.phase
          BY ONLY <3>2, <4>1, <5>1, <5>2, <5>3 DEF Counted
        <5> QED
          BY <3>7, <4>2, <5>4, SameClock
      <4> QED
        BY <3>3, <4>3 DEF t, c
    <3>9. CASE v = 0
      <4> DEFINE z == [c EXCEPT !.cntr = 0, !.phase = 0]
      <4>1. /\ z \in Clock /\ d = Promise!Expire(z)
            /\ z.control = r.control /\ z.err = r.err /\ z.done = r.done
            /\ z.irq = r.irq /\ z.csb = r.csb /\ z.phase = 0
        BY <1>0, <3>4, <3>9 DEF Clock
      <4> HIDE DEF z
      <4>2. /\ d \in Clock
            /\ r.control.repeat => d.control = r.control
            /\ ~r.control.repeat => d.control = [r.control EXCEPT !.go = FALSE]
            /\ (d.err <=> r.err \/ r.done) /\ d.done
            /\ (d.irq <=> r.irq \/ r.control.ie)
            /\ d.csb = IF r.control.repeat THEN r.csb ELSE 0
            /\ d.cntr = IF r.control.repeat THEN r.csb ELSE 0
            /\ d.phase = 0
        BY <4>1, ExpireFields
      <4>3. First(r) = 1
        BY <3>5, <3>9
      <4>4. CASE ~r.control.repeat
        <5>1. Expired(r, t.reg)
          BY <3>2, <4>3, <4>4 DEF Pays
        <5>2. /\ View(t).control = t.reg.control /\ View(t).err = t.reg.err
              /\ View(t).done = t.reg.done /\ View(t).irq = t.reg.irq
              /\ View(t).csb = t.reg.csb /\ View(t).cntr = t.reg.cntr
              /\ View(t).phase = t.rest
          BY DEF View
        <5>3. /\ View(t).control = d.control /\ (View(t).err <=> d.err)
              /\ (View(t).done <=> d.done) /\ (View(t).irq <=> d.irq)
              /\ View(t).csb = d.csb /\ View(t).cntr = d.cntr
              /\ View(t).phase = d.phase
          BY ONLY <3>2, <4>2, <4>4, <5>1, <5>2 DEF Expired
        <5>4. View(t) = d
          BY ONLY <3>7, <4>2, <5>3, SameClock
        <5> QED
          BY <3>3, <5>4 DEF t, c
      <4>5. CASE r.control.repeat
        <5>1. Repeated(r, t.reg, 0)
          BY <3>2, <4>3, <4>5 DEF Pays
        <5>2. Moved(r.control.up, r.csb, 0 % Cycle(r)) = r.csb
          BY <1>0, <3>6, DivModLess, RegisterFields, MovedByNone
        <5>3. ~(0 >= Cycle(r))
          BY <3>6
        <5>4. View(t) = d
          BY <3>2, <3>7, <4>2, <4>5, <5>1, <5>2, <5>3, SameClock
             DEF View, Repeated
        <5> QED
          BY <3>3, <5>4 DEF t, c
      <4> QED
        BY <4>4, <4>5
    <3> QED
      BY <3>8, <3>9
  <2> QED
    BY <1>0, <2>1, <2>2, <2>3
<1> QED
  BY <1>1, <1>2

-----------------------------------------------------------------------------
(***************************************************************************)
(* What the guest and the task store, after the payment, is what the       *)
(* abstract clock's step makes of what was shown.                          *)
(***************************************************************************)
LEMMA ForgottenFields ==
  ASSUME NEW c \in Clock, NEW d, d = Promise!Forgotten(c)
  PROVE  /\ d \in Clock /\ d.control = c.control
         /\ d.err = FALSE /\ d.done = FALSE /\ d.irq = FALSE
         /\ d.csb = c.csb /\ d.cntr = c.cntr /\ d.phase = c.phase
BY DEF Promise!Forgotten, Clock

LEMMA ViewFields ==
  ASSUME NEW s, NEW c, c = View(s)
  PROVE  /\ c.control = s.reg.control /\ c.err = s.reg.err
         /\ c.done = s.reg.done /\ c.irq = s.reg.irq
         /\ c.csb = s.reg.csb /\ c.cntr = s.reg.cntr /\ c.phase = s.rest
BY DEF View

LEMMA AcknowledgedFields ==
  ASSUME NEW r \in Register, NEW t, t = Acknowledged(r)
  PROVE  /\ t \in Register /\ t.control = r.control
         /\ t.err = FALSE /\ t.done = FALSE /\ t.irq = FALSE
         /\ t.csb = r.csb /\ t.cntr = r.cntr
BY DEF Acknowledged, Register

LEMMA Acknowledges ==
  ASSUME NEW s \in State, Normal(s.reg, s.rest),
         NEW t, t = [s EXCEPT !.reg = Acknowledged(@)]
  PROVE  /\ t \in State /\ Normal(t.reg, t.rest)
         /\ View(t) = Promise!Forgotten(View(s))
<1>1. t = [reg |-> Acknowledged(s.reg), rest |-> s.rest]
  BY DEF State
<1>2. s.reg \in Register /\ s.rest \in Nat
  BY DEF State
<1>3. t \in State /\ t.reg.control = s.reg.control /\ t.rest = s.rest
  BY <1>1, <1>2, AcknowledgedFields DEF State
<1>4. View(t) = Promise!Forgotten(View(s))
  <2> DEFINE c == View(s)
             d == View(t)
             f == Promise!Forgotten(c)
  <2>1. c \in Clock /\ d \in Clock
    BY <1>3, ViewType
  <2>2. /\ f \in Clock /\ f.control = c.control
        /\ f.err = FALSE /\ f.done = FALSE /\ f.irq = FALSE
        /\ f.csb = c.csb /\ f.cntr = c.cntr /\ f.phase = c.phase
    BY <2>1, ForgottenFields
  <2>3. /\ d.control = c.control /\ d.err = FALSE /\ d.done = FALSE
        /\ d.irq = FALSE /\ d.csb = c.csb /\ d.cntr = c.cntr
        /\ d.phase = c.phase
    <3> DEFINE a == Acknowledged(s.reg)
    <3>1. /\ a.control = s.reg.control /\ a.err = FALSE /\ a.done = FALSE
          /\ a.irq = FALSE /\ a.csb = s.reg.csb /\ a.cntr = s.reg.cntr
      BY <1>2, AcknowledgedFields
    <3>2. t.reg = a /\ t.rest = s.rest
      BY <1>1
    <3>3. /\ c.control = s.reg.control /\ c.csb = s.reg.csb
          /\ c.cntr = s.reg.cntr /\ c.phase = s.rest
      BY ViewFields
    <3>4. /\ d.control = t.reg.control /\ d.err = t.reg.err
          /\ d.done = t.reg.done /\ d.irq = t.reg.irq
          /\ d.csb = t.reg.csb /\ d.cntr = t.reg.cntr /\ d.phase = t.rest
      BY ViewFields
    <3> HIDE DEF a, c, d
    <3> QED
      BY <3>1, <3>2, <3>3, <3>4
  <2> HIDE DEF c, d, f
  <2>4. d = f
    BY <2>1, <2>2, <2>3, SameClock
  <2> QED
    BY <2>4 DEF c, d, f
<1> QED
  BY <1>3, <1>4 DEF Normal

LEMMA Loads ==
  ASSUME NEW s \in State, NEW v \in Value,
         NEW t, t = [reg |-> [Acknowledged(s.reg) EXCEPT !.csb = v, !.cntr = v],
                     rest |-> 0]
  PROVE  /\ t \in State /\ Normal(t.reg, t.rest)
         /\ View(t) = Promise!AfterLoad(View(s), v)
<1>1. s.reg \in Register
  BY DEF State
<1>2. t \in State /\ t.rest = 0
  BY <1>1 DEF Acknowledged, State, Register
<1>3. Normal(t.reg, 0)
  <2>1. t.reg.control.rate \in Rate
    BY <1>2, RegisterFields DEF State
  <2> QED
    BY <2>1, PeriodType DEF Normal
<1>4. View(t) = Promise!AfterLoad(View(s), v)
  <2> DEFINE c == View(s)
             d == View(t)
             f == Promise!Forgotten(c)
             l == Promise!AfterLoad(c, v)
             a == Acknowledged(s.reg)
  <2>1. c \in Clock /\ d \in Clock /\ c.control = s.reg.control
    BY <1>2, ViewType, ViewFields
  <2>2. /\ f \in Clock /\ f.control = c.control
        /\ f.err = FALSE /\ f.done = FALSE /\ f.irq = FALSE
    BY <2>1, ForgottenFields
  <2>3. l = [f EXCEPT !.csb = v, !.cntr = v, !.phase = 0]
    BY DEF Promise!AfterLoad
  <2>4. /\ a \in Register /\ a.control = s.reg.control
        /\ a.err = FALSE /\ a.done = FALSE /\ a.irq = FALSE
    BY <1>1, AcknowledgedFields
  <2>5. /\ d.control = t.reg.control /\ d.err = t.reg.err
        /\ d.done = t.reg.done /\ d.irq = t.reg.irq
        /\ d.csb = t.reg.csb /\ d.cntr = t.reg.cntr /\ d.phase = t.rest
    BY ViewFields
  <2>6. t.reg = [a EXCEPT !.csb = v, !.cntr = v] /\ t.rest = 0
    OBVIOUS
  <2> HIDE DEF c, d, f, l, a
  <2>7. /\ l \in Clock /\ l.control = s.reg.control /\ l.err = FALSE
        /\ l.done = FALSE /\ l.irq = FALSE /\ l.csb = v /\ l.cntr = v
        /\ l.phase = 0
    BY <2>1, <2>2, <2>3 DEF Clock
  <2>8. /\ d.control = s.reg.control /\ d.err = FALSE /\ d.done = FALSE
        /\ d.irq = FALSE /\ d.csb = v /\ d.cntr = v /\ d.phase = 0
    BY <2>4, <2>5, <2>6 DEF Register
  <2>9. d = l
    BY <2>1, <2>7, <2>8, SameClock
  <2> QED
    BY <2>9 DEF c, d, l
<1> QED
  BY <1>2, <1>3, <1>4

LEMMA Blanks ==
  ASSUME NEW rt \in Rate, NEW t, t = [reg |-> Blank(rt), rest |-> 0]
  PROVE  /\ t \in State /\ Normal(t.reg, t.rest)
         /\ View(t) = Promise!Cleared(rt)
<1>1. 0 \in Value
  BY ModulusType DEF Value
<1>2. Blank(rt) \in Register /\ ~Blank(rt).control.go
  BY <1>1 DEF Blank, Off, Register, Control
<1>3. View(t) = Promise!Cleared(rt)
  BY DEF View, Blank, Off, Promise!Cleared, Promise!Stopped
<1> QED
  BY <1>2, <1>3 DEF State, Normal

(* FIX counts once by hand.                                                *)
LEMMA CountsByHand ==
  ASSUME NEW r \in Register, NEW t, t = ManualTick(r), NEW left \in Nat
  PROVE  /\ t \in Register /\ t.control = r.control
         /\ ~r.control.go =>
              View([reg |-> t, rest |-> 0])
                = [Promise!Count(View([reg |-> r, rest |-> left]))
                     EXCEPT !.phase = 0]
<1> DEFINE v == Moved(r.control.up, r.cntr, 1)
           n == AdvanceWithoutExpiry(r, 1)
           c == View([reg |-> r, rest |-> left])
           d == Promise!Count(c)
           loaded == IF r.control.repeat THEN [n EXCEPT !.cntr = n.csb]
                     ELSE [n EXCEPT !.csb = 0]
<1>0. [reg |-> r, rest |-> left] \in State
  BY DEF State
<1>1. /\ c \in Clock /\ c.control = r.control /\ c.phase = left
      /\ c.err = r.err /\ c.done = r.done /\ c.irq = r.irq
      /\ c.csb = r.csb /\ c.cntr = r.cntr
  BY <1>0, ViewType DEF View
<1>2. /\ v \in Value
      /\ v # 0 => d = [c EXCEPT !.cntr = v, !.phase = 0]
      /\ v = 0 => d = Promise!Expire([c EXCEPT !.cntr = 0, !.phase = 0])
  BY <1>1, CountFields
<1>3. n = [r EXCEPT !.cntr = v] /\ n \in Register /\ n.cntr = v
  <2>1. n = [r EXCEPT !.cntr = v]
    BY DEF AdvanceWithoutExpiry, Moved
  <2> HIDE DEF n, v
  <2> QED
    BY <1>2, <2>1 DEF Register
<1>4. t = IF v # 0 THEN n ELSE RecordExpirations(loaded, 1)
  <2>1. n.control = r.control
    BY <1>3 DEF Register
  <2> HIDE DEF v
  <2> QED
    BY <1>3, <2>1 DEF ManualTick
<1> HIDE DEF c, d, n, v
<1>5. CASE v # 0
  <2>1. t = [r EXCEPT !.cntr = v] /\ t \in Register
    BY <1>3, <1>4, <1>5
  <2>2. t.control = r.control
    BY <2>1 DEF Register
  <2>3. View([reg |-> t, rest |-> 0]) = [d EXCEPT !.phase = 0]
    <3>1. d = [c EXCEPT !.cntr = v, !.phase = 0]
      BY <1>2, <1>5
    <3> DEFINE x == View([reg |-> t, rest |-> 0])
               e == [d EXCEPT !.phase = 0]
    <3>2. /\ e \in Clock /\ e.control = c.control /\ e.err = c.err
          /\ e.done = c.done /\ e.irq = c.irq /\ e.csb = c.csb
          /\ e.cntr = v /\ e.phase = 0
      BY <1>1, <1>2, <3>1 DEF Clock
    <3>3. /\ x.control = r.control /\ x.err = r.err /\ x.done = r.done
          /\ x.irq = r.irq /\ x.csb = r.csb /\ x.cntr = v /\ x.phase = 0
      BY <2>1 DEF View, Register
    <3>4. x \in Clock
      BY <2>1, ViewType DEF State
    <3> HIDE DEF x, e
    <3>5. x = e
      BY <1>1, <3>2, <3>3, <3>4, SameClock
    <3> QED
      BY <3>5 DEF x, e
  <2> QED
    BY <2>1, <2>2, <2>3 DEF d, c
<1>6. CASE v = 0
  <2> DEFINE z == [c EXCEPT !.cntr = 0, !.phase = 0]
             x == View([reg |-> t, rest |-> 0])
             e == [d EXCEPT !.phase = 0]
  <2>0. 0 \in Value /\ ~(1 > 1)
    BY ModulusType DEF Value
  <2>1. /\ z \in Clock /\ d = Promise!Expire(z)
        /\ z.control = r.control /\ z.err = r.err /\ z.done = r.done
        /\ z.irq = r.irq /\ z.csb = r.csb
    BY <1>1, <1>2, <1>6, <2>0 DEF Clock
  <2>2. t = RecordExpirations(loaded, 1)
    BY <1>4, <1>6
  <2>3. /\ loaded \in Register /\ loaded.control = r.control
        /\ loaded.err = r.err /\ loaded.done = r.done /\ loaded.irq = r.irq
        /\ loaded.csb = IF r.control.repeat THEN r.csb ELSE 0
        /\ loaded.cntr = IF r.control.repeat THEN r.csb ELSE 0
    BY <1>3, <1>6, <2>0 DEF Register
  <2> HIDE DEF loaded, z
  <2>4. /\ t \in Register /\ t.control = r.control
        /\ (t.err <=> r.err \/ r.done) /\ t.done
        /\ (t.irq <=> r.irq \/ r.control.ie)
        /\ t.csb = loaded.csb /\ t.cntr = loaded.cntr
    BY <2>0, <2>2, <2>3 DEF RecordExpirations, Register, Control
  <2>5. ASSUME ~r.control.go PROVE x = e
    <3>1. /\ d \in Clock
          /\ r.control.repeat => d.control = r.control
          /\ ~r.control.repeat => d.control = [r.control EXCEPT !.go = FALSE]
          /\ (d.err <=> r.err \/ r.done) /\ d.done
          /\ (d.irq <=> r.irq \/ r.control.ie)
          /\ d.csb = IF r.control.repeat THEN r.csb ELSE 0
          /\ d.cntr = IF r.control.repeat THEN r.csb ELSE 0
      BY <2>1, ExpireFields
    <3>2. [r.control EXCEPT !.go = FALSE] = r.control
      BY <2>5, RegisterFields DEF Control
    <3>3. /\ e \in Clock /\ e.control = d.control /\ e.err = d.err
          /\ e.done = d.done /\ e.irq = d.irq /\ e.csb = d.csb
          /\ e.cntr = d.cntr /\ e.phase = 0
      BY <3>1 DEF Clock
    <3>4. /\ x \in Clock /\ x.control = t.control /\ x.err = t.err
          /\ x.done = t.done /\ x.irq = t.irq /\ x.csb = t.csb
          /\ x.cntr = t.cntr /\ x.phase = 0
      BY <2>4 DEF View, Clock, Register
    <3> HIDE DEF x, e
    <3>5. /\ x.control = e.control /\ (x.err <=> e.err) /\ (x.done <=> e.done)
          /\ (x.irq <=> e.irq) /\ x.csb = e.csb /\ x.cntr = e.cntr
          /\ x.phase = e.phase
      BY <2>3, <2>4, <3>1, <3>2, <3>3, <3>4
    <3> QED
      BY <3>3, <3>4, <3>5, SameClock
  <2> QED
    BY <2>4, <2>5 DEF c, d
<1> QED
  BY <1>5, <1>6

(* A write of the control register, after the payment.                     *)
Written(s, w, fix) ==
  LET r == [s.reg EXCEPT !.control = w, !.err = FALSE, !.done = FALSE,
                         !.irq = FALSE]
      same == s.reg.control.go /\ s.reg.control.rate = w.rate
  IN  CASE w.go /\ same -> [reg |-> r, rest |-> s.rest]
        [] w.go /\ ~same -> [reg |-> [r EXCEPT !.cntr = r.csb], rest |-> 0]
        [] ~w.go -> [reg |-> IF fix THEN ManualTick(r) ELSE r, rest |-> 0]

LEMMA Controls ==
  ASSUME NEW s \in State, Normal(s.reg, s.rest), NEW w \in Control,
         NEW fix \in {FALSE, ~w.go}
  PROVE  /\ Written(s, w, fix) \in State
         /\ Normal(Written(s, w, fix).reg, Written(s, w, fix).rest)
         /\ Written(s, w, fix).reg.control = w
         /\ View(Written(s, w, fix))
              = Promise!AfterControl(View(s), w, fix)
<1> DEFINE t == Written(s, w, fix)
<1> SUFFICES /\ t \in State /\ Normal(t.reg, t.rest) /\ t.reg.control = w
             /\ View(t) = Promise!AfterControl(View(s), w, fix)
  OBVIOUS
<1> HIDE DEF t
<1> DEFINE r == [s.reg EXCEPT !.control = w, !.err = FALSE, !.done = FALSE,
                              !.irq = FALSE]
           same == s.reg.control.go /\ s.reg.control.rate = w.rate
           c == View(s)
           f == Promise!Forgotten(c)
           kept == [f EXCEPT !.control = w]
           a == Promise!AfterControl(c, w, fix)
           d == View(t)
<1>1. /\ s.reg \in Register /\ s.rest \in Nat /\ c \in Clock
      /\ c.control = s.reg.control /\ c.csb = s.reg.csb
      /\ c.cntr = s.reg.cntr /\ c.phase = s.rest
  BY ViewType, ViewFields DEF State
<1>2. /\ r \in Register /\ r.control = w /\ r.err = FALSE /\ r.done = FALSE
      /\ r.irq = FALSE /\ r.csb = s.reg.csb /\ r.cntr = s.reg.cntr
  BY <1>1 DEF Register
<1>3. /\ kept \in Clock /\ kept.control = w /\ kept.err = FALSE
      /\ kept.done = FALSE /\ kept.irq = FALSE /\ kept.csb = s.reg.csb
      /\ kept.cntr = s.reg.cntr /\ kept.phase = s.rest
  <2>1. /\ f \in Clock /\ f.err = FALSE /\ f.done = FALSE /\ f.irq = FALSE
        /\ f.csb = c.csb /\ f.cntr = c.cntr /\ f.phase = c.phase
    BY <1>1, ForgottenFields
  <2> HIDE DEF f, c
  <2> QED
    BY <1>1, <2>1 DEF Clock
<1>4. w.go \in BOOLEAN /\ w.rate \in Rate /\ Period[w.rate] \in Nat \ {0}
  BY PeriodType DEF Control
<1>5. /\ d.control = t.reg.control /\ d.err = t.reg.err /\ d.done = t.reg.done
      /\ d.irq = t.reg.irq /\ d.csb = t.reg.csb /\ d.cntr = t.reg.cntr
      /\ d.phase = t.rest
  BY ViewFields
<1>6. same <=> c.control.go /\ c.control.rate = w.rate
  BY <1>1
<1>7. /\ w.go /\ same => a = kept
      /\ w.go /\ ~same => a = [kept EXCEPT !.cntr = c.csb, !.phase = 0]
      /\ ~w.go /\ fix => a = [Promise!Count(kept) EXCEPT !.phase = 0]
      /\ ~w.go /\ ~fix => a = [kept EXCEPT !.phase = 0]
  <2> HIDE DEF same
  <2> QED
    BY <1>4, <1>6 DEF Promise!AfterControl
<1>8. /\ w.go /\ same => t = [reg |-> r, rest |-> s.rest]
      /\ w.go /\ ~same => t = [reg |-> [r EXCEPT !.cntr = r.csb], rest |-> 0]
      /\ ~w.go => t = [reg |-> IF fix THEN ManualTick(r) ELSE r, rest |-> 0]
  BY <1>4 DEF Written, t
<1>9. same /\ w.go => s.rest < Period[w.rate]
  BY DEF Normal
<1>10. t \in State => d \in Clock
  BY ViewType
<1>11. View([reg |-> r, rest |-> s.rest]) = kept
  <2> DEFINE k == View([reg |-> r, rest |-> s.rest])
  <2>1. k \in Clock
    BY <1>1, <1>2, ViewType DEF State
  <2>2. /\ k.control = w /\ k.err = FALSE /\ k.done = FALSE /\ k.irq = FALSE
        /\ k.csb = s.reg.csb /\ k.cntr = s.reg.cntr /\ k.phase = s.rest
    BY <1>2 DEF View
  <2> HIDE DEF k, kept
  <2>3. k = kept
    BY <1>3, <2>1, <2>2, SameClock
  <2> QED
    BY <2>3 DEF k
<1> HIDE DEF r, same, c, f, kept, a, d
<1>12. CASE w.go /\ same
  <2>1. t = [reg |-> r, rest |-> s.rest] /\ a = kept
    BY <1>7, <1>8, <1>12
  <2>2. t \in State /\ t.reg.control = w /\ Normal(t.reg, t.rest)
    BY <1>1, <1>2, <1>9, <1>12, <2>1 DEF State, Normal
  <2> QED
    BY <1>11, <2>1, <2>2 DEF a, c
<1>13. CASE w.go /\ ~same
  <2>1. /\ t = [reg |-> [r EXCEPT !.cntr = r.csb], rest |-> 0]
        /\ a = [kept EXCEPT !.cntr = c.csb, !.phase = 0]
    BY <1>7, <1>8, <1>13
  <2>2. /\ t.reg \in Register /\ t.reg.control = w /\ t.reg.err = FALSE
        /\ t.reg.done = FALSE /\ t.reg.irq = FALSE
        /\ t.reg.csb = s.reg.csb /\ t.reg.cntr = s.reg.csb /\ t.rest = 0
    BY <1>2, <2>1 DEF Register
  <2>3. t \in State /\ Normal(t.reg, t.rest)
    BY <1>4, <1>13, <2>1, <2>2 DEF State, Normal
  <2>4. /\ a \in Clock /\ a.control = w /\ a.err = FALSE /\ a.done = FALSE
        /\ a.irq = FALSE /\ a.csb = s.reg.csb /\ a.cntr = s.reg.csb
        /\ a.phase = 0
    BY <1>1, <1>3, <2>1 DEF Clock
  <2>5. d = a
    BY <1>5, <1>10, <2>2, <2>3, <2>4, SameClock
  <2> QED
    BY <2>2, <2>3, <2>5 DEF a, c, d
<1>14. CASE ~w.go /\ fix
  <2>1. /\ t = [reg |-> ManualTick(r), rest |-> 0]
        /\ a = [Promise!Count(kept) EXCEPT !.phase = 0]
    BY <1>7, <1>8, <1>14
  <2>2. /\ ManualTick(r) \in Register /\ ManualTick(r).control = w
        /\ View([reg |-> ManualTick(r), rest |-> 0])
             = [Promise!Count(kept) EXCEPT !.phase = 0]
    <3>1. /\ ManualTick(r) \in Register /\ ManualTick(r).control = r.control
          /\ ~r.control.go =>
               View([reg |-> ManualTick(r), rest |-> 0])
                 = [Promise!Count(View([reg |-> r, rest |-> s.rest]))
                      EXCEPT !.phase = 0]
      BY <1>1, <1>2, CountsByHand
    <3> QED
      BY <1>2, <1>11, <1>14, <3>1
  <2>3. t \in State /\ t.reg.control = w /\ Normal(t.reg, t.rest)
    <3>1. t.reg \in Register /\ t.reg.control = w /\ t.rest = 0
      BY ONLY <2>1, <2>2
    <3>2. t \in State
      BY ONLY <2>1, <2>2 DEF State
    <3>3. Normal(t.reg, t.rest)
      BY ONLY <1>14, <3>1 DEF Normal
    <3> QED
      BY <3>1, <3>2, <3>3
  <2> QED
    BY <2>1, <2>2, <2>3 DEF a, c
<1>15. CASE ~w.go /\ ~fix
  <2>1. t = [reg |-> r, rest |-> 0] /\ a = [kept EXCEPT !.phase = 0]
    BY <1>7, <1>8, <1>15
  <2>2. t \in State /\ t.reg.control = w /\ Normal(t.reg, t.rest)
    BY <1>2, <1>15, <2>1 DEF State, Normal
  <2>3. /\ a \in Clock /\ a.control = w /\ a.err = FALSE /\ a.done = FALSE
        /\ a.irq = FALSE /\ a.csb = s.reg.csb /\ a.cntr = s.reg.cntr
        /\ a.phase = 0
    BY <1>3, <2>1 DEF Clock
  <2>4. d = a
    <3>1. t.reg = r /\ t.rest = 0
      BY ONLY <2>1
    <3>2. /\ d.control = w /\ d.err = FALSE /\ d.done = FALSE
          /\ d.irq = FALSE /\ d.csb = s.reg.csb /\ d.cntr = s.reg.cntr
          /\ d.phase = 0
      BY ONLY <1>2, <1>5, <3>1
    <3> QED
      BY <1>10, <2>2, <2>3, <3>2, SameClock
  <2> QED
    BY <2>2, <2>4 DEF a, c, d
<1> QED
  BY <1>12, <1>13, <1>14, <1>15

(* An interrupt is delivered from the registers, before the payment: what  *)
(* is shown loses its request, unless the payment makes another.           *)
LEMMA Quiet ==
  ASSUME NEW r \in Register, NEW q, q = [r EXCEPT !.irq = FALSE]
  PROVE  /\ q \in Register /\ q.control = r.control /\ q.err = r.err
         /\ q.done = r.done /\ q.irq = FALSE /\ q.csb = r.csb
         /\ q.cntr = r.cntr /\ First(q) = First(r) /\ Cycle(q) = Cycle(r)
BY DEF Register, First, Cycle

LEMMA PaysQuietly ==
  ASSUME NEW r \in Register, NEW q, q = [r EXCEPT !.irq = FALSE],
         NEW s, NEW t, NEW n \in Nat, Pays(r, s, n), Pays(q, t, n)
  PROVE  /\ t.control = s.control /\ (t.err <=> s.err) /\ (t.done <=> s.done)
         /\ t.csb = s.csb /\ t.cntr = s.cntr /\ (t.irq => s.irq)
<1>1. /\ q \in Register /\ q.control = r.control /\ q.err = r.err
      /\ q.done = r.done /\ q.irq = FALSE /\ q.csb = r.csb
      /\ q.cntr = r.cntr /\ First(q) = First(r) /\ Cycle(q) = Cycle(r)
  BY Quiet
<1>2. First(r) \in Nat
  BY CountRanges
<1>3. CASE n < First(r)
  BY <1>1, <1>3 DEF Pays, Counted
<1>4. CASE n >= First(r) /\ ~r.control.repeat
  BY <1>1, <1>4 DEF Pays, Expired
<1>5. CASE n >= First(r) /\ r.control.repeat
  BY <1>1, <1>5 DEF Pays, Repeated
<1> QED
  BY <1>2, <1>3, <1>4, <1>5

LEMMA UpdatedQuietly ==
  ASSUME NEW r \in Register, NEW q, q = [r EXCEPT !.irq = FALSE],
         NEW left \in Nat, NEW e \in Nat,
         NEW s, s = Updated(r, left, e), NEW t, t = Updated(q, left, e)
  PROVE  /\ t.reg.control = s.reg.control /\ (t.reg.err <=> s.reg.err)
         /\ (t.reg.done <=> s.reg.done) /\ t.reg.csb = s.reg.csb
         /\ t.reg.cntr = s.reg.cntr /\ (t.reg.irq => s.reg.irq)
         /\ t.rest = s.rest
<1>1. /\ q \in Register /\ q.control = r.control /\ q.err = r.err
      /\ q.done = r.done /\ q.irq = FALSE /\ q.csb = r.csb
      /\ q.cntr = r.cntr /\ First(q) = First(r)
  BY Quiet
<1>2. CASE ~r.control.go
  <2>1. s = [reg |-> r, rest |-> 0] /\ t = [reg |-> q, rest |-> 0]
    BY <1>1, <1>2, UpdatedStopped
  <2> QED
    BY ONLY <1>1, <2>1
<1>3. CASE r.control.go
  <2>1. /\ Due(q, left, e) = Due(r, left, e)
        /\ Over(q, left, e) = Over(r, left, e) /\ Due(r, left, e) \in Nat
    BY <1>1, DueType DEF Due, Over
  <2>2. /\ Pays(r, s.reg, Due(r, left, e))
        /\ s.rest = IF Lasts(r, Due(r, left, e)) THEN Over(r, left, e) ELSE 0
    BY <1>3, UpdatedRunning
  <2>3. /\ Pays(q, t.reg, Due(q, left, e))
        /\ t.rest = IF Lasts(q, Due(q, left, e)) THEN Over(q, left, e) ELSE 0
    BY <1>1, <1>3, UpdatedRunning
  <2>4. s.rest = t.rest
    BY <1>1, <2>1, <2>2, <2>3 DEF Lasts
  <2>5. /\ t.reg.control = s.reg.control /\ (t.reg.err <=> s.reg.err)
        /\ (t.reg.done <=> s.reg.done) /\ t.reg.csb = s.reg.csb
        /\ t.reg.cntr = s.reg.cntr /\ (t.reg.irq => s.reg.irq)
    BY <2>1, <2>2, <2>3, PaysQuietly
  <2> QED
    BY <2>4, <2>5
<1> QED
  BY <1>2, <1>3

LEMMA Delivers ==
  ASSUME NEW r \in Register, NEW left \in Nat, NEW e \in Nat
  PROVE  LET c == View(Updated(r, left, e))
             d == View(Updated([r EXCEPT !.irq = FALSE], left, e))
         IN  d = c \/ (c.irq /\ d = [c EXCEPT !.irq = FALSE])
<1> DEFINE q == [r EXCEPT !.irq = FALSE]
           s == Updated(r, left, e)
           t == Updated(q, left, e)
           c == View(s)
           d == View(t)
<1> SUFFICES d = c \/ (c.irq /\ d = [c EXCEPT !.irq = FALSE])
  OBVIOUS
<1>q. q = [r EXCEPT !.irq = FALSE]
  OBVIOUS
<1> HIDE DEF q
<1>0. q \in Register
  BY <1>q, Quiet
<1>1. /\ c \in Clock /\ c.control = s.reg.control /\ c.err = s.reg.err
      /\ c.done = s.reg.done /\ c.irq = s.reg.irq /\ c.csb = s.reg.csb
      /\ c.cntr = s.reg.cntr /\ c.phase = s.rest
  BY UpdatedType, ViewType, ViewFields
<1>2. /\ d \in Clock /\ d.control = t.reg.control /\ d.err = t.reg.err
      /\ d.done = t.reg.done /\ d.irq = t.reg.irq /\ d.csb = t.reg.csb
      /\ d.cntr = t.reg.cntr /\ d.phase = t.rest
  BY <1>0, UpdatedType, ViewType, ViewFields
<1>3. /\ t.reg.control = s.reg.control /\ (t.reg.err <=> s.reg.err)
      /\ (t.reg.done <=> s.reg.done) /\ t.reg.csb = s.reg.csb
      /\ t.reg.cntr = s.reg.cntr /\ (t.reg.irq => s.reg.irq)
      /\ t.rest = s.rest
  BY <1>q, UpdatedQuietly
<1> HIDE DEF s, t, c, d
<1>4. CASE c.irq /\ ~d.irq
  <2> DEFINE x == [c EXCEPT !.irq = FALSE]
  <2>1. /\ x \in Clock /\ x.control = c.control /\ x.err = c.err
        /\ x.done = c.done /\ x.irq = FALSE /\ x.csb = c.csb
        /\ x.cntr = c.cntr /\ x.phase = c.phase
    BY <1>1 DEF Clock
  <2> HIDE DEF x
  <2>2. d = x
    BY <1>1, <1>2, <1>3, <1>4, <2>1, SameClock
  <2> QED
    BY <1>4, <2>2 DEF x
<1>5. CASE c.irq <=> d.irq
  BY <1>1, <1>2, <1>3, <1>5, SameClock
<1> QED
  BY <1>1, <1>2, <1>3, <1>4, <1>5

-----------------------------------------------------------------------------
(***************************************************************************)
(* The invariant: what is left over is less than a period, and the tick's  *)
(* copies are the registers, unless the guest has met it.                  *)
(***************************************************************************)
Fresh == clean /\ tick = "store" => copy.reg = reg /\ copy.rest = rest
Paid == TypeOK /\ Unpaid <= MaxOwed /\ Normal(reg, rest) /\ Fresh

LEMMA PaidTypes ==
  ASSUME Paid
  PROVE  /\ reg \in Register /\ rest \in Nat /\ owed \in Nat /\ Unpaid \in Nat
         /\ copy.reg \in Register /\ copy.rest \in Nat /\ copy.owed \in Nat
         /\ MaxOwed \in Nat
         /\ Now \in State /\ Normal(Now.reg, Now.rest)
<1>1. /\ reg \in Register /\ rest \in Nat /\ owed \in Nat
      /\ copy.reg \in Register /\ copy.rest \in Nat /\ copy.owed \in Nat
      /\ MaxOwed \in Nat
  BY ClockAssumption DEF Paid, TypeOK
<1>2. Unpaid \in Nat
  BY <1>1 DEF Unpaid
<1> QED
  BY <1>1, <1>2, UpdatedType DEF Now

LEMMA InitPaid == Init => Paid
<1> SUFFICES ASSUME Init PROVE Paid
  OBVIOUS
<1>1. PICK rt \in Rate :
        /\ reg = Blank(rt) /\ rest = 0 /\ owed = 0 /\ tick = "idle"
        /\ copy = NoCopy(rt) /\ clean = TRUE
  BY DEF Init
<1>2. Blank(rt) \in Register /\ Normal(Blank(rt), 0) /\ 0 <= MaxOwed
  <2>1. Blank(rt) \in Register /\ ~Blank(rt).control.go
    BY ModulusType DEF Blank, Off, Register, Control, Value
  <2> QED
    BY <2>1, ClockAssumption DEF Normal
<1>3. /\ copy.reg = Blank(rt) /\ copy.rest = 0 /\ copy.owed = 0
  BY <1>1 DEF NoCopy
<1> QED
  BY <1>1, <1>2, <1>3, ClockAssumption DEF Paid, TypeOK, Unpaid, Fresh

(* What an access by the guest stores.                                     *)
LEMMA StorePaid ==
  ASSUME Paid, NEW s \in State, Normal(s.reg, s.rest), Set(s),
         NEW h \in BOOLEAN, Access(h)
  PROVE  Paid'
<1>1. /\ reg' \in Register /\ rest' \in Nat /\ Normal(reg', rest')
      /\ owed' = 0 /\ tick' = tick /\ copy' = copy
      /\ clean' = (clean /\ h /\ tick # "store")
  BY DEF Set, Access, State
<1>2. /\ owed \in Nat /\ copy.owed \in Nat /\ MaxOwed \in Nat
      /\ Unpaid <= MaxOwed
  BY PaidTypes DEF Paid
<1>3. TypeOK'
  <2>1. /\ tick \in {"idle", "store", "take"} /\ clean \in BOOLEAN
        /\ copy.reg \in Register /\ copy.rest \in Nat
        /\ copy.owed \in 0 .. MaxOwed
    BY DEF Paid, TypeOK
  <2> QED
    BY <1>1, <1>2, <2>1 DEF TypeOK
<1>4. Unpaid' <= MaxOwed
  BY <1>1, <1>2 DEF Unpaid
<1>5. Fresh'
  BY <1>1 DEF Fresh
<1> QED
  BY <1>1, <1>3, <1>4, <1>5 DEF Paid

(* What each access by the guest stores is determined by the payment.      *)
LEMMA StoreCSRSets ==
  ASSUME NEW w, NEW fix
  PROVE  StoreCSR(w, fix) <=> Set(Written(Now, w, fix))
BY DEF StoreCSR, Written

LEMMA HighStores ==
  ASSUME Paid, NEW s, s = Written(Now, reg.control, FALSE)
  PROVE  /\ s \in State /\ Normal(s.reg, s.rest)
         /\ s.reg.control = reg.control
         /\ View(s) = Promise!AfterControl(View(Now), reg.control, FALSE)
<1>1. /\ Now \in State /\ Normal(Now.reg, Now.rest) /\ reg.control \in Control
      /\ FALSE \in {FALSE, ~reg.control.go}
  BY PaidTypes, RegisterFields
<1> QED
  BY <1>1, Controls

-----------------------------------------------------------------------------
(***************************************************************************)
(* Each step keeps the invariant and, while the guest and the tick have    *)
(* not met, is a step of the abstract clock or is not shown.               *)
(***************************************************************************)
Kept == Paid' /\ (clean' => Promise!Next \/ UNCHANGED <<Shown, clean>>)

LEMMA ShownIs ==
  /\ Shown = View(Updated(reg, rest, Unpaid))
  /\ Shown' = View(Updated(reg', rest', Unpaid'))
BY DEF Shown, View

LEMMA StoreShown ==
  ASSUME Paid, NEW s \in State, Normal(s.reg, s.rest), Set(s),
         NEW h \in BOOLEAN, Access(h), clean'
  PROVE  /\ Shown = View(Now) /\ Shown' = View(s)
         /\ h /\ clean' = clean
<1>1. tick # "store" /\ clean /\ h /\ tick' = tick /\ owed' = 0
  BY DEF Access
<1>2. Unpaid = owed /\ Unpaid' = 0
  <2>1. owed \in Nat
    BY PaidTypes
  <2> QED
    BY <1>1, <2>1 DEF Unpaid
<1>3. reg' = s.reg /\ rest' = s.rest /\ s = [reg |-> s.reg, rest |-> s.rest]
  BY DEF Set, State
<1>4. Updated(reg', rest', 0) = s
  <2>1. s.reg \in Register /\ s.rest \in Nat
    BY DEF State
  <2> QED
    BY <1>3, <2>1, UpdatedZero
<1>5. clean' = clean
  BY <1>1 DEF Access, Paid, TypeOK
<1> QED
  BY <1>1, <1>2, <1>4, <1>5, ShownIs DEF Now

LEMMA InstructionKept == ASSUME Paid, Instruction PROVE Kept
<1>1. /\ Unpaid < MaxOwed /\ owed' = owed + 1 /\ reg' = reg /\ rest' = rest
      /\ tick' = tick /\ copy' = copy /\ clean' = clean
  BY DEF Instruction
<1>2. /\ reg \in Register /\ rest \in Nat /\ owed \in Nat /\ Unpaid \in Nat
      /\ copy.owed \in Nat /\ MaxOwed \in Nat
  BY PaidTypes
<1>3. Unpaid' = Unpaid + 1
  BY <1>1, <1>2 DEF Unpaid
<1>4. owed' <= Unpaid'
  BY <1>1, <1>2 DEF Unpaid
<1>5. Paid'
  <2>1. TypeOK'
    <3>1. owed' \in 0 .. MaxOwed
      BY <1>1, <1>2, <1>3, <1>4
    <3> QED
      BY <1>1, <3>1 DEF Paid, TypeOK
  <2>2. Unpaid' <= MaxOwed
    BY <1>1, <1>2, <1>3
  <2>3. Normal(reg', rest') /\ Fresh'
    BY <1>1 DEF Paid, Fresh
  <2> QED
    BY <2>1, <2>2, <2>3 DEF Paid
<1>6. Promise!Next
  <2> DEFINE u == Updated(reg, rest, Unpaid)
  <2>1. u \in State /\ Normal(u.reg, u.rest)
    BY <1>2, UpdatedType
  <2>2. Updated(u.reg, u.rest, 1) = Updated(reg, rest, Unpaid + 1)
    BY <1>2, UpdatedTwice
  <2>3. View(Updated(u.reg, u.rest, 1)) = Promise!AfterInstruction(View(u))
    BY <2>1, OneInstruction
  <2>4. Shown = View(u) /\ Shown' = View(Updated(reg, rest, Unpaid + 1))
    BY <1>1, <1>3, ShownIs
  <2> HIDE DEF u
  <2>5. Shown' = Promise!AfterInstruction(Shown)
    BY <2>2, <2>3, <2>4
  <2> QED
    BY <2>5 DEF Promise!Next, Promise!Step
<1> QED
  BY <1>5, <1>6 DEF Kept

LEMMA ReadCSRKept == ASSUME Paid, ReadCSR PROVE Kept
<1> DEFINE s == [Now EXCEPT !.reg = Acknowledged(@)]
<1>1. /\ s \in State /\ Normal(s.reg, s.rest)
      /\ View(s) = Promise!Forgotten(View(Now))
  BY PaidTypes, Acknowledges
<1>2. Set(s) /\ Access(TRUE)
  BY DEF ReadCSR
<1> HIDE DEF s
<1>3. Paid'
  BY <1>1, <1>2, StorePaid
<1>4. ASSUME clean' PROVE Promise!Next
  <2>1. Shown = View(Now) /\ Shown' = View(s)
    BY <1>1, <1>2, <1>4, StoreShown
  <2>2. Shown' = Promise!Forgotten(Shown)
    BY <1>1, <2>1
  <2> QED
    BY <2>2 DEF Promise!Next, Promise!Step
<1> QED
  BY <1>3, <1>4 DEF Kept

LEMMA ReadCounterKept == ASSUME Paid, ReadCounter PROVE Kept
<1>1. Now \in State /\ Normal(Now.reg, Now.rest)
  BY PaidTypes
<1>2. Set(Now) /\ Access(TRUE)
  BY DEF ReadCounter
<1>3. Paid'
  BY <1>1, <1>2, StorePaid
<1>4. ASSUME clean' PROVE UNCHANGED <<Shown, clean>>
  <2>1. Shown = View(Now) /\ Shown' = View(Now) /\ clean' = clean
    BY <1>1, <1>2, <1>4, StoreShown
  <2> QED
    BY <2>1
<1> QED
  BY <1>3, <1>4 DEF Kept

LEMMA WriteCSRKept ==
  ASSUME Paid, NEW w \in Control, NEW fix \in {FALSE, ~w.go}, WriteCSR(w, fix)
  PROVE  Kept
<1> DEFINE s == Written(Now, w, fix)
<1>0. Now \in State /\ Normal(Now.reg, Now.rest)
  BY PaidTypes
<1>1. /\ s \in State /\ Normal(s.reg, s.rest) /\ s.reg.control = w
      /\ View(s) = Promise!AfterControl(View(Now), w, fix)
  BY <1>0, Controls
<1>2. Set(s) /\ Access(TRUE)
  BY StoreCSRSets DEF WriteCSR
<1> HIDE DEF s
<1>3. Paid'
  BY <1>1, <1>2, StorePaid
<1>4. ASSUME clean' PROVE Promise!Next
  <2>1. Shown = View(Now) /\ Shown' = View(s)
    BY <1>1, <1>2, <1>4, StoreShown
  <2>2. Shown'.control = w
    BY <1>1, <2>1, ViewFields
  <2>3. Shown' = Promise!AfterControl(Shown, Shown'.control, fix)
    BY <1>1, <2>1, <2>2
  <2>4. fix \in BOOLEAN
    OBVIOUS
  <2> QED
    BY <2>3, <2>4 DEF Promise!Next, Promise!Step
<1> QED
  BY <1>3, <1>4 DEF Kept

LEMMA WriteCSRHighKept == ASSUME Paid, WriteCSRHigh PROVE Kept
<1> DEFINE s == Written(Now, reg.control, FALSE)
           h == Now.reg.control = reg.control
<1>1. /\ s \in State /\ Normal(s.reg, s.rest)
      /\ s.reg.control = reg.control
      /\ View(s) = Promise!AfterControl(View(Now), reg.control, FALSE)
  BY HighStores
<1>2. Set(s) /\ Access(h) /\ h \in BOOLEAN
  BY StoreCSRSets DEF WriteCSRHigh
<1> HIDE DEF s, h
<1>3. Paid'
  BY <1>1, <1>2, StorePaid
<1>4. ASSUME clean' PROVE Promise!Next
  <2>1. Shown = View(Now) /\ Shown' = View(s)
    BY <1>1, <1>2, <1>4, StoreShown
  <2>2. Shown'.control = reg.control
    BY <1>1, <2>1, ViewFields
  <2>3. Shown' = Promise!AfterControl(Shown, Shown'.control, FALSE)
    BY <1>1, <2>1, <2>2, Zenon
  <2>4. \E fix \in BOOLEAN :
          Shown' = Promise!AfterControl(Shown, Shown'.control, fix)
    BY <2>3, Zenon
  <2> QED
    BY <2>4 DEF Promise!Next, Promise!Step
<1> QED
  BY <1>3, <1>4 DEF Kept

LEMMA WriteCSBKept == ASSUME Paid, NEW v \in Value, WriteCSB(v) PROVE Kept
<1> DEFINE s == [reg |-> [Acknowledged(Now.reg) EXCEPT !.csb = v, !.cntr = v],
                 rest |-> 0]
<1>1. /\ s \in State /\ Normal(s.reg, s.rest)
      /\ View(s) = Promise!AfterLoad(View(Now), v)
  BY PaidTypes, Loads
<1>2. Set(s) /\ Access(TRUE)
  BY DEF WriteCSB
<1> HIDE DEF s
<1>3. Paid'
  BY <1>1, <1>2, StorePaid
<1>4. ASSUME clean' PROVE Promise!Next
  <2>1. Shown = View(Now) /\ Shown' = View(s)
    BY <1>1, <1>2, <1>4, StoreShown
  <2>2. Shown' = Promise!AfterLoad(Shown, v) /\ v \in Promise!Value
    BY <1>1, <2>1 DEF Value, Promise!Value
  <2> QED
    BY <2>2 DEF Promise!Next, Promise!Step
<1> QED
  BY <1>3, <1>4 DEF Kept

LEMMA ResetKept == ASSUME Paid, NEW rt \in Rate, Reset(rt) PROVE Kept
<1> DEFINE s == [reg |-> Blank(rt), rest |-> 0]
<1>1. /\ s \in State /\ Normal(s.reg, s.rest)
      /\ View(s) = Promise!Cleared(rt)
  BY Blanks
<1>2. Set(s) /\ Access(TRUE)
  BY DEF Reset
<1> HIDE DEF s
<1>3. Paid'
  BY <1>1, <1>2, StorePaid
<1>4. ASSUME clean' PROVE Promise!Next
  <2>1. Shown = View(Now) /\ Shown' = View(s)
    BY <1>1, <1>2, <1>4, StoreShown
  <2>2. Shown' = Promise!Cleared(rt)
    BY <1>1, <2>1
  <2> QED
    BY <2>2 DEF Promise!Next, Promise!Step
<1> QED
  BY <1>3, <1>4 DEF Kept

LEMMA TickLoadKept == ASSUME Paid, TickLoad PROVE Kept
<1>1. /\ tick = "idle" /\ tick' = "store" /\ reg' = reg /\ rest' = rest
      /\ owed' = 0 /\ clean' = clean
      /\ copy' = [reg |-> reg, rest |-> rest, owed |-> owed]
  BY DEF TickLoad
<1>2. /\ reg \in Register /\ rest \in Nat /\ owed \in Nat /\ MaxOwed \in Nat
      /\ owed \in 0 .. MaxOwed /\ clean \in BOOLEAN
  BY PaidTypes DEF Paid, TypeOK
<1>3. copy'.reg = reg /\ copy'.rest = rest /\ copy'.owed = owed
  BY <1>1
<1>4. Unpaid' = owed /\ Unpaid = owed
  BY <1>1, <1>2, <1>3 DEF Unpaid
<1>5. TypeOK'
  BY <1>1, <1>2, <1>3 DEF TypeOK
<1>6. Paid'
  BY <1>1, <1>2, <1>3, <1>4, <1>5 DEF Paid, Fresh
<1>7. Shown' = Shown
  BY <1>1, <1>4, ShownIs
<1> QED
  BY <1>1, <1>6, <1>7 DEF Kept

LEMMA TickStoreKept == ASSUME Paid, TickStore PROVE Kept
<1>1. /\ tick = "store" /\ tick' = "take" /\ owed' = owed /\ clean' = clean
      /\ copy' = NoCopy(reg.control.rate)
  BY DEF TickStore
<1>2. /\ reg \in Register /\ rest \in Nat /\ owed \in Nat /\ MaxOwed \in Nat
      /\ copy.reg \in Register /\ copy.rest \in Nat /\ copy.owed \in Nat
      /\ owed \in 0 .. MaxOwed /\ clean \in BOOLEAN
  BY PaidTypes DEF Paid, TypeOK
<1>3. PICK s \in {[reg |-> copy.reg, rest |-> copy.rest],
                  [reg |-> reg, rest |-> rest]} :
        Set(Updated(s.reg, s.rest, copy.owed))
  BY DEF TickStore
<1>4. s.reg \in Register /\ s.rest \in Nat
  BY <1>2, <1>3
<1> DEFINE x == Updated(s.reg, s.rest, copy.owed)
<1>5. /\ x \in State /\ Normal(x.reg, x.rest)
      /\ reg' = x.reg /\ rest' = x.rest
  BY <1>2, <1>3, <1>4, UpdatedType DEF Set
<1>6. Unpaid' = owed /\ Unpaid = copy.owed + owed
  BY <1>1, <1>2 DEF Unpaid
<1>7. /\ copy'.reg \in Register /\ copy'.rest \in Nat
      /\ copy'.owed \in 0 .. MaxOwed
  <2>1. reg.control.rate \in Rate
    BY <1>2, RegisterFields
  <2>2. Blank(reg.control.rate) \in Register
    <3>1. [reg |-> Blank(reg.control.rate), rest |-> 0] \in State
      BY <2>1, Blanks
    <3> QED
      BY <3>1 DEF State
  <2> QED
    BY <1>1, <1>2, <2>2 DEF NoCopy
<1>8. clean' => Shown' = Shown
  <2> SUFFICES ASSUME clean PROVE Shown' = Shown
    BY <1>1
  <2>1. s.reg = reg /\ s.rest = rest
    BY <1>1, <1>3 DEF Paid, Fresh
  <2>2. Updated(x.reg, x.rest, owed) = Updated(reg, rest, copy.owed + owed)
    <3>1. x = Updated(reg, rest, copy.owed)
      BY <2>1
    <3>2. reg \in Register /\ rest \in Nat /\ copy.owed \in Nat /\ owed \in Nat
      BY <1>2
    <3> HIDE DEF x
    <3> QED
      BY ONLY <3>1, <3>2, TwoPayments
  <2> HIDE DEF x
  <2> QED
    BY <1>5, <1>6, <2>2, ShownIs
<1> HIDE DEF x
<1>9. TypeOK'
  BY <1>1, <1>2, <1>5, <1>7 DEF TypeOK, State
<1>10. Paid'
  BY <1>1, <1>2, <1>5, <1>6, <1>9 DEF Paid, Fresh
<1> QED
  BY <1>1, <1>8, <1>10 DEF Kept

LEMMA TakeInterruptKept == ASSUME Paid, TakeInterrupt PROVE Kept
<1>1. /\ tick = "take" /\ tick' = "idle" /\ reg' = [reg EXCEPT !.irq = FALSE]
      /\ rest' = rest /\ owed' = owed /\ copy' = copy /\ clean' = clean
  BY DEF TakeInterrupt
<1>2. /\ reg \in Register /\ rest \in Nat /\ owed \in Nat /\ MaxOwed \in Nat
      /\ owed \in 0 .. MaxOwed
  BY PaidTypes DEF Paid, TypeOK
<1>3. reg' \in Register /\ reg'.control = reg.control
  BY <1>1, <1>2, Quiet
<1>4. Unpaid' = owed /\ Unpaid = owed
  BY <1>1, <1>2 DEF Unpaid
<1>5. TypeOK'
  BY <1>1, <1>2, <1>3 DEF Paid, TypeOK
<1>6. Paid'
  BY <1>1, <1>2, <1>3, <1>4, <1>5 DEF Paid, Fresh, Normal
<1>7. Shown' = Shown \/ (Shown.irq /\ Shown' = [Shown EXCEPT !.irq = FALSE])
  <2>1. /\ Shown = View(Updated(reg, rest, owed))
        /\ Shown' = View(Updated(reg', rest, owed))
    BY <1>1, <1>4, ShownIs
  <2> DEFINE c == View(Updated(reg, rest, owed))
             d == View(Updated([reg EXCEPT !.irq = FALSE], rest, owed))
  <2>2. d = c \/ (c.irq /\ d = [c EXCEPT !.irq = FALSE])
    BY <1>2, Delivers
  <2>3. Shown = c /\ Shown' = d
    BY <1>1, <2>1
  <2> HIDE DEF c, d
  <2> QED
    BY <2>2, <2>3
<1>8. Promise!Next \/ UNCHANGED <<Shown, clean>>
  BY <1>1, <1>7 DEF Promise!Next, Promise!Step
<1> QED
  BY <1>6, <1>8 DEF Kept

LEMMA StutterKept == ASSUME Paid, UNCHANGED vars PROVE Kept
<1>1. Shown' = Shown /\ clean' = clean
  BY DEF vars, Shown, Unpaid
<1>2. Paid'
  BY DEF vars, Paid, TypeOK, Unpaid, Fresh
<1> QED
  BY <1>1, <1>2 DEF Kept

LEMMA StepKept == ASSUME Paid, [Next]_vars PROVE Kept
<1>1. CASE \E w \in Control : \E fix \in {FALSE, ~w.go} : WriteCSR(w, fix)
  BY <1>1, WriteCSRKept
<1>2. CASE \E v \in Value : WriteCSB(v)
  BY <1>2, WriteCSBKept
<1>3. CASE \E rt \in Rate : Reset(rt)
  BY <1>3, ResetKept
<1> QED
  BY <1>1, <1>2, <1>3, InstructionKept, ReadCSRKept, ReadCounterKept,
     WriteCSRHighKept, TickLoadKept, TickStoreKept, TakeInterruptKept,
     StutterKept DEF Next

LEMMA InitShown == Init => Promise!Init
<1> SUFFICES ASSUME Init PROVE Promise!Init
  OBVIOUS
<1>1. PICK rt \in Rate :
        /\ reg = Blank(rt) /\ rest = 0 /\ owed = 0 /\ tick = "idle"
  BY DEF Init
<1> DEFINE s == [reg |-> Blank(rt), rest |-> 0]
<1>2. Unpaid = 0
  BY <1>1 DEF Unpaid
<1>3. /\ s \in State /\ Normal(s.reg, s.rest)
      /\ View(s) = Promise!Cleared(rt)
  BY Blanks
<1>4. Updated(reg, rest, 0) = s
  <2>1. ~Blank(rt).control.go
    BY DEF Blank, Off
  <2> QED
    BY <1>1, <2>1, UpdatedStopped
<1>5. Shown = Promise!Cleared(rt)
  BY <1>2, <1>3, <1>4, ShownIs
<1> QED
  BY <1>5 DEF Promise!Init

(* Whatever the guest and the tick do to each other, every register keeps  *)
(* a value of its width and the remainder never goes below zero            *)
(* (update_clock, write_word, tick).                                       *)
THEOREM ProgrammableTypes == Spec => []TypeOK
<1>1. Paid => TypeOK
  BY DEF Paid
<1>2. Paid /\ [Next]_vars => Paid'
  BY StepKept DEF Kept
<1> QED
  BY <1>1, <1>2, InitPaid, PTL DEF Spec

(* For every width, every set of rates and every period, and however long  *)
(* the clock waits before it pays, what the guest reads and the interrupts *)
(* it gets are those of a counter that is never behind (update_clock,      *)
(* advance_steps, record_expirations, tick, take_interrupt).               *)
THEOREM PayingLateIsExact == Spec => Counts
<1>1. Paid /\ [Next]_vars => Paid'
  BY StepKept DEF Kept
<1>2. Paid /\ [Next]_vars => [clean' => Promise!Next]_<<Shown, clean>>
  BY StepKept DEF Kept
<1> QED
  BY <1>1, <1>2, InitPaid, InitShown, PTL DEF Spec, Counts

==============================================================================
