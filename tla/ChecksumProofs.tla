--------------------------- MODULE ChecksumProofs ---------------------------
(***************************************************************************)
(* Proofs about Checksum, for messages of every length that fits bytes,    *)
(* with every content and every place for the checksum.                    *)
(***************************************************************************)
EXTENDS Checksum, Sequences, TLAPS

-----------------------------------------------------------------------------
(* Arithmetic                                                              *)

(* The largest sum of a message: 32768 words.                              *)
MaxTotal == 65535 * 32768

Folded(n) == (n \div 65536) + (n % 65536)

LEMMA Remainder ==
  ASSUME NEW q \in Int, NEW r \in Int, 0 <= r, r < 65535
  PROVE  (65535 * q + r) % 65535 = r
BY SMT

LEMMA HighHalf ==
  ASSUME NEW q \in Int, NEW r \in Int, 0 <= r, r < 65536
  PROVE  (65536 * q + r) \div 65536 = q
BY SMT

LEMMA LowHalf ==
  ASSUME NEW q \in Int, NEW r \in Int, 0 <= r, r < 65536
  PROVE  (65536 * q + r) % 65536 = r
BY SMT

LEMMA OnesComplementOf ==
  ASSUME NEW q \in Nat, NEW s \in Nat, 1 <= s, s <= 65535
  PROVE  OnesComplementSum(65535 * q + s) = s
<1>1. (65535 * q + s) - 1 = 65535 * q + (s - 1)
  BY SMT
<1>2. (65535 * q + (s - 1)) % 65535 = s - 1
  <2>1. s - 1 \in Int /\ 0 <= s - 1 /\ s - 1 < 65535
    BY SMT
  <2> QED
    BY <2>1, Remainder, SMT
<1>3. 65535 * q + s # 0
  BY SMT
<1> QED
  BY <1>1, <1>2, <1>3, SMT DEF OnesComplementSum

(* The two folds of Checksum and its complement compute the complement of  *)
(* the ones' complement sum: q and r are the halves of the ordinary sum.   *)
LEMMA TwoFolds ==
  ASSUME NEW n \in Nat, n <= MaxTotal
  PROVE  /\ Folded(n) \in Nat
         /\ CarryAdded(Folded(n)) \in Nat
         /\ (-1 - CarryAdded(Folded(n))) % 65536 = 65535 - OnesComplementSum(n)
<1>1. PICK q \in Int, r \in Int : /\ n = 65536 * q + r
                                  /\ 0 <= r /\ r < 65536
                                  /\ q = n \div 65536 /\ r = n % 65536
  BY SMT
<1>2. 0 <= q /\ q <= 32767
  BY <1>1, SMT DEF MaxTotal
<1> DEFINE f == q + r
<1>3. Folded(n) = f
  BY <1>1, SMT DEF Folded
<1>4. f \in Nat /\ f <= 98302 /\ n = 65535 * q + f
  BY <1>1, <1>2, SMT
<1> HIDE DEF f
<1>5. ASSUME f <= 65535
      PROVE  /\ CarryAdded(f) = f
             /\ (-1 - f) % 65536 = 65535 - f
  <2>1. f \div 65536 = 0
    BY <1>4, <1>5, HighHalf, SMT
  <2>2. (65536 * (-1) + (65535 - f)) % 65536 = 65535 - f
    BY <1>4, <1>5, LowHalf, SMT
  <2> QED
    BY <2>1, <2>2, <1>4, SMT DEF CarryAdded
<1>6. CASE f = 0
  <2>1. n = 0
    BY <1>1, <1>2, <1>6, SMT DEF f
  <2>2. OnesComplementSum(0) = 0
    BY DEF OnesComplementSum
  <2> QED
    BY <1>3, <1>5, <1>6, <2>1, <2>2, SMT
<1>7. CASE f # 0 /\ f <= 65535
  <2>1. OnesComplementSum(65535 * q + f) = f
    BY <1>2, <1>4, <1>7, OnesComplementOf, SMT
  <2> QED
    BY <1>3, <1>4, <1>5, <1>7, <2>1, SMT
<1>8. CASE f > 65535
  <2>1. f \div 65536 = 1
    BY <1>4, <1>8, SMT
  <2>2. CarryAdded(f) = f + 1
    BY <2>1, <1>4, SMT DEF CarryAdded
  <2> DEFINE s == f - 65535
  <2>3. s \in Nat /\ 1 <= s /\ s <= 65535
    BY <1>4, <1>8, SMT
  <2>4. (65536 * (-2) + (65535 - s)) % 65536 = 65535 - s
    BY <2>3, LowHalf, SMT
  <2> DEFINE p == q + 1
  <2>5. OnesComplementSum(65535 * p + s) = s
    <3>1. p \in Nat
      BY <1>2, SMT
    <3> HIDE DEF s, p
    <3> QED
      BY <2>3, <3>1, OnesComplementOf
  <2>6. -1 - (f + 1) = 65536 * (-2) + (65535 - s) /\ n = 65535 * p + s
    BY <1>4, <1>2, SMT
  <2>7. (-1 - (f + 1)) % 65536 = 65535 - OnesComplementSum(n)
    BY <2>4, <2>5, <2>6
  <2> QED
    BY <1>3, <1>4, <2>2, <2>7, SMT
<1> QED
  BY <1>4, <1>6, <1>7, <1>8, SMT

LEMMA OnesComplementRange ==
  ASSUME NEW n \in Nat
  PROVE  OnesComplementSum(n) \in Nat /\ OnesComplementSum(n) <= 65535
BY SMT DEF OnesComplementSum

(* A sum and the complement of its ones' complement sum make a multiple of *)
(* 65535, and not zero.                                                    *)
LEMMA FilledSum ==
  ASSUME NEW n \in Nat
  PROVE  \E k \in Nat : n + (65535 - OnesComplementSum(n)) = 65535 * k + 65535
<1>1. CASE n = 0
  BY <1>1, SMT DEF OnesComplementSum
<1>2. CASE n # 0
  <2> DEFINE q == (n - 1) \div 65535
  <2>1. n - 1 = 65535 * q + ((n - 1) % 65535) /\ q \in Nat
    BY <1>2, SMT
  <2>2. OnesComplementSum(n) = 1 + ((n - 1) % 65535)
    BY <1>2, SMT DEF OnesComplementSum
  <2>3. (n - 1) % 65535 \in Int
    BY SMT
  <2>4. n + (65535 - OnesComplementSum(n)) = 65535 * q + 65535
    BY <2>1, <2>2, <2>3, SMT
  <2> QED
    BY <2>1, <2>4
<1> QED
  BY <1>1, <1>2

(* A sum is 65535 in ones' complement exactly when it is such a multiple.  *)
LEMMA AllOnes ==
  ASSUME NEW k \in Nat, NEW d \in Int, -65535 < d, d < 65535,
         NEW n, n = 65535 * k + 65535 + d
  PROVE  OnesComplementSum(n) = 65535 <=> d = 0
<1> SUFFICES OnesComplementSum(65535 * k + 65535 + d) = 65535 <=> d = 0
  OBVIOUS
<1>1. CASE d = 0
  <2>1. OnesComplementSum(65535 * k + 65535) = 65535
    BY OnesComplementOf, SMT
  <2> QED
    BY <2>1, <1>1, SMT
<1>2. CASE d > 0
  <2> DEFINE p == k + 1
  <2>1. OnesComplementSum(65535 * p + d) = d
    <3>1. p \in Nat /\ d \in Nat /\ 1 <= d /\ d <= 65535
      BY <1>2, SMT
    <3> HIDE DEF p
    <3> QED
      BY <3>1, OnesComplementOf
  <2>2. 65535 * k + 65535 + d = 65535 * p + d
    BY SMT
  <2> QED
    BY <2>1, <2>2, <1>2, SMT
<1>3. CASE d < 0
  <2>1. OnesComplementSum(65535 * k + (65535 + d)) = 65535 + d
    BY <1>3, OnesComplementOf, SMT
  <2> QED
    BY <2>1, <1>3, SMT
<1> QED
  BY <1>1, <1>2, <1>3, SMT

-----------------------------------------------------------------------------
(* The inductive invariant                                                 *)

N == Size(layout.length)

(* What the sender saw in word i: the field was 0 and nothing was damaged. *)
Sent(i) == IF i = layout.field THEN 0
           ELSE IF i = damage.at THEN damage.from ELSE Visible(i, memory[i])

(* What the sender stored in the field.                                    *)
Filled == 65535 - OnesComplementSum(sums["fill"][N + 1])

(* How far call u has got.                                                 *)
Reached(u) == IF u = use THEN ptr ELSE IF u = "fill" THEN N + 1 ELSE 1

(* What the receiver's sum has before word i that the sender's had not.    *)
FieldExtra(i) == IF layout.field < i THEN Filled ELSE 0
DamageExtra(i) ==
  IF damage.at # 0 /\ damage.at < i THEN damage.to - damage.from ELSE 0
Extra(i) == FieldExtra(i) + DamageExtra(i)

(* Where the caller and the loop are.                                      *)
Position ==
  /\ pc = "clear" => ptr = 1
  /\ pc \in {"clear", "store", "inTransit"} => use = "fill"
  /\ pc = "checked" => use = "verify"
  /\ pc = "loop" =>
       /\ bytes = IF 2 * (ptr - 1) <= layout.length
                    THEN layout.length - 2 * (ptr - 1) ELSE 0
       /\ sum = sums[use][ptr]
       /\ sum <= 65535 * (ptr - 1)
  /\ pc \notin {"clear", "loop"} => ptr = N + 1 /\ Total <= MaxTotal

(* What the steps after the loop have made of the sum.                     *)
Folds ==
  /\ pc = "foldCarry" => sum = Folded(Total)
  /\ pc = "complement" => sum = CarryAdded(Folded(Total))
  /\ pc \in {"store", "inTransit", "checked"} =>
       answer = 65535 - OnesComplementSum(Total)

Received == pc = "inTransit" \/ use = "verify"

(* The field, and the one word that may have changed.                      *)
FieldAndDamage ==
  /\ pc # "clear" /\ ~ Received => memory[layout.field] = 0
  /\ Received => IF damage.at = layout.field
                   THEN damage.from = Filled
                   ELSE memory[layout.field] = Filled
  /\ \/ damage = NoDamage
     \/ /\ Received
        /\ damage.at \in Indices
        /\ damage.to = Visible(damage.at, memory[damage.at])
        /\ damage.from # damage.to

(* The sums of the two calls, word by word.                                *)
SumsOfSender ==
  /\ sums["fill"][1] = 0
  /\ \A i \in Indices : i < Reached("fill") =>
       sums["fill"][i + 1] = sums["fill"][i] + Sent(i)

SumsOfReceiver ==
  \A i \in 1 .. N + 1 : i <= Reached("verify") =>
    sums["verify"][i] = sums["fill"][i] + Extra(i)

Inv == /\ TypeOK /\ Position /\ Folds /\ FieldAndDamage
       /\ SumsOfSender /\ SumsOfReceiver

LEMMA WordRange ==
  ASSUME NEW w \in Word
  PROVE  w \in Nat /\ w <= 65535
<1>1. MaxWord = 65535
  BY DEF MaxWord
<1> QED
  BY <1>1, SMT DEF Word

LEMMA WordMember ==
  ASSUME NEW w \in Nat, w <= 65535
  PROVE  w \in Word
<1>1. MaxWord \in Int /\ w <= MaxWord
  BY SMT DEF MaxWord
<1> QED
  BY <1>1, SMT DEF Word

LEMMA LayoutFacts ==
  ASSUME TypeOK
  PROVE  /\ layout.length \in Nat /\ layout.length <= 65535
         /\ N \in Nat /\ N <= 32768 /\ Indices = 1 .. N
         /\ layout.length <= 2 * N /\ 2 * N <= layout.length + 1
         /\ layout.field \in 1 .. N /\ 2 * layout.field <= layout.length
<1>1. /\ layout.length \in Nat /\ layout.length <= 65535
      /\ layout.field \in Nat
      /\ 1 <= layout.field /\ 2 * layout.field <= layout.length
  <2>1. layout \in Layouts
    BY DEF TypeOK
  <2>2. layout.length \in Word /\ layout.field \in Word
    BY <2>1, ChecksumAssumption
  <2>3. 1 <= layout.field /\ 2 * layout.field <= layout.length
    BY <2>1, ChecksumAssumption
  <2> QED
    BY <2>2, <2>3, WordRange
<1> DEFINE L == layout.length
<1>2. N \in Nat /\ L <= 2 * N /\ 2 * N <= L + 1
  BY <1>1, SMT DEF N, Size
<1>3. N <= 32768 /\ layout.field \in 1 .. N
  BY <1>1, <1>2, SMT
<1> QED
  BY <1>1, <1>2, <1>3 DEF Indices, N

LEMMA VisibleWord ==
  ASSUME TypeOK, NEW i \in Indices, NEW w \in Word
  PROVE  /\ Visible(i, w) \in Word
         /\ 2 * i <= layout.length => Visible(i, w) = w
         /\ Visible(i, w) \in Nat /\ Visible(i, w) <= 65535
<1>1. w \in Nat /\ w <= 65535
  BY WordRange
<1>2. LowByte(w) \in Nat /\ LowByte(w) <= 255
  BY <1>1, SMT DEF LowByte
<1>3. Visible(i, w) \in Nat /\ Visible(i, w) <= 65535
  BY <1>1, <1>2, SMT DEF Visible
<1>4. 2 * i <= layout.length => Visible(i, w) = w
  BY DEF Visible
<1> QED
  BY <1>3, <1>4, WordMember

LEMMA FilledType ==
  ASSUME TypeOK
  PROVE  Filled \in Int
<1>1. N + 1 \in 1 .. N + 1
  BY LayoutFacts, SMT
<1>2. sums["fill"] \in [1 .. N + 1 -> Nat]
  BY DEF TypeOK, Uses, N
<1>3. sums["fill"][N + 1] \in Nat
  BY <1>1, <1>2
<1> QED
  BY <1>3, OnesComplementRange, SMT DEF Filled

LEMMA InitHolds == Init => Inv
<1> SUFFICES ASSUME Init PROVE Inv
  OBVIOUS
<1>1. TypeOK
  <2>1. memory \in [Indices -> Word]
    BY ChecksumAssumption DEF Init
  <2>2. layout \in Layouts /\ layout.length \in Nat
    <3>1. layout \in Layouts
      BY DEF Init
    <3>2. layout.length \in Word
      BY <3>1, ChecksumAssumption
    <3> QED
      BY <3>1, <3>2, WordRange
  <2>3. Size(layout.length) \in Nat
    BY <2>2, SMT DEF Size
  <2>4. 0 \in Word
    BY WordMember, SMT
  <2>5. damage \in [at : Nat, from : Word, to : Word]
    BY <2>4 DEF Init, NoDamage
  <2>6. sums \in [Uses -> [1 .. Size(layout.length) + 1 -> Nat]]
    BY <2>3, SMT DEF Init
  <2>7. ptr \in 1 .. Size(layout.length) + 1
    BY <2>3, SMT DEF Init
  <2> QED
    BY <2>1, <2>2, <2>4, <2>5, <2>6, <2>7 DEF Init, TypeOK, Uses
<1>2. Position /\ Folds
  BY SMT DEF Init, Position, Folds
<1>3. FieldAndDamage
  BY DEF Init, FieldAndDamage, Received
<1>4. SumsOfSender
  BY <1>1, LayoutFacts, SMT DEF Init, SumsOfSender, Reached, Uses, N
<1>5. SumsOfReceiver
  <2> SUFFICES ASSUME NEW i \in 1 .. N + 1, i <= Reached("verify")
               PROVE  sums["verify"][i] = sums["fill"][i] + Extra(i)
    BY DEF SumsOfReceiver
  <2>1. i = 1
    BY <1>1, LayoutFacts, SMT DEF Init, Reached
  <2>2. Extra(1) = 0
    BY <1>1, LayoutFacts, SMT DEF Init, Extra, FieldExtra, DamageExtra, NoDamage
  <2> QED
    BY <2>1, <2>2, <1>1, LayoutFacts, SMT DEF Init, Uses, N
<1> QED
  BY <1>1, <1>2, <1>3, <1>4, <1>5 DEF Inv

(* The receiver adds for word i what the sender added, and what Extra      *)
(* says on top of it.                                                      *)
LEMMA ReceivedWord ==
  ASSUME TypeOK, FieldAndDamage, Received, NEW i \in Indices
  PROVE  /\ Sent(i) \in Int /\ Extra(i) \in Int /\ Extra(i + 1) \in Int
         /\ Sent(i) + Extra(i + 1) = Extra(i) + Visible(i, memory[i])
<1>1. /\ i \in Int /\ layout.field \in Indices /\ layout.field \in Int
      /\ 2 * layout.field <= layout.length
      /\ \A j \in Indices : j # 0 /\ j \in Int
  BY LayoutFacts, SMT
<1>2. /\ Visible(i, memory[i]) \in Int
      /\ Visible(layout.field, memory[layout.field]) = memory[layout.field]
  BY <1>1, VisibleWord, WordRange, SMT DEF TypeOK
<1>3. /\ damage.at \in Int
      /\ damage.from \in Int /\ damage.to \in Int
  BY WordRange, SMT DEF TypeOK
<1>4. Filled \in Int
  BY FilledType
<1>5. /\ Sent(i) \in Int
      /\ FieldExtra(i) \in Int /\ DamageExtra(i) \in Int
      /\ FieldExtra(i + 1) \in Int /\ DamageExtra(i + 1) \in Int
  BY <1>1, <1>2, <1>3, <1>4, SMT DEF Sent, FieldExtra, DamageExtra
<1>6. /\ i = layout.field => FieldExtra(i) = 0 /\ FieldExtra(i + 1) = Filled
      /\ i # layout.field => FieldExtra(i + 1) = FieldExtra(i)
  BY <1>1, SMT DEF FieldExtra
<1>7. /\ i = damage.at => /\ DamageExtra(i) = 0
                          /\ DamageExtra(i + 1) = damage.to - damage.from
      /\ i # damage.at => DamageExtra(i + 1) = DamageExtra(i)
  BY <1>1, <1>3, SMT DEF DamageExtra
<1>8. CASE i = damage.at
  <2>1. damage.to = Visible(i, memory[i])
    BY <1>1, <1>8 DEF FieldAndDamage, NoDamage
  <2>2. i = layout.field => damage.from = Filled /\ Sent(i) = 0
    BY <1>8 DEF FieldAndDamage, Sent
  <2>3. i # layout.field => Sent(i) = damage.from
    BY <1>8 DEF Sent
  <2> QED
    BY <1>3, <1>4, <1>5, <1>6, <1>7, <1>8, <2>1, <2>2, <2>3, SMT DEF Extra
<1>9. CASE i # damage.at
  <2>1. i = layout.field => Visible(i, memory[i]) = Filled /\ Sent(i) = 0
    BY <1>2, <1>9 DEF FieldAndDamage, Sent
  <2>2. i # layout.field => Sent(i) = Visible(i, memory[i])
    BY <1>9 DEF Sent
  <2> QED
    BY <1>2, <1>4, <1>5, <1>6, <1>7, <1>9, <2>1, <2>2, SMT DEF Extra
<1> QED
  BY <1>8, <1>9

(* One step of the loop, over a whole word (n = 2) or a last byte.         *)
LEMMA AddHolds ==
  ASSUME Inv, pc = "loop", ptr \in Indices,
         NEW n \in {1, 2}, n <= bytes, n = 1 => bytes = 1,
         Add(Visible(ptr, memory[ptr]), n)
  PROVE  Inv'
<1> USE DEF Inv
<1> DEFINE w == Visible(ptr, memory[ptr])
<1>1. w \in Nat /\ w <= 65535
  BY VisibleWord DEF TypeOK
<1>2. /\ N \in Nat /\ ptr \in 1 .. N /\ ptr \in Nat /\ Indices = 1 .. N
      /\ ptr + 1 \in 1 .. N + 1 /\ ptr \in 1 .. N + 1
  BY LayoutFacts, SMT
<1>3. /\ bytes \in Nat /\ bytes <= 65535 /\ layout.length \in Nat
      /\ bytes = layout.length - 2 * (ptr - 1)
  <2>1. bytes \in Nat /\ bytes <= 65535
    BY WordRange DEF TypeOK
  <2>2. layout.length \in Nat
    BY LayoutFacts
  <2>3. bytes # 0
    BY <2>1, SMT
  <2> QED
    BY <2>1, <2>2, <2>3 DEF Position
<1>4. /\ sums \in [Uses -> [1 .. N + 1 -> Nat]] /\ use \in Uses
      /\ sum \in Nat /\ sum = sums[use][ptr] /\ sum <= 65535 * (ptr - 1)
  BY DEF TypeOK, Position, N
<1>5. /\ sum' = sum + w /\ ptr' = ptr + 1 /\ bytes' = bytes - n
      /\ sums' = [sums EXCEPT ![use][ptr + 1] = sum + w]
      /\ UNCHANGED <<layout, memory, use, pc, answer, damage>>
  BY DEF Add
<1>6. sum + w \in Nat
  BY <1>1, <1>4, SMT
<1> HIDE DEF w
<1>7. sums' \in [Uses -> [1 .. N + 1 -> Nat]]
  <2>1. [sums[use] EXCEPT ![ptr + 1] = sum + w] \in [1 .. N + 1 -> Nat]
    <3>1. sums[use] \in [1 .. N + 1 -> Nat]
      BY <1>4
    <3> QED
      BY <3>1, <1>6
  <2>2. sums' = [sums EXCEPT ![use] = [sums[use] EXCEPT ![ptr + 1] = sum + w]]
    BY <1>5
  <2> QED
    BY <2>1, <2>2, <1>4
<1>8. /\ sums'[use][ptr + 1] = sum + w
      /\ \A i \in 1 .. N + 1 : i # ptr + 1 => sums'[use][i] = sums[use][i]
      /\ \A u \in Uses : u # use => sums'[u] = sums[u]
  BY <1>2, <1>4, <1>5
<1>9. TypeOK'
  <2>1. bytes' \in Word
    BY <1>3, <1>5, WordMember, SMT
  <2>2. ptr' \in 1 .. Size(layout.length) + 1
    BY <1>2, <1>5 DEF N
  <2> QED
    BY <2>1, <2>2, <1>5, <1>6, <1>7 DEF TypeOK, Indices, N
<1>10. Position'
  <2>1. bytes' = IF 2 * (ptr' - 1) <= layout.length
                   THEN layout.length - 2 * (ptr' - 1) ELSE 0
    BY <1>2, <1>3, <1>5, SMT
  <2>2. sum' <= 65535 * (ptr' - 1)
    BY <1>1, <1>2, <1>4, <1>5, SMT
  <2> QED
    BY <2>1, <2>2, <1>5, <1>8 DEF Position
<1>11. Folds'
  BY <1>5 DEF Folds
<1>12. Received' = Received /\ (Received => use = "verify") /\ (~ Received => use = "fill")
  BY <1>4, <1>5 DEF Received, Uses
<1>13. Received => sums'["fill"] = sums["fill"] /\ Filled' = Filled
  BY <1>5, <1>8, <1>12 DEF Filled, N, Uses
<1>14. FieldAndDamage'
  BY <1>5, <1>12, <1>13 DEF FieldAndDamage, Indices, Visible
<1>15. /\ \A i \in Indices : Sent(i)' = Sent(i)
       /\ N' = N /\ Indices' = Indices
  BY <1>5 DEF Sent, N, Indices, Visible
<1>16. SumsOfSender'
  <2>1. CASE Received
    BY <2>1, <1>5, <1>12, <1>13, <1>15 DEF SumsOfSender, Reached
  <2>2. CASE ~ Received
    <3>1. use = "fill" /\ Reached("fill") = ptr /\ Reached("fill")' = ptr + 1
      BY <2>2, <1>5, <1>12 DEF Reached
    <3>2. w = Sent(ptr)
      <4>1. damage.at = 0 /\ memory[layout.field] = 0
        BY <2>2 DEF FieldAndDamage, NoDamage
      <4>2. ptr = layout.field => w = 0
        BY <4>1, LayoutFacts DEF w, Visible
      <4> QED
        BY <4>1, <4>2, <1>2, SMT DEF Sent, w
    <3>3. sums'["fill"][1] = 0
      BY <3>1, <1>2, <1>8, SMT DEF SumsOfSender
    <3>4. ASSUME NEW i \in Indices, i < ptr + 1
          PROVE  sums'["fill"][i + 1] = sums'["fill"][i] + Sent(i)
      <4>1. /\ i \in Int /\ i \in 1 .. N + 1 /\ i + 1 \in 1 .. N + 1
            /\ i # ptr + 1 /\ (i # ptr => i < ptr /\ i + 1 # ptr + 1)
        BY <1>2, <3>4, SMT
      <4>2. sums'["fill"][i] = sums["fill"][i]
        BY <4>1, <3>1, <1>8
      <4>3. CASE i = ptr
        BY <4>2, <4>3, <3>1, <3>2, <1>4, <1>8
      <4>4. CASE i # ptr
        BY <4>1, <4>2, <4>4, <3>1, <1>8 DEF SumsOfSender
      <4> QED
        BY <4>3, <4>4
    <3> QED
      BY <3>1, <3>3, <3>4, <1>15 DEF SumsOfSender
  <2> QED
    BY <2>1, <2>2
<1>17. SumsOfReceiver'
  <2> SUFFICES ASSUME NEW i \in 1 .. N + 1, i <= Reached("verify")'
               PROVE  sums'["verify"][i] = sums'["fill"][i] + Extra(i)'
    BY <1>15 DEF SumsOfReceiver
  <2>1. CASE Received
    <3>1. use = "verify" /\ Reached("verify") = ptr /\ Reached("verify")' = ptr + 1
          /\ Reached("fill") = N + 1
      BY <2>1, <1>5, <1>12 DEF Reached
    <3>2. Extra(i)' = Extra(i)
      BY <2>1, <1>5, <1>13 DEF Extra, FieldExtra, DamageExtra
    <3>3. CASE i = ptr + 1
      <4>1. sums["fill"][ptr + 1] = sums["fill"][ptr] + Sent(ptr)
        BY <3>1, <1>2, SMT DEF SumsOfSender
      <4>2. sum = sums["fill"][ptr] + Extra(ptr)
        <5>1. ptr <= Reached("verify")
          BY <3>1, <1>2, SMT
        <5>2. sums["verify"][ptr] = sums["fill"][ptr] + Extra(ptr)
          BY <5>1, <1>2 DEF SumsOfReceiver
        <5> QED
          BY <5>2, <3>1, <1>4
      <4>3. /\ Sent(ptr) \in Int /\ Extra(ptr) \in Int /\ Extra(ptr + 1) \in Int
            /\ Sent(ptr) + Extra(ptr + 1) = Extra(ptr) + w
        BY <2>1, ReceivedWord DEF w
      <4>4. sums["fill"][ptr] \in Nat /\ "fill" \in Uses
        BY <1>2, <1>4 DEF Uses
      <4>5. sum + w = sums["fill"][ptr + 1] + Extra(ptr + 1)
        BY <4>1, <4>2, <4>3, <4>4, <1>1, <1>4, SMT
      <4> QED
        BY <4>5, <3>1, <3>2, <3>3, <2>1, <1>8, <1>13
    <3>4. CASE i # ptr + 1
      <4>1. i <= ptr
        BY <3>1, <3>4, <1>2, SMT
      <4> QED
        BY <4>1, <3>1, <3>2, <3>4, <2>1, <1>8, <1>13 DEF SumsOfReceiver
    <3> QED
      BY <3>3, <3>4
  <2>2. CASE ~ Received
    <3>1. use = "fill" /\ Reached("verify")' = 1 /\ Reached("verify") = 1
      BY <2>2, <1>5, <1>12 DEF Reached
    <3>2. i = 1 /\ 1 # ptr + 1 /\ 1 \in 1 .. N + 1
      BY <3>1, <1>2, SMT
    <3>3. damage.at = 0 /\ ~ (layout.field < 1)
      BY <2>2, LayoutFacts, SMT DEF FieldAndDamage, NoDamage
    <3>4. Extra(1)' = 0 /\ Extra(1) = 0
      BY <3>3, <1>5, SMT DEF Extra, FieldExtra, DamageExtra
    <3>5. sums'["verify"][1] = sums["verify"][1] /\ sums'["fill"][1] = sums["fill"][1]
      BY <3>1, <3>2, <1>8 DEF Uses
    <3>6. sums["verify"][1] = sums["fill"][1] + Extra(1)
      BY <3>1, <3>2, SMT DEF SumsOfReceiver
    <3> QED
      BY <3>2, <3>4, <3>5, <3>6
  <2> QED
    BY <2>1, <2>2
<1> QED
  BY <1>9, <1>10, <1>11, <1>14, <1>16, <1>17

(* The steps after the loop, and the callers, change no sum.               *)
LEMMA SameSums ==
  ASSUME Inv, UNCHANGED <<layout, memory, damage, sums>>,
         Received' = Received, Reached("fill")' = Reached("fill"),
         Reached("verify")' = Reached("verify"), pc # "clear"
  PROVE  FieldAndDamage' /\ SumsOfSender' /\ SumsOfReceiver'
<1>1. FieldAndDamage'
  BY DEF Inv, FieldAndDamage, Filled, N, Indices, Visible
<1>2. SumsOfSender'
  BY DEF Inv, SumsOfSender, Sent, Indices, Visible
<1>3. SumsOfReceiver'
  BY DEF Inv, SumsOfReceiver, Extra, FieldExtra, DamageExtra, Filled, N
<1> QED
  BY <1>1, <1>2, <1>3

LEMMA LoopHolds ==
  ASSUME Inv, AddWord \/ AddOddByte
  PROVE  Inv'
<1> USE DEF Inv
<1>1. /\ pc = "loop" /\ ptr \in 1 .. N + 1 /\ N \in Nat
      /\ bytes \in Nat /\ layout.length \in Nat
      /\ Indices = 1 .. N /\ layout.length <= 2 * N
      /\ bytes # 0 => bytes = layout.length - 2 * (ptr - 1)
  <2>1. bytes \in Nat
    BY WordRange DEF TypeOK
  <2>2. pc = "loop" /\ ptr \in 1 .. N + 1
    BY DEF AddWord, WordLeft, AddOddByte, TypeOK, N
  <2> QED
    BY <2>1, <2>2, LayoutFacts DEF Position
<1>2. CASE AddWord
  <2>1. bytes > 1 /\ Add(memory[ptr], 2)
    BY <1>2 DEF AddWord, WordLeft
  <2>2. ptr \in Indices /\ 2 * ptr <= layout.length
    BY <1>1, <2>1, SMT
  <2>3. memory[ptr] = Visible(ptr, memory[ptr])
    BY <2>2 DEF Visible
  <2>4. Add(Visible(ptr, memory[ptr]), 2)
    BY <2>1, <2>3
  <2>5. 2 <= bytes /\ (2 = 1 => bytes = 1)
    BY <2>1, <1>1, SMT
  <2> QED
    BY <1>1, <2>2, <2>4, <2>5, AddHolds
<1>3. CASE AddOddByte
  <2>1. bytes = 1 /\ Add(LowByte(memory[ptr]), 1)
    BY <1>3 DEF AddOddByte, OddByte
  <2>2. ptr \in Indices /\ ~ (2 * ptr <= layout.length)
    BY <1>1, <2>1, SMT
  <2>3. LowByte(memory[ptr]) = Visible(ptr, memory[ptr])
    BY <2>2 DEF Visible
  <2>4. Add(Visible(ptr, memory[ptr]), 1)
    BY <2>1, <2>3
  <2>5. 1 <= bytes
    BY <2>1, SMT
  <2> QED
    BY <1>1, <2>1, <2>2, <2>4, <2>5, AddHolds
<1> QED
  BY <1>2, <1>3

LEMMA TotalType ==
  ASSUME TypeOK
  PROVE  Total \in Nat
<1>1. sums[use] \in [1 .. N + 1 -> Nat]
  BY DEF TypeOK, N
<1>2. N + 1 \in 1 .. N + 1
  BY LayoutFacts, SMT
<1> QED
  BY <1>1, <1>2 DEF Total, N

LEMMA FoldHolds ==
  ASSUME Inv, Fold
  PROVE  Inv'
<1> USE DEF Inv
<1>1. /\ pc = "loop" /\ bytes = 0 /\ pc' = "foldCarry" /\ sum' = Folded(sum)
      /\ UNCHANGED <<layout, memory, use, ptr, bytes, answer, damage, sums>>
  BY DEF Fold, Becomes, Folded
<1>2. ptr = N + 1
  <2>1. ptr \in 1 .. N + 1
    BY DEF TypeOK, N
  <2>2. layout.length \in Nat /\ N \in Nat /\ 2 * N <= layout.length + 1
    BY LayoutFacts
  <2>3. 2 * (ptr - 1) <= layout.length => layout.length - 2 * (ptr - 1) = 0
    BY <1>1 DEF Position
  <2> QED
    BY <2>1, <2>2, <2>3, SMT
<1>3. sum = Total
  BY <1>1, <1>2 DEF Position, Total, N
<1>4. sum <= 65535 * (ptr - 1) /\ sum \in Nat /\ N \in Nat /\ N <= 32768
  BY <1>1, LayoutFacts DEF Position, TypeOK
<1>5. Total <= MaxTotal
  BY <1>2, <1>3, <1>4, SMT DEF MaxTotal
<1>6. Folded(sum) \in Nat
  BY <1>3, <1>4, <1>5, TwoFolds
<1>7. TypeOK'
  BY <1>1, <1>6 DEF TypeOK, Indices
<1>8. Position' /\ Folds'
  BY <1>1, <1>2, <1>3, <1>5 DEF Position, Folds, Total, N
<1>9. /\ Received' = Received /\ Reached("fill")' = Reached("fill")
      /\ Reached("verify")' = Reached("verify")
  BY <1>1 DEF Received, Reached, N
<1> QED
  BY <1>1, <1>7, <1>8, <1>9, SameSums

LEMMA FoldCarryHolds ==
  ASSUME Inv, FoldCarry
  PROVE  Inv'
<1> USE DEF Inv
<1>1. /\ pc = "foldCarry" /\ pc' = "complement" /\ sum' = CarryAdded(sum)
      /\ UNCHANGED <<layout, memory, use, ptr, bytes, answer, damage, sums>>
  BY DEF FoldCarry, Becomes
<1>2. sum = Folded(Total) /\ Total <= MaxTotal /\ Total \in Nat
  BY <1>1, TotalType DEF Folds, Position
<1>3. sum' = CarryAdded(Folded(Total)) /\ sum' \in Nat
  BY <1>1, <1>2, TwoFolds
<1>4. TypeOK'
  BY <1>1, <1>3 DEF TypeOK, Indices
<1>5. Position' /\ Folds'
  BY <1>1, <1>3 DEF Position, Folds, Total, N
<1>6. /\ Received' = Received /\ Reached("fill")' = Reached("fill")
      /\ Reached("verify")' = Reached("verify")
  BY <1>1 DEF Received, Reached, N
<1> QED
  BY <1>1, <1>4, <1>5, <1>6, SameSums

LEMMA ComplementHolds ==
  ASSUME Inv, Complement
  PROVE  Inv'
<1> USE DEF Inv
<1>1. /\ pc = "complement" /\ answer' = (-1 - sum) % 65536
      /\ pc' = IF use = "fill" THEN "store" ELSE "checked"
      /\ UNCHANGED <<layout, memory, use, ptr, bytes, sum, damage, sums>>
  BY DEF Complement
<1>2. sum = CarryAdded(Folded(Total)) /\ Total <= MaxTotal /\ Total \in Nat
  BY <1>1, TotalType DEF Folds, Position
<1>3. answer' = 65535 - OnesComplementSum(Total)
  BY <1>1, <1>2, TwoFolds
<1>4. answer' \in Word
  BY <1>2, <1>3, OnesComplementRange, WordMember, SMT
<1>5. use \in {"fill", "verify"}
  BY DEF TypeOK, Uses
<1>6. TypeOK'
  BY <1>1, <1>4, <1>5 DEF TypeOK, Indices
<1>7. Position' /\ Folds'
  BY <1>1, <1>3, <1>5 DEF Position, Folds, Total, N
<1>8. /\ Received' = Received /\ Reached("fill")' = Reached("fill")
      /\ Reached("verify")' = Reached("verify")
  BY <1>1, <1>5 DEF Received, Reached, N
<1> QED
  BY <1>1, <1>6, <1>7, <1>8, SameSums

LEMMA CallToFillHolds ==
  ASSUME Inv, CallToFill
  PROVE  Inv'
<1> USE DEF Inv
<1>1. /\ pc = "clear" /\ pc' = "loop" /\ use' = "fill" /\ ptr' = 1
      /\ bytes' = layout.length /\ sum' = 0
      /\ memory' = [memory EXCEPT ![layout.field] = 0]
      /\ UNCHANGED <<layout, answer, damage, sums>>
  BY DEF CallToFill, Call
<1>2. /\ use = "fill" /\ ptr = 1 /\ ~ Received /\ ~ Received'
      /\ damage = NoDamage
  BY <1>1 DEF Position, Received, FieldAndDamage
<1>3. /\ layout.field \in Indices /\ layout.length \in Nat /\ N \in Nat
      /\ layout.length <= 65535 /\ Indices = 1 .. N
      /\ 1 \in 1 .. N + 1 /\ ~ (layout.field < 1)
  BY LayoutFacts, SMT
<1>4. TypeOK'
  <2>1. 0 \in Word /\ bytes' \in Word /\ 0 \in Nat
    BY <1>1, <1>3, WordMember, SMT
  <2>2. memory' \in [Indices -> Word]
    BY <1>1, <2>1 DEF TypeOK
  <2>3. ptr' \in 1 .. Size(layout.length) + 1
    BY <1>1, <1>3 DEF N
  <2> QED
    BY <1>1, <2>1, <2>2, <2>3 DEF TypeOK, Indices, Uses
<1>5. sums["fill"][1] = 0 /\ N' = N /\ Indices' = Indices
  BY <1>1 DEF SumsOfSender, N, Indices
<1>6. Position'
  <2>1. bytes' = IF 2 * (ptr' - 1) <= layout.length
                   THEN layout.length - 2 * (ptr' - 1) ELSE 0
    BY <1>1, <1>3, SMT
  <2>2. sum' <= 65535 * (ptr' - 1)
    BY <1>1, SMT
  <2> QED
    BY <1>1, <1>5, <2>1, <2>2 DEF Position
<1>7. Folds'
  BY <1>1 DEF Folds
<1>8. FieldAndDamage'
  <2>1. memory'[layout.field] = 0
    BY <1>1, <1>3 DEF TypeOK
  <2> QED
    BY <1>1, <1>2, <2>1 DEF FieldAndDamage
<1>9. SumsOfSender'
  <2>1. Reached("fill")' = 1
    BY <1>1 DEF Reached
  <2>2. \A i \in Indices : ~ (i < 1)
    BY <1>3, SMT
  <2> QED
    BY <1>1, <1>5, <2>1, <2>2 DEF SumsOfSender
<1>10. SumsOfReceiver'
  <2>1. Reached("verify") = 1 /\ Reached("verify")' = 1
    BY <1>1, <1>2 DEF Reached
  <2>2. \A i \in 1 .. N + 1 : i <= 1 => i = 1
    BY <1>3, SMT
  <2>3. Extra(1) = 0 /\ Extra(1)' = 0
    BY <1>1, <1>2, <1>3, SMT DEF Extra, FieldExtra, DamageExtra, NoDamage
  <2>4. sums["verify"][1] = sums["fill"][1] + Extra(1)
    BY <1>3, <2>1 DEF SumsOfReceiver
  <2> QED
    BY <1>1, <1>5, <2>1, <2>2, <2>3, <2>4 DEF SumsOfReceiver
<1> QED
  BY <1>4, <1>6, <1>7, <1>8, <1>9, <1>10

LEMMA StoreHolds ==
  ASSUME Inv, StoreAnswer
  PROVE  Inv'
<1> USE DEF Inv
<1>1. /\ pc = "store" /\ pc' = "inTransit"
      /\ memory' = [memory EXCEPT ![layout.field] = answer]
      /\ UNCHANGED <<layout, use, ptr, bytes, sum, answer, damage, sums>>
  BY DEF StoreAnswer, Stored
<1>2. use = "fill" /\ ~ Received /\ Received' /\ damage = NoDamage
  BY <1>1 DEF Position, Received, FieldAndDamage
<1>3. layout.field \in Indices /\ layout.field # 0 /\ N \in Nat
  BY LayoutFacts, SMT
<1>4. answer = Filled
  BY <1>1, <1>2 DEF Folds, Total, Filled, N
<1>5. N' = N /\ Indices' = Indices /\ Filled' = Filled
  BY <1>1 DEF N, Indices, Filled
<1>6. TypeOK'
  <2>1. memory' \in [Indices -> Word]
    BY <1>1 DEF TypeOK
  <2> QED
    BY <1>1, <2>1 DEF TypeOK, Indices
<1>7. Position' /\ Folds'
  BY <1>1, <1>2 DEF Position, Folds, Total, N
<1>8. FieldAndDamage'
  <2>1. memory'[layout.field] = answer
    BY <1>1, <1>3 DEF TypeOK
  <2>2. damage.at # layout.field
    BY <1>2, <1>3 DEF NoDamage
  <2> QED
    BY <1>1, <1>2, <1>4, <1>5, <2>1, <2>2 DEF FieldAndDamage
<1>9. /\ Reached("fill")' = Reached("fill")
      /\ Reached("verify")' = Reached("verify")
  BY <1>1 DEF Reached, N
<1>10. \A i \in Indices : Sent(i)' = Sent(i)
  BY <1>1 DEF Sent, Visible, TypeOK
<1>11. SumsOfSender'
  BY <1>1, <1>5, <1>9, <1>10 DEF SumsOfSender
<1>12. SumsOfReceiver'
  BY <1>1, <1>5, <1>9 DEF SumsOfReceiver, Extra, FieldExtra, DamageExtra
<1> QED
  BY <1>6, <1>7, <1>8, <1>11, <1>12

LEMMA DamagedHolds ==
  ASSUME Inv, Damaged
  PROVE  Inv'
<1> USE DEF Inv
<1>1. PICK i \in Indices, w \in Words :
        /\ Visible(i, w) # Visible(i, memory[i])
        /\ memory' = [memory EXCEPT ![i] = w]
        /\ damage' = [at |-> i, from |-> Visible(i, memory[i]),
                      to |-> Visible(i, w)]
  BY DEF Damaged
<1>2. /\ pc = "inTransit" /\ damage = NoDamage
      /\ UNCHANGED <<layout, use, pc, ptr, bytes, sum, answer, sums>>
  BY DEF Damaged
<1>3. /\ N \in Nat /\ Indices = 1 .. N /\ i \in Nat /\ i # 0
      /\ layout.field \in Indices /\ 2 * layout.field <= layout.length
      /\ 1 \in 1 .. N + 1 /\ ~ (layout.field < 1) /\ ~ (i < 1)
  BY LayoutFacts, SMT
<1>4. /\ w \in Word /\ memory[i] \in Word
      /\ Visible(i, w) \in Word /\ Visible(i, memory[i]) \in Word
  BY ChecksumAssumption, VisibleWord DEF TypeOK
<1>5. /\ damage'.at = i /\ damage'.from = Visible(i, memory[i])
      /\ damage'.to = Visible(i, w)
  BY <1>1
<1>6. /\ N' = N /\ Indices' = Indices /\ Filled' = Filled
      /\ use = "fill" /\ Received /\ Received'
      /\ \A j, v : Visible(j, v)' = Visible(j, v)
  BY <1>2 DEF N, Indices, Filled, Received, Position, Visible
<1>7. TypeOK'
  <2>1. memory' \in [Indices -> Word]
    BY <1>1, <1>4 DEF TypeOK
  <2>2. damage' \in [at : Nat, from : Word, to : Word]
    BY <1>1, <1>3, <1>4
  <2> QED
    BY <1>2, <2>1, <2>2 DEF TypeOK, Indices
<1>8. Position' /\ Folds'
  BY <1>2 DEF Position, Folds, Total, N
<1>9. memory[layout.field] = Filled
  BY <1>2, <1>3, <1>6 DEF FieldAndDamage, NoDamage
<1>10. /\ memory'[i] = w
       /\ \A j \in Indices : j # i => memory'[j] = memory[j]
  BY <1>1 DEF TypeOK
<1>11. FieldAndDamage'
  <2>1. i = layout.field => damage'.from = Filled
    BY <1>3, <1>5, <1>9 DEF Visible
  <2>2. i # layout.field => memory'[layout.field] = Filled
    BY <1>3, <1>9, <1>10
  <2>3. damage'.to = Visible(i, memory'[i]) /\ damage'.from # damage'.to
    BY <1>1, <1>5, <1>10
  <2> QED
    BY <1>2, <1>5, <1>6, <2>1, <2>2, <2>3 DEF FieldAndDamage
<1>12. /\ Reached("fill")' = Reached("fill")
       /\ Reached("verify")' = 1 /\ Reached("verify") = 1
  BY <1>2, <1>6 DEF Reached
<1>13. \A j \in Indices : Sent(j)' = Sent(j)
  <2> SUFFICES ASSUME NEW j \in Indices PROVE Sent(j)' = Sent(j)
    OBVIOUS
  <2>1. damage.at # j
    BY <1>2, <1>3, SMT DEF NoDamage
  <2> QED
    BY <1>2, <1>5, <1>6, <1>10, <2>1 DEF Sent
<1>14. SumsOfSender'
  BY <1>2, <1>6, <1>12, <1>13 DEF SumsOfSender
<1>15. SumsOfReceiver'
  <2>1. \A j \in 1 .. N + 1 : j <= 1 => j = 1
    BY <1>3, SMT
  <2>2. Extra(1) = 0 /\ Extra(1)' = 0
    BY <1>2, <1>3, <1>5, <1>6, SMT DEF Extra, FieldExtra, DamageExtra, NoDamage
  <2>3. sums["verify"][1] = sums["fill"][1] + Extra(1)
    BY <1>3, <1>12 DEF SumsOfReceiver
  <2> QED
    BY <1>2, <1>6, <1>12, <2>1, <2>2, <2>3 DEF SumsOfReceiver
<1> QED
  BY <1>7, <1>8, <1>11, <1>14, <1>15

LEMMA CallToVerifyHolds ==
  ASSUME Inv, CallToVerify
  PROVE  Inv'
<1> USE DEF Inv
<1>1. /\ pc = "inTransit" /\ pc' = "loop" /\ use' = "verify" /\ ptr' = 1
      /\ bytes' = layout.length /\ sum' = 0
      /\ UNCHANGED <<layout, memory, answer, damage, sums>>
  BY DEF CallToVerify, Call
<1>2. use = "fill" /\ Received /\ Received' /\ ptr = N + 1
  BY <1>1 DEF Position, Received
<1>3. /\ layout.length \in Nat /\ N \in Nat /\ layout.length <= 65535
      /\ 1 \in 1 .. N + 1 /\ layout.field \in Indices
      /\ Indices = 1 .. N /\ ~ (layout.field < 1)
  BY LayoutFacts, SMT
<1>4. TypeOK'
  <2>1. bytes' \in Word /\ 0 \in Nat
    BY <1>1, <1>3, WordMember, SMT
  <2>2. ptr' \in 1 .. Size(layout.length) + 1
    BY <1>1, <1>3 DEF N
  <2> QED
    BY <1>1, <2>1, <2>2 DEF TypeOK, Indices, Uses
<1>5. /\ Reached("fill")' = N + 1 /\ Reached("fill") = N + 1
      /\ Reached("verify")' = 1 /\ Reached("verify") = 1
  BY <1>1, <1>2 DEF Reached, N
<1>6. Extra(1) = 0
  <2>1. ~ (damage.at # 0 /\ damage.at < 1)
    BY <1>3, SMT DEF FieldAndDamage, NoDamage
  <2> QED
    BY <1>3, <2>1, SMT DEF Extra, FieldExtra, DamageExtra
<1>7. sums["verify"][1] = 0
  BY <1>3, <1>5, <1>6, SMT DEF SumsOfReceiver, SumsOfSender
<1>8. Position'
  <2>1. bytes' = IF 2 * (ptr' - 1) <= layout.length
                   THEN layout.length - 2 * (ptr' - 1) ELSE 0
    BY <1>1, <1>3, SMT
  <2>2. sum' <= 65535 * (ptr' - 1)
    BY <1>1, SMT
  <2> QED
    BY <1>1, <1>7, <2>1, <2>2 DEF Position
<1>9. Folds'
  BY <1>1 DEF Folds
<1>10. FieldAndDamage' /\ SumsOfSender' /\ SumsOfReceiver'
  BY <1>1, <1>2, <1>5, SameSums
<1> QED
  BY <1>4, <1>8, <1>9, <1>10

LEMMA InvPreserved == Inv /\ [Next]_vars => Inv'
<1> SUFFICES ASSUME Inv, [Next]_vars PROVE Inv'
  OBVIOUS
<1>1. CASE CallToFill
  BY <1>1, CallToFillHolds
<1>2. CASE AddWord \/ AddOddByte
  BY <1>2, LoopHolds
<1>3. CASE Fold
  BY <1>3, FoldHolds
<1>4. CASE FoldCarry
  BY <1>4, FoldCarryHolds
<1>5. CASE Complement
  BY <1>5, ComplementHolds
<1>6. CASE StoreAnswer
  BY <1>6, StoreHolds
<1>7. CASE Damaged
  BY <1>7, DamagedHolds
<1>8. CASE CallToVerify
  BY <1>8, CallToVerifyHolds
<1>9. CASE UNCHANGED vars
  <2>1. TypeOK' /\ Position' /\ Folds'
    BY <1>9 DEF vars, Inv, TypeOK, Position, Folds, Indices, Total, N
  <2>2. FieldAndDamage'
    BY <1>9 DEF vars, Inv, FieldAndDamage, Received, Filled, N, Indices, Visible
  <2>3. SumsOfSender'
    BY <1>9 DEF vars, Inv, SumsOfSender, Sent, Reached, Indices, Visible, N
  <2>4. SumsOfReceiver'
    BY <1>9 DEF vars, Inv, SumsOfReceiver, Extra, FieldExtra, DamageExtra,
                Filled, Reached, N
  <2> QED
    BY <2>1, <2>2, <2>3, <2>4 DEF Inv
<1> QED
  BY <1>1, <1>2, <1>3, <1>4, <1>5, <1>6, <1>7, <1>8, <1>9 DEF Next

LEMMA InvHolds == Spec => []Inv
BY InitHolds, InvPreserved, PTL DEF Spec

-----------------------------------------------------------------------------
(* The theorems                                                            *)

(* Every variable of the loop keeps to its type; bytes, the uint16_t, does *)
(* not wrap below zero.                                                    *)
THEOREM ChecksumTypeCorrect == Spec => []TypeOK
BY InvHolds, PTL DEF Inv

(* Two folds are enough: Checksum returns the complement of the ones'      *)
(* complement sum, for every message of at most 65535 bytes.               *)
THEOREM ComplementCorrect == Spec => []AnswerIsComplement
<1>1. Inv => AnswerIsComplement
  BY DEF Inv, Folds, AnswerIsComplement
<1> QED
  BY <1>1, InvHolds, PTL

(* The receiver's sum is a multiple of 65535 and the change of one word.   *)
LEMMA CheckedTotal ==
  ASSUME Inv, pc = "checked"
  PROVE  \E k \in Nat : Total = 65535 * k + 65535
                               + (IF damage = NoDamage THEN 0
                                  ELSE damage.to - damage.from)
<1> USE DEF Inv
<1>1. use = "verify" /\ ptr = N + 1 /\ Reached("verify") = N + 1
  BY DEF Position, Reached
<1>2. /\ N \in Nat /\ N + 1 \in 1 .. N + 1 /\ layout.field < N + 1
      /\ Indices = 1 .. N /\ \A i \in Indices : i # 0 /\ i < N + 1
  BY LayoutFacts, SMT
<1>3. Total = sums["fill"][N + 1] + Extra(N + 1)
  BY <1>1, <1>2 DEF SumsOfReceiver, Total, N
<1>4. FieldExtra(N + 1) = Filled
  BY <1>2 DEF FieldExtra
<1> DEFINE d == IF damage = NoDamage THEN 0 ELSE damage.to - damage.from
<1>5. DamageExtra(N + 1) = d
  BY <1>2, SMT DEF DamageExtra, FieldAndDamage, NoDamage
<1>6. sums["fill"][N + 1] \in Nat
  BY <1>2 DEF TypeOK, Uses, N
<1>7. PICK k \in Nat : sums["fill"][N + 1] + Filled = 65535 * k + 65535
  BY <1>6, FilledSum DEF Filled
<1>8. Filled \in Int /\ d \in Int
  <2>1. damage.to \in Nat /\ damage.from \in Nat
    BY WordRange DEF TypeOK
  <2> QED
    BY <2>1, FilledType, SMT
<1> HIDE DEF d
<1>9. Total = 65535 * k + 65535 + d
  BY <1>3, <1>4, <1>5, <1>6, <1>7, <1>8, SMT DEF Extra
<1> QED
  BY <1>9 DEF d

LEMMA CheckedAnswer ==
  ASSUME Inv, pc = "checked"
  PROVE  /\ damage = NoDamage => answer = 0
         /\ damage # NoDamage /\ {damage.from, damage.to} # {0, 65535}
              => answer # 0
<1> USE DEF Inv
<1>1. answer = 65535 - OnesComplementSum(Total)
  BY DEF Folds
<1>2. OnesComplementSum(Total) \in Nat
  BY TotalType, OnesComplementRange
<1> DEFINE d == IF damage = NoDamage THEN 0 ELSE damage.to - damage.from
<1>3. PICK k \in Nat : Total = 65535 * k + 65535 + d
  BY CheckedTotal
<1>4. CASE damage = NoDamage
  <2>1. d = 0
    BY <1>4
  <2>2. -65535 < d /\ d < 65535 /\ d \in Int
    BY <2>1, SMT
  <2> HIDE DEF d
  <2>3. OnesComplementSum(Total) = 65535
    BY <1>3, <2>1, <2>2, AllOnes
  <2> QED
    BY <1>1, <1>4, <2>3, SMT
<1>5. CASE damage # NoDamage /\ {damage.from, damage.to} # {0, 65535}
  <2>1. /\ damage.to \in Nat /\ damage.to <= 65535
        /\ damage.from \in Nat /\ damage.from <= 65535
    BY WordRange DEF TypeOK
  <2>2. damage.from # damage.to /\ d = damage.to - damage.from
    BY <1>5 DEF FieldAndDamage
  <2>3. /\ ~ (damage.from = 0 /\ damage.to = 65535)
        /\ ~ (damage.from = 65535 /\ damage.to = 0)
    BY <1>5
  <2>4. d \in Int /\ -65535 < d /\ d < 65535 /\ d # 0
    BY <2>1, <2>2, <2>3, SMT
  <2> HIDE DEF d
  <2>5. OnesComplementSum(Total) # 65535
    BY <1>3, <2>4, AllOnes
  <2> QED
    BY <1>1, <1>2, <1>5, <2>5, SMT
<1> QED
  BY <1>4, <1>5

(* A message that arrives as it was sent is accepted: whatever its words,  *)
(* its length and the place of its checksum.                               *)
THEOREM IntactAccepted == Spec => []AcceptsIntact
<1>1. Inv => AcceptsIntact
  BY CheckedAnswer DEF AcceptsIntact, Accepted
<1> QED
  BY <1>1, InvHolds, PTL

(* A message with one changed word is refused, up to the two zeros.        *)
THEOREM DamageDetected == Spec => []DetectsDamage
<1>1. Inv => DetectsDamage
  BY CheckedAnswer DEF DetectsDamage, Accepted
<1> QED
  BY <1>1, InvHolds, PTL

-----------------------------------------------------------------------------
(* The loop and the formula of PacketHeaders                               *)

Facts == INSTANCE PacketHeadersProofs

(* What the bytes of the message count, and the sums of the first of them. *)
Loaded == Headers!AsLoaded(MessageBytes)
LoadedSums == Headers!PartialSums(Loaded)

LEMMA LoadedSumsDef ==
  /\ LoadedSums[0] = 0
  /\ \A n \in Nat \ {0} : LoadedSums[n] = LoadedSums[n - 1] + Loaded[n]
<1>1. \A s : Headers!PartialSums(s) = Facts!PartialSums(s)
  BY DEF Headers!PartialSums, Facts!PartialSums
<1>2. LoadedSums = Facts!PartialSums(Loaded)
  BY <1>1 DEF LoadedSums
<1> QED
  BY <1>2, Facts!PartialSumsDef

(* The two halves of a word count what the word does.                      *)
LEMMA LoadedWord ==
  ASSUME NEW j \in Nat, 2 * j + 2 <= layout.length, layout.length \in Nat
  PROVE  /\ Loaded[2 * j + 1] = memory[j + 1] % 256
         /\ Loaded[2 * j + 2] = 256 * (memory[j + 1] \div 256)
<1>1. /\ 2 * j + 1 \in 1 .. layout.length /\ 2 * j + 2 \in 1 .. layout.length
      /\ (2 * j + 1) % 2 = 1 /\ (2 * j + 2) % 2 # 1
      /\ ((2 * j + 1) + 1) \div 2 = j + 1 /\ (2 * j + 2) \div 2 = j + 1
  OBVIOUS
<1>2. /\ MessageBytes[2 * j + 1] = memory[j + 1] % 256
      /\ MessageBytes[2 * j + 2] = memory[j + 1] \div 256
      /\ DOMAIN MessageBytes = 1 .. layout.length
  BY <1>1 DEF MessageBytes, LowByte
<1> QED
  BY <1>1, <1>2 DEF Loaded, Headers!AsLoaded

LEMMA LoadedHalf ==
  ASSUME NEW j \in Nat, 2 * j + 1 <= layout.length, layout.length \in Nat
  PROVE  Loaded[2 * j + 1] = memory[j + 1] % 256
<1>1. /\ 2 * j + 1 \in 1 .. layout.length /\ (2 * j + 1) % 2 = 1
      /\ ((2 * j + 1) + 1) \div 2 = j + 1
  OBVIOUS
<1>2. /\ MessageBytes[2 * j + 1] = memory[j + 1] % 256
      /\ DOMAIN MessageBytes = 1 .. layout.length
  BY <1>1 DEF MessageBytes, LowByte
<1> QED
  BY <1>1, <1>2 DEF Loaded, Headers!AsLoaded

LEMMA LoadedLength ==
  ASSUME layout.length \in Nat
  PROVE  Len(Loaded) = layout.length
<1>1. DOMAIN Loaded = 1 .. layout.length
  BY DEF Loaded, Headers!AsLoaded, MessageBytes
<1>2. Loaded \in [1 .. layout.length -> {Loaded[i] : i \in 1 .. layout.length}]
  BY <1>1 DEF Loaded, Headers!AsLoaded
<1> QED
  BY <1>1, <1>2

LoadedTotal == LoadedSums[layout.length]

(* How far the call has got, in terms of the bytes.                        *)
LoopInv ==
  /\ pc = "loop" => sum = LoadedSums[layout.length - bytes]
  /\ pc = "foldCarry" => sum = Folded(LoadedTotal)
  /\ pc = "complement" => sum = CarryAdded(Folded(LoadedTotal))
  /\ pc \in {"store", "checked"} =>
       answer = (-1 - CarryAdded(Folded(LoadedTotal))) % 65536

LEMMA SameLoaded ==
  ASSUME UNCHANGED <<layout, memory>>
  PROVE  LoadedSums' = LoadedSums /\ LoadedTotal' = LoadedTotal
BY DEF LoadedTotal, LoadedSums, Loaded, MessageBytes, LowByte, Headers!AsLoaded,
       Headers!PartialSums

LEMMA LoopStep ==
  ASSUME Inv, LoopInv, AddWord \/ AddOddByte
  PROVE  LoopInv'
<1> DEFINE l == layout.length
           j == ptr - 1
           w == memory[ptr]
           k == l - bytes
           S == LoadedSums
<1>1. /\ TypeOK /\ pc = "loop" /\ pc' = "loop"
      /\ UNCHANGED <<layout, memory>>
      /\ bytes = IF 2 * j <= l THEN l - 2 * j ELSE 0
  BY DEF Inv, Position, AddWord, AddOddByte, Add
<1>2. sum = S[k] /\ S' = S /\ l' = l
  BY <1>1, SameLoaded DEF LoopInv
<1>3. /\ l \in Nat /\ j \in Nat /\ ptr = j + 1 /\ sum \in Nat
      /\ bytes > 0 => ptr \in Indices
  <2>1. ptr \in 1 .. N + 1 /\ sum \in Nat
    BY <1>1 DEF TypeOK, N
  <2>2. /\ l \in Nat /\ N \in Nat /\ Indices = 1 .. N
        /\ l <= 2 * N /\ 2 * N <= l + 1
    BY <1>1, LayoutFacts
  <2> QED
    BY <1>1, <2>1, <2>2
<1>4. \A n \in Nat \ {0} : S[n] = S[n - 1] + Loaded[n]
  BY LoadedSumsDef
<1>5. CASE AddWord
  <2>1. bytes > 1 /\ sum' = sum + w /\ bytes' = bytes - 2
    BY <1>5 DEF AddWord, WordLeft, Add
  <2>2. 2 * j + 2 <= l /\ k = 2 * j /\ l - bytes' = 2 * j + 2
    BY <1>1, <1>3, <2>1
  <2>3. w \in Nat
    <3>1. bytes \in Nat
      BY <1>1, WordRange DEF TypeOK
    <3>2. ptr \in Indices
      BY ONLY <1>3, <2>1, <3>1
    <3>3. memory \in [Indices -> Word]
      BY <1>1 DEF TypeOK
    <3>4. memory[ptr] \in Word
      BY ONLY <3>2, <3>3
    <3> QED
      BY <3>4, WordRange
  <2>4. /\ Loaded[2 * j + 1] = w % 256
        /\ Loaded[2 * j + 2] = 256 * (w \div 256)
    BY <1>3, <2>2, LoadedWord
  <2>5. /\ S[2 * j + 1] = S[2 * j] + Loaded[2 * j + 1]
        /\ S[2 * j + 2] = S[2 * j + 1] + Loaded[2 * j + 2]
    <3>1. /\ 2 * j + 1 \in Nat \ {0} /\ (2 * j + 1) - 1 = 2 * j
          /\ 2 * j + 2 \in Nat \ {0} /\ (2 * j + 2) - 1 = 2 * j + 1
      BY <1>3
    <3> QED
      BY <1>4, <3>1
  <2> HIDE DEF w, S
  <2>6. S[2 * j + 2] = sum + (w % 256) + 256 * (w \div 256)
    BY ONLY <1>2, <2>2, <2>4, <2>5
  <2>7. sum + (w % 256) + 256 * (w \div 256) = sum + w
    BY ONLY <1>3, <2>3
  <2>8. sum' = S'[l' - bytes']
    BY ONLY <1>2, <2>1, <2>2, <2>6, <2>7
  <2> QED
    BY <1>1, <2>8 DEF LoopInv, S
<1>6. CASE AddOddByte
  <2>1. bytes = 1 /\ sum' = sum + (w % 256) /\ bytes' = 0
    BY <1>6 DEF AddOddByte, OddByte, LowByte, Add
  <2>2. 2 * j + 1 = l /\ k = 2 * j /\ l - bytes' = 2 * j + 1
    BY <1>1, <1>3, <2>1
  <2>3. Loaded[2 * j + 1] = w % 256
    BY <1>3, <2>2, LoadedHalf
  <2>4. S[2 * j + 1] = S[2 * j] + Loaded[2 * j + 1]
    <3>1. 2 * j + 1 \in Nat \ {0} /\ (2 * j + 1) - 1 = 2 * j
      BY <1>3
    <3> QED
      BY <1>4, <3>1
  <2> HIDE DEF w, S
  <2>5. sum' = S'[l' - bytes']
    BY ONLY <1>2, <2>1, <2>2, <2>3, <2>4
  <2> QED
    BY <1>1, <2>5 DEF LoopInv, S
<1> QED
  BY <1>5, <1>6

(* Every step keeps LoopInv: a call starts with a sum of no bytes, and     *)
(* nothing is written to the message before the caller has its answer.     *)
LEMMA LoopInvPreserved ==
  ASSUME Inv, LoopInv, [Next]_vars
  PROVE  LoopInv'
<1>1. ASSUME Call("fill") \/ Call("verify"), layout' = layout PROVE LoopInv'
  <2>1. layout.length \in Nat
    BY LayoutFacts DEF Inv
  <2>2. /\ pc' = "loop" /\ sum' = 0
        /\ layout'.length - bytes' = 0
    BY <1>1, <2>1 DEF Call
  <2>3. LoadedSums'[0] = 0
    <3>1. LoadedSums[0] = 0
      BY LoadedSumsDef
    <3>2. (LoadedSums[0] = 0)'
      BY LoadedSumsDef, PTL
    <3> QED
      BY <3>2
  <2> QED
    BY <2>2, <2>3 DEF LoopInv
<1>2. CASE CallToFill \/ CallToVerify
  BY <1>1, <1>2 DEF CallToFill, CallToVerify
<1>3. CASE AddWord \/ AddOddByte
  BY <1>3, LoopStep
<1>4. CASE Fold
  <2>1. /\ pc = "loop" /\ bytes = 0 /\ pc' = "foldCarry" /\ sum' = Folded(sum)
        /\ UNCHANGED <<layout, memory>>
    BY <1>4 DEF Fold, Becomes, Folded
  <2>2. layout.length - bytes = layout.length
    BY <2>1, LayoutFacts DEF Inv
  <2>3. sum = LoadedTotal
    BY <2>1, <2>2 DEF LoopInv, LoadedTotal
  <2> QED
    BY <2>1, <2>3, SameLoaded DEF LoopInv
<1>5. CASE FoldCarry
  <2>1. /\ pc = "foldCarry" /\ pc' = "complement" /\ sum' = CarryAdded(sum)
        /\ UNCHANGED <<layout, memory>>
    BY <1>5 DEF FoldCarry, Becomes
  <2> QED
    BY <2>1, SameLoaded DEF LoopInv
<1>6. CASE Complement
  <2>1. /\ pc = "complement" /\ pc' \in {"store", "checked"}
        /\ answer' = (-1 - sum) % 65536 /\ UNCHANGED <<layout, memory>>
    BY <1>6 DEF Complement
  <2> QED
    BY <2>1, SameLoaded DEF LoopInv
<1>7. CASE StoreAnswer \/ Damaged
  BY <1>7 DEF StoreAnswer, Damaged, LoopInv
<1>8. CASE UNCHANGED vars
  <2>1. UNCHANGED <<layout, memory, pc, sum, bytes, answer>>
    BY <1>8 DEF vars
  <2> QED
    BY <2>1, SameLoaded DEF LoopInv
<1> QED
  BY <1>2, <1>3, <1>4, <1>5, <1>6, <1>7, <1>8 DEF Next

(* Utilities.cpp:61-82: what the loop returns is the checksum of the bytes *)
(* it was called on as PacketHeaders has it, for every message of at most  *)
(* 65535 bytes, so that what is proved of the packets there is true of the *)
(* code's loop.                                                            *)
THEOREM LoopComputesChecksumOf == Spec => []AnswerIsChecksumOf
<1>1. Init => LoopInv
  BY DEF Init, LoopInv
<1>2. Inv /\ LoopInv => AnswerIsChecksumOf
  <2> SUFFICES ASSUME Inv, LoopInv, pc \in {"store", "checked"}
               PROVE  answer = Headers!ChecksumOf(MessageBytes)
    BY DEF AnswerIsChecksumOf
  <2>1. Headers!SumOf(Loaded) = LoadedTotal
    BY LayoutFacts, LoadedLength DEF Inv, Headers!SumOf, LoadedTotal, LoadedSums
  <2>2. answer = (-1 - CarryAdded(Folded(LoadedTotal))) % 65536
    BY DEF LoopInv
  <2> QED
    BY <2>1, <2>2 DEF Headers!ChecksumOf, CarryAdded, Folded, Loaded
<1>3. Inv /\ LoopInv /\ [Next]_vars => LoopInv'
  BY LoopInvPreserved
<1> QED
  BY <1>1, <1>2, <1>3, InvHolds, PTL DEF Spec

=============================================================================
