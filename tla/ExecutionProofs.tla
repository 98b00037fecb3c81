--------------------------- MODULE ExecutionProofs ---------------------------
(***************************************************************************)
(* Proofs about IntInstructions and Execution at the widths of the code: a *)
(* byte of eight bits and a uint32_t of four, for all operands, registers  *)
(* and programs.                                                           *)
(*                                                                         *)
(* One instruction.  alu.c widens its operands to 32 bits with their sign  *)
(* and looks at the truncated result alone: the lemmas say what Low and    *)
(* sign_ext keep, what the sum and the difference of two such words are,   *)
(* and so that the flags are those of the integers and a jump goes the way *)
(* the operands compare.  modrm.c, sib.c and operand.c then are shown to   *)
(* find the operand again.  The bitwise operations are sums over the bits  *)
(* of a word, about which the proof is an induction; shifts, products and  *)
(* quotients are found again from the one remainder and quotient that a    *)
(* division has.                                                           *)
(*                                                                         *)
(* Many instructions.  A store without a wrap puts the bytes of its value  *)
(* at an address and a load gives them back, so that each instruction      *)
(* that leaves something on the stack is known by what stands there        *)
(* (Entered).  Nothing that runs in between touches it (Arrived), for the  *)
(* whole nest at once (NestStands), and then its counterpart finds it.     *)
(*                                                                         *)
(* Repeated strings.  Each pass moves, fills or compares one element and   *)
(* no other (PassIs); which elements are done after so many passes, and    *)
(* that the rest is untouched, is the invariant of the loop (LoopStands).  *)
(*                                                                         *)
(* Steps that meet 2^32 keep the power behind a name, since the provers    *)
(* only need the order of the numbers and how they add up.                 *)
(***************************************************************************)
EXTENDS Execution, SequenceTheorems, TLAPS, WellFoundedInduction

(* Division and remainder by a power of 2, of which only the sign matters. *)
LEMMA ModIs ==
  ASSUME NEW x \in Int, NEW M \in Int, M > 0
  PROVE  x % M \in Int /\ x % M >= 0 /\ x % M < M /\ x \div M \in Int /\ x = (M * (x \div M)) + (x % M)
BY SMT

(* A remainder and a quotient are the only ones.                            *)
LEMMA ModUnique ==
  ASSUME NEW x \in Int, NEW M \in Int, M > 0, NEW k \in Int, NEW r \in Int, r >= 0, r < M,
         x = (M * k) + r
  PROVE  x % M = r /\ x \div M = k
<1> DEFINE q == x \div M
           s == x % M
<1>1. q \in Int /\ s \in Int /\ s >= 0 /\ s < M /\ (M * q) + s = (M * k) + r
  BY ModIs
<1> HIDE DEF q, s
<1>2. CASE q > k
  <2>1. M * q >= (M * k) + M
    <3>1. PICK d \in Int : d >= 1 /\ q = k + d
      <4>1. (q - k) \in Int /\ q - k >= 1 /\ q = k + (q - k)
        BY <1>1, <1>2
      <4>2. QED
        BY <4>1
    <3>2. M * d >= M
      BY <3>1, SMT
    <3>3. QED
      BY <3>1, <3>2, SMT
  <2>2. QED
    BY <1>1, <2>1, SMT
<1>3. CASE q < k
  <2>1. M * k >= (M * q) + M
    <3>1. PICK d \in Int : d >= 1 /\ k = q + d
      <4>1. (k - q) \in Int /\ k - q >= 1 /\ k = q + (k - q)
        BY <1>1, <1>3
      <4>2. QED
        BY <4>1
    <3>2. M * d >= M
      BY <3>1, SMT
    <3>3. QED
      BY <1>1, <3>1, <3>2, SMT
  <2>2. QED
    BY <1>1, <2>1, SMT
<1>4. q = k /\ s = r
  <2>1. q = k
    BY <1>1, <1>2, <1>3
  <2>2. QED
    BY <1>1, <2>1, SMT
<1>5. QED
  BY <1>4 DEF q, s

(* The three operand sizes of a machine whose bytes have eight bits.       *)
LEMMA Powers ==
  /\ 2^32 = 4294967296 /\ 2^31 = 2147483648 /\ 2^16 = 65536 /\ 2^15 = 32768
  /\ 2^8 = 256 /\ 2^7 = 128
BY SMT

(* The sizes, the word and their powers of 2, as far as the proofs need them.*)
LEMMA Widths ==
  ASSUME Byte = 8, NEW n \in Sizes
  PROVE  /\ n \in Nat /\ 2^n \in Int /\ 2^(n - 1) \in Int /\ 2^(n - 1) > 1
         /\ 2^n = 2^(n - 1) + 2^(n - 1)
         /\ Word \in Int /\ Word >= 2^n /\ \E k \in Int : k >= 1 /\ Word = 2^n * k
         /\ 2^(Host - 1) \in Int /\ Word = 2^(Host - 1) + 2^(Host - 1) /\ 2^(Host - 1) >= 2^(n - 1)
<1>1. Host = 32 /\ Sizes = {8, 16, 32}
  BY DEF Host, Sizes
<1>2. Host - 1 = 31
  BY <1>1, SMT
<1>3. Word = 4294967296 /\ 2^(Host - 1) = 2147483648
  BY <1>1, <1>2, Powers, SMT DEF Word
<1>4. CASE n = 8
  <2>1. n - 1 = 7
    BY <1>4, SMT
  <2>2. 2^n = 256 /\ 2^(n - 1) = 128
    BY <1>4, <2>1, Powers, SMT
  <2>3. Word = 2^n * 16777216
    BY <1>3, <2>2, SMT
  <2>4. QED
    BY <1>3, <1>4, <2>2, <2>3, SMT
<1>5. CASE n = 16
  <2>1. n - 1 = 15
    BY <1>5, SMT
  <2>2. 2^n = 65536 /\ 2^(n - 1) = 32768
    BY <1>5, <2>1, Powers, SMT
  <2>3. Word = 2^n * 65536
    BY <1>3, <2>2, SMT
  <2>4. QED
    BY <1>3, <1>5, <2>2, <2>3, SMT
<1>6. CASE n = 32
  <2>1. n - 1 = 31
    BY <1>6, SMT
  <2>2. 2^n = 4294967296 /\ 2^(n - 1) = 2147483648
    BY <1>6, <2>1, Powers, SMT
  <2>3. Word = 2^n * 1
    BY <1>3, <2>2, SMT
  <2>4. QED
    BY <1>3, <1>6, <2>2, <2>3, SMT
<1>7. QED
  BY <1>1, <1>4, <1>5, <1>6

(* The lowest n bits are the remainder by 2^n.                              *)
LEMMA LowIs ==
  ASSUME Byte = 8, NEW n \in Sizes, NEW x \in Int
  PROVE  /\ Low(x, n) \in Int /\ Low(x, n) >= 0 /\ Low(x, n) < 2^n
         /\ x \div 2^n \in Int /\ x = (2^n * (x \div 2^n)) + Low(x, n)
<1>1. 2^n \in Int /\ 2^n > 0
  BY Widths, SMT
<1>2. QED
  BY <1>1, ModIs DEF Low

(* And they are the only number of n bits that is a multiple of 2^n away.   *)
LEMMA LowUnique ==
  ASSUME Byte = 8, NEW n \in Sizes, NEW x \in Int, NEW k \in Int,
         NEW r \in Int, r >= 0, r < 2^n, x = (2^n * k) + r
  PROVE  Low(x, n) = r
<1>1. 2^n \in Int /\ 2^n > 0
  BY Widths, SMT
<1>2. QED
  BY <1>1, ModUnique DEF Low

(* Cutting a word to an operand size forgets what is above, whatever       *)
(* multiple of the word was added.                                         *)
LEMMA LowOfSum ==
  ASSUME Byte = 8, NEW n \in Sizes, NEW x \in Int, NEW y \in Int, NEW k \in Int, y = x + (2^n * k)
  PROVE  Low(y, n) = Low(x, n)
<1> DEFINE M == 2^n
           q == x \div M
           r == Low(x, n)
<1>1. M \in Int /\ q \in Int /\ r \in Int /\ r >= 0 /\ r < M /\ x = (M * q) + r
  BY LowIs, Widths
<1> HIDE DEF q, r
<1>2. y = (M * (q + k)) + r /\ (q + k) \in Int
  <2> HIDE DEF M
  <2>1. y = x + (M * k)
    BY DEF M
  <2>2. QED
    BY <1>1, <2>1, SMT
<1>3. Low(y, n) = r
  BY <1>1, <1>2, LowUnique
<1>4. QED
  BY <1>3 DEF r

(* A result of 32 bits has the lowest bits of the number it was cut from.   *)
LEMMA LowOfWord ==
  ASSUME Byte = 8, NEW n \in Sizes, NEW x \in Int
  PROVE  x % Word \in Int /\ Low(x % Word, n) = Low(x, n)
<1>1. PICK k \in Int : k >= 1 /\ Word = 2^n * k
  BY Widths
<1> DEFINE M == 2^n
           q == x \div Word
           r == x % Word
<1>2. M \in Int /\ Word \in Int /\ Word > 0
  BY Widths, SMT
<1>3. q \in Int /\ r \in Int /\ x = (Word * q) + r
  BY <1>2, ModIs
<1> HIDE DEF q, r
<1>4. x = r + (M * (k * q)) /\ (k * q) \in Int
  <2> HIDE DEF M
  <2>1. Word = M * k
    BY <1>1 DEF M
  <2>2. QED
    BY <1>2, <1>3, <2>1, SMT
<1>5. Low(x, n) = Low(r, n)
  BY <1>3, <1>4, LowOfSum
<1>6. QED
  BY <1>3, <1>5 DEF r
-----------------------------------------------------------------------------
(* What sign_ext, sign and the cast to int make of the lowest n bits.      *)
LEMMA ExtIs ==
  ASSUME Byte = 8, NEW n \in Sizes, NEW x \in Int
  PROVE  /\ sign_ext(x, n) = IF Low(x, n) < 2^(n - 1) THEN Low(x, n) ELSE (Low(x, n) - 2^n) + Word
         /\ sign_ext(x, n) \in Int /\ sign_ext(x, n) >= 0 /\ sign_ext(x, n) < Word
         /\ Low(sign_ext(x, n), n) = Low(x, n)
         /\ sign(sign_ext(x, n)) = Flag(Low(x, n) >= 2^(n - 1))
<1> DEFINE M == 2^n
           H == 2^(n - 1)
           G == 2^(Host - 1)
           l == Low(x, n)
           e == sign_ext(x, n)
<1>1. /\ M \in Int /\ H \in Int /\ H > 1 /\ M = H + H /\ G \in Int /\ Word = G + G /\ G >= H
      /\ Word \in Int /\ l \in Int /\ l >= 0 /\ l < M
  BY Widths, LowIs
<1>2. e = IF l < H THEN l % Word ELSE (l - M) % Word
  BY DEF sign_ext
<1>3. sign(e) = e \div G
  BY DEF sign
<1> HIDE DEF M, H, G, l, e
<1>4. CASE l < H
  <2>1. l = (Word * 0) + l /\ l < Word
    BY <1>1, <1>4, SMT
  <2>2. e = l
    BY <1>1, <1>2, <1>4, <2>1, ModUnique
  <2>3. l = (G * 0) + l /\ l < G
    BY <1>1, <1>4, SMT
  <2>4. l \div G = 0
    BY <1>1, <2>3, ModUnique
  <2>5. l = Low(x, n) /\ Low(l, n) = l
    <3>1. l = (M * 0) + l
      BY <1>1, SMT
    <3>2. Low(l, n) = l
      BY <1>1, <3>1, LowUnique DEF M
    <3>3. QED
      BY <3>2 DEF l
  <2>6. ~(l >= H)
    BY <1>1, <1>4, SMT
  <2>7. e \in Int /\ e >= 0 /\ e < Word /\ Low(e, n) = l /\ sign(e) = Flag(l >= H)
    BY <1>1, <1>3, <2>1, <2>2, <2>4, <2>5, <2>6 DEF Flag
  <2>8. QED
    BY <1>4, <2>2, <2>7 DEF M, H, l, e
<1>5. CASE ~(l < H)
  <2>1. /\ (l - M) + Word \in Int /\ (l - M) + Word >= 0 /\ (l - M) + Word < Word
        /\ (l - M) \in Int /\ l - M = (Word * (-1)) + ((l - M) + Word)
    BY <1>1, <1>5, SMT
  <2>2. e = (l - M) + Word
    <3>1. (l - M) % Word = (l - M) + Word
      <4>1. Word > 0 /\ -1 \in Int
        BY <1>1, SMT
      <4>2. QED
        BY <1>1, <2>1, <4>1, ModUnique
    <3>2. QED
      BY <1>2, <1>5, <3>1
  <2>3. e \in Int /\ e = (G * 1) + (e - G) /\ e - G >= 0 /\ e - G < G /\ (e - G) \in Int
    BY <1>1, <1>5, <2>2, SMT
  <2>4. e \div G = 1
    <3>1. G > 0
      BY <1>1, SMT
    <3>2. QED
      BY <1>1, <2>3, <3>1, ModUnique
  <2>5. Low(e, n) = l
    <3>1. PICK k \in Int : k >= 1 /\ Word = M * k
      BY Widths DEF M
    <3>2. e = l + (M * (k - 1)) /\ (k - 1) \in Int
      BY <1>1, <2>2, <3>1, SMT
    <3>3. Low(e, n) = Low(l, n)
      BY <1>1, <2>3, <3>2, LowOfSum DEF M
    <3>4. l = (M * 0) + l
      BY <1>1, SMT
    <3>5. Low(l, n) = l
      BY <1>1, <3>4, LowUnique DEF M
    <3>6. QED
      BY <3>3, <3>5
  <2>6. l >= H
    BY <1>1, <1>5, SMT
  <2>7. e \in Int /\ e >= 0 /\ e < Word /\ Low(e, n) = l /\ sign(e) = Flag(l >= H)
    BY <1>3, <2>1, <2>2, <2>4, <2>5, <2>6 DEF Flag
  <2>8. QED
    BY <1>5, <2>2, <2>7 DEF M, H, l, e
<1>6. QED
  BY <1>4, <1>5

(* Extension keeps the order of the lowest bits.                           *)
LEMMA ExtOrder ==
  ASSUME Byte = 8, NEW n \in Sizes, NEW x \in Int, NEW y \in Int
  PROVE  /\ sign_ext(x, n) < sign_ext(y, n) <=> Low(x, n) < Low(y, n)
         /\ sign_ext(x, n) <= sign_ext(y, n) <=> Low(x, n) <= Low(y, n)
<1> DEFINE M == 2^n
           H == 2^(n - 1)
           lx == Low(x, n)
           ly == Low(y, n)
           ex == sign_ext(x, n)
           ey == sign_ext(y, n)
<1>1. /\ M \in Int /\ H \in Int /\ M = H + H /\ Word \in Int /\ Word >= M
      /\ lx \in Int /\ lx >= 0 /\ lx < M /\ ly \in Int /\ ly >= 0 /\ ly < M
  BY Widths, LowIs
<1>2. /\ ex = IF lx < H THEN lx ELSE (lx - M) + Word
      /\ ey = IF ly < H THEN ly ELSE (ly - M) + Word
  BY ExtIs
<1> HIDE DEF M, H, lx, ly, ex, ey
<1>3. (ex < ey <=> lx < ly) /\ (ex <= ey <=> lx <= ly)
  BY <1>1, <1>2, SMT
<1>4. QED
  BY <1>3 DEF lx, ly, ex, ey

FlagRecord == [CF : 0 .. 1, PF : 0 .. 1, ZF : 0 .. 1, SF : 0 .. 1, OF : 0 .. 1]

(* The cast to int, in two's complement.                                    *)
LEMMA AsIntIs ==
  ASSUME Byte = 8, NEW n \in Sizes, NEW x \in Int
  PROVE  /\ AsInt(x, n) = IF Low(x, n) < 2^(n - 1) THEN Low(x, n) ELSE Low(x, n) - 2^n
         /\ AsInt(x, n) \in Int /\ AsInt(x, n) >= -(2^(n - 1)) /\ AsInt(x, n) < 2^(n - 1)
<1> DEFINE M == 2^n
           H == 2^(n - 1)
           l == Low(x, n)
           s == AsInt(x, n)
<1>1. M \in Int /\ H \in Int /\ M = H + H /\ l \in Int /\ l >= 0 /\ l < M
  BY Widths, LowIs
<1>2. s = IF l < H THEN l ELSE l - M
  BY DEF AsInt
<1> HIDE DEF M, H, l, s
<1>3. s \in Int /\ s >= -H /\ s < H
  BY <1>1, <1>2, SMT
<1>4. QED
  BY <1>2, <1>3 DEF M, H, l, s

(* set_CF_add, set_CF_adc and set_OF_add look at the truncated result      *)
(* only, and find what the sum of the operands was.                        *)
LEMMA SumIs ==
  ASSUME Byte = 8, NEW n \in Sizes, NEW src \in Int, NEW dest \in Int, NEW carry \in 0 .. 1,
         NEW f \in FlagRecord
  PROVE  LET u == (Low(dest, n) + Low(src, n)) + carry
             s == (AsInt(dest, n) + AsInt(src, n)) + carry
             out == Sum(f, src, dest, n, carry)
         IN /\ u \in Int /\ s \in Int
            /\ out.val = Low(u, n)
            /\ out.flags \in FlagRecord
            /\ out.flags.CF = Flag(u >= 2^n)
            /\ out.flags.OF = Flag(s < -(2^(n - 1)) \/ s >= 2^(n - 1))
            /\ out.flags.ZF = Flag(Low(u, n) = 0)
            /\ out.flags.SF = Flag(Low(u, n) >= 2^(n - 1))
<1> DEFINE M == 2^n
           H == 2^(n - 1)
           ls == Low(src, n)
           ld == Low(dest, n)
           as == AsInt(src, n)
           ad == AsInt(dest, n)
           u == (ld + ls) + carry
           s == (ad + as) + carry
           lu == Low(u, n)
           total == (dest + src) + carry
           res == total % Word
<1>1. /\ M \in Int /\ H \in Int /\ M = H + H /\ H > 1 /\ ls \in Int /\ ls >= 0 /\ ls < M
      /\ ld \in Int /\ ld >= 0 /\ ld < M
      /\ as = (IF ls < H THEN ls ELSE ls - M) /\ ad = (IF ld < H THEN ld ELSE ld - M)
      /\ as \in Int /\ ad \in Int /\ carry \in Int /\ carry \in {0, 1}
  <2>1. /\ M \in Int /\ H \in Int /\ M = H + H /\ H > 1
    BY Widths
  <2>2. ls \in Int /\ ls >= 0 /\ ls < M /\ ld \in Int /\ ld >= 0 /\ ld < M
    BY LowIs
  <2>3. /\ as = (IF ls < H THEN ls ELSE ls - M) /\ ad = (IF ld < H THEN ld ELSE ld - M)
        /\ as \in Int /\ ad \in Int
    BY AsIntIs
  <2>4. carry \in Int /\ carry \in {0, 1}
    OBVIOUS
  <2>5. QED
    BY <2>1, <2>2, <2>3, <2>4
<1>2. res \in Int /\ Low(res, n) = lu /\ u \in Int /\ s \in Int
  <2>1. total \in Int /\ u \in Int /\ s \in Int
    BY <1>1
  <2>2. res \in Int /\ Low(res, n) = Low(total, n)
    BY <2>1, LowOfWord
  <2>3. /\ dest \div M \in Int /\ dest = (M * (dest \div M)) + ld
        /\ src \div M \in Int /\ src = (M * (src \div M)) + ls
    BY LowIs
  <2>4. PICK k \in Int : total = u + (M * k)
    <3> DEFINE qd == dest \div M
               qs == src \div M
    <3>1. qd \in Int /\ dest = (M * qd) + ld /\ qs \in Int /\ src = (M * qs) + ls
      BY <2>3
    <3> HIDE DEF M, ls, ld, qd, qs
    <3>2. total = u + (M * (qd + qs)) /\ (qd + qs) \in Int
      BY <1>1, <3>1, SMT
    <3>3. QED
      BY <3>2
  <2>5. Low(total, n) = lu
    BY <2>1, <2>4, LowOfSum
  <2>6. QED
    BY <2>1, <2>2, <2>5
<1>3. lu \in Int /\ lu = IF u >= M THEN u - M ELSE u
  <2>1. CASE u >= M
    <3> HIDE DEF M, ls, ld
    <3>1. (u - M) \in Int /\ u - M >= 0 /\ u - M < M /\ u = (M * 1) + (u - M) /\ 1 \in Int
      BY <1>1, <2>1, SMT
    <3> HIDE DEF u
    <3>2. Low(u, n) = u - M
      BY <1>2, <3>1, LowUnique DEF M
    <3>3. QED
      BY <2>1, <3>1, <3>2
  <2>2. CASE ~(u >= M)
    <3> HIDE DEF M, ls, ld
    <3>1. u \in Int /\ u >= 0 /\ u < M /\ u = (M * 0) + u /\ 0 \in Int
      BY <1>1, <1>2, <2>2, SMT
    <3> HIDE DEF u
    <3>2. Low(u, n) = u
      BY <3>1, LowUnique DEF M
    <3>3. QED
      BY <2>2, <3>1, <3>2
  <2>3. QED
    BY <2>1, <2>2
<1> DEFINE r == sign_ext(res, n)
           es == sign_ext(src, n)
           ed == sign_ext(dest, n)
           pf == Flag(Cardinality({i \in 0 .. Byte - 1 : Bit(res, i) = 1}) % 2 = 0)
           zf == Flag(Low(res, n) = 0)
           sf == sign(r)
           cf == Flag(IF carry = 1 THEN r <= es ELSE r < es)
           of == Flag(sign(es) = sign(ed) /\ sign(es) # sign(r))
           out == Sum(f, src, dest, n, carry)
<1>4. /\ r < es <=> lu < ls
      /\ r <= es <=> lu <= ls
      /\ sign(r) = Flag(lu >= H) /\ sign(es) = Flag(ls >= H) /\ sign(ed) = Flag(ld >= H)
  BY <1>2, ExtOrder, ExtIs
<1>5. /\ out.val = Low(res, n)
      /\ out.flags = [[[[[f EXCEPT !.PF = pf] EXCEPT !.ZF = zf] EXCEPT !.SF = sf]
                        EXCEPT !.CF = cf] EXCEPT !.OF = of]
  BY DEF Sum, SetPSZ
<1>6. /\ cf = Flag(u >= M) /\ sf = Flag(lu >= H) /\ zf = Flag(lu = 0)
      /\ of = Flag(s < -H \/ s >= H)
  <2>1. (IF carry = 1 THEN r <= es ELSE r < es) <=> u >= M
    <3> HIDE DEF M, H, ls, ld, lu, r, es
    <3>1. QED
      BY <1>1, <1>3, <1>4, SMT
  <2>2. (sign(es) = sign(ed) /\ sign(es) # sign(r)) <=> (s < -H \/ s >= H)
    <3> HIDE DEF M, H, ls, ld, as, ad, lu, r, es, ed
    <3>1. (ls >= H <=> ld >= H) /\ ~(ls >= H <=> lu >= H) <=> (s < -H \/ s >= H)
      BY <1>1, <1>3, SMT
    <3>2. /\ sign(es) = sign(ed) <=> (ls >= H <=> ld >= H)
          /\ sign(es) = sign(r) <=> (ls >= H <=> lu >= H)
      BY <1>4, SMT DEF Flag
    <3>3. QED
      BY <3>1, <3>2
  <2>3. QED
    BY <1>2, <1>4, <2>1, <2>2 DEF Flag
<1>7. pf \in 0 .. 1 /\ zf \in 0 .. 1 /\ sf \in 0 .. 1 /\ cf \in 0 .. 1 /\ of \in 0 .. 1
  BY <1>4 DEF Flag
<1> HIDE DEF pf, zf, sf, cf, of
<1>8. /\ out.flags \in FlagRecord /\ out.flags.CF = cf /\ out.flags.OF = of
      /\ out.flags.ZF = zf /\ out.flags.SF = sf
  <2> HIDE DEF out
  <2>1. QED
    BY <1>5, <1>7 DEF FlagRecord
<1>9. QED
  BY <1>2, <1>5, <1>6, <1>8

(* The same for the borrow of a difference.                                *)
LEMMA DifferenceIs ==
  ASSUME Byte = 8, NEW n \in Sizes, NEW src \in Int, NEW dest \in Int, NEW borrow \in 0 .. 1,
         NEW f \in FlagRecord
  PROVE  LET u == (Low(dest, n) - Low(src, n)) - borrow
             s == (AsInt(dest, n) - AsInt(src, n)) - borrow
             out == Difference(f, src, dest, n, borrow)
         IN /\ u \in Int /\ s \in Int
            /\ out.val = Low(u, n)
            /\ out.flags \in FlagRecord
            /\ out.flags.CF = Flag(u < 0)
            /\ out.flags.OF = Flag(s < -(2^(n - 1)) \/ s >= 2^(n - 1))
            /\ out.flags.ZF = Flag(Low(u, n) = 0)
            /\ out.flags.SF = Flag(Low(u, n) >= 2^(n - 1))
<1> DEFINE M == 2^n
           H == 2^(n - 1)
           ls == Low(src, n)
           ld == Low(dest, n)
           as == AsInt(src, n)
           ad == AsInt(dest, n)
           u == (ld - ls) - borrow
           s == (ad - as) - borrow
           lu == Low(u, n)
           total == (dest - src) - borrow
           res == total % Word
<1>1. /\ M \in Int /\ H \in Int /\ M = H + H /\ H > 1 /\ ls \in Int /\ ls >= 0 /\ ls < M
      /\ ld \in Int /\ ld >= 0 /\ ld < M
      /\ as = (IF ls < H THEN ls ELSE ls - M) /\ ad = (IF ld < H THEN ld ELSE ld - M)
      /\ as \in Int /\ ad \in Int /\ borrow \in Int /\ borrow \in {0, 1}
  <2>1. /\ M \in Int /\ H \in Int /\ M = H + H /\ H > 1
    BY Widths
  <2>2. ls \in Int /\ ls >= 0 /\ ls < M /\ ld \in Int /\ ld >= 0 /\ ld < M
    BY LowIs
  <2>3. /\ as = (IF ls < H THEN ls ELSE ls - M) /\ ad = (IF ld < H THEN ld ELSE ld - M)
        /\ as \in Int /\ ad \in Int
    BY AsIntIs
  <2>4. borrow \in Int /\ borrow \in {0, 1}
    OBVIOUS
  <2>5. QED
    BY <2>1, <2>2, <2>3, <2>4
<1>2. res \in Int /\ Low(res, n) = lu /\ u \in Int /\ s \in Int
  <2>1. total \in Int /\ u \in Int /\ s \in Int
    BY <1>1
  <2>2. res \in Int /\ Low(res, n) = Low(total, n)
    BY <2>1, LowOfWord
  <2>3. /\ dest \div M \in Int /\ dest = (M * (dest \div M)) + ld
        /\ src \div M \in Int /\ src = (M * (src \div M)) + ls
    BY LowIs
  <2>4. PICK k \in Int : total = u + (M * k)
    <3> DEFINE qd == dest \div M
               qs == src \div M
    <3>1. qd \in Int /\ dest = (M * qd) + ld /\ qs \in Int /\ src = (M * qs) + ls
      BY <2>3
    <3> HIDE DEF M, ls, ld, qd, qs
    <3>2. total = u + (M * (qd - qs)) /\ (qd - qs) \in Int
      BY <1>1, <3>1, SMT
    <3>3. QED
      BY <3>2
  <2>5. Low(total, n) = lu
    BY <2>1, <2>4, LowOfSum
  <2>6. QED
    BY <2>1, <2>2, <2>5
<1>3. lu \in Int /\ lu = IF u < 0 THEN u + M ELSE u
  <2>1. CASE u < 0
    <3> HIDE DEF M, ls, ld
    <3>1. (u + M) \in Int /\ u + M >= 0 /\ u + M < M /\ u = (M * (-1)) + (u + M) /\ -1 \in Int
      BY <1>1, <2>1, SMT
    <3> HIDE DEF u
    <3>2. Low(u, n) = u + M
      BY <1>2, <3>1, LowUnique DEF M
    <3>3. QED
      BY <2>1, <3>1, <3>2
  <2>2. CASE ~(u < 0)
    <3> HIDE DEF M, ls, ld
    <3>1. u \in Int /\ u >= 0 /\ u < M /\ u = (M * 0) + u /\ 0 \in Int
      BY <1>1, <1>2, <2>2, SMT
    <3> HIDE DEF u
    <3>2. Low(u, n) = u
      BY <3>1, LowUnique DEF M
    <3>3. QED
      BY <2>2, <3>1, <3>2
  <2>3. QED
    BY <2>1, <2>2
<1> DEFINE r == sign_ext(res, n)
           es == sign_ext(src, n)
           ed == sign_ext(dest, n)
           pf == Flag(Cardinality({i \in 0 .. Byte - 1 : Bit(res, i) = 1}) % 2 = 0)
           zf == Flag(Low(res, n) = 0)
           sf == sign(r)
           cf == Flag(IF borrow = 1 THEN ed <= es ELSE ed < es)
           of == Flag(sign(es) # sign(ed) /\ sign(ed) # sign(r))
           out == Difference(f, src, dest, n, borrow)
<1>4. /\ ed < es <=> ld < ls
      /\ ed <= es <=> ld <= ls
      /\ sign(r) = Flag(lu >= H) /\ sign(es) = Flag(ls >= H) /\ sign(ed) = Flag(ld >= H)
  BY <1>2, ExtOrder, ExtIs
<1>5. /\ out.val = Low(res, n)
      /\ out.flags = [[[[[f EXCEPT !.PF = pf] EXCEPT !.ZF = zf] EXCEPT !.SF = sf]
                        EXCEPT !.CF = cf] EXCEPT !.OF = of]
  BY DEF Difference, SetPSZ
<1>6. /\ cf = Flag(u < 0) /\ sf = Flag(lu >= H) /\ zf = Flag(lu = 0)
      /\ of = Flag(s < -H \/ s >= H)
  <2>1. (IF borrow = 1 THEN ed <= es ELSE ed < es) <=> u < 0
    <3> HIDE DEF M, H, ls, ld, lu, r, es, ed
    <3>1. QED
      BY <1>1, <1>3, <1>4, SMT
  <2>2. (sign(es) # sign(ed) /\ sign(ed) # sign(r)) <=> (s < -H \/ s >= H)
    <3> HIDE DEF M, H, ls, ld, as, ad, lu, r, es, ed
    <3>1. ~(ls >= H <=> ld >= H) /\ ~(ld >= H <=> lu >= H) <=> (s < -H \/ s >= H)
      BY <1>1, <1>3, SMT
    <3>2. /\ sign(es) = sign(ed) <=> (ls >= H <=> ld >= H)
          /\ sign(ed) = sign(r) <=> (ld >= H <=> lu >= H)
      BY <1>4, SMT DEF Flag
    <3>3. QED
      BY <3>1, <3>2
  <2>3. QED
    BY <1>2, <1>4, <2>1, <2>2 DEF Flag
<1>7. pf \in 0 .. 1 /\ zf \in 0 .. 1 /\ sf \in 0 .. 1 /\ cf \in 0 .. 1 /\ of \in 0 .. 1
  BY <1>4 DEF Flag
<1> HIDE DEF pf, zf, sf, cf, of
<1>8. /\ out.flags \in FlagRecord /\ out.flags.CF = cf /\ out.flags.OF = of
      /\ out.flags.ZF = zf /\ out.flags.SF = sf
  <2> HIDE DEF out
  <2>1. QED
    BY <1>5, <1>7 DEF FlagRecord
<1>9. QED
  BY <1>2, <1>5, <1>6, <1>8
-----------------------------------------------------------------------------
(* The operands that the instructions run on are words, and flags.          *)
LEMMA OperandsAre ==
  ASSUME Byte = 8
  PROVE  /\ \A x \in Values : x \in Int
         /\ \A f \in Flags : f \in FlagRecord
<1>1. Word \in Int
  <2>1. 8 \in Sizes
    BY DEF Sizes
  <2>2. QED
    BY <2>1, Widths
<1>2. \A x \in Values : x \in Int
  BY <1>1, OperandAssumption
<1>3. \A f \in Flags : f \in FlagRecord
  BY DEF Flags, FlagRecord
<1>4. QED
  BY <1>2, <1>3

(* What SumsAreExact says of one sum or difference, in the words of Alu.   *)
Exact(op, f, src, dest, n, out) ==
  LET plus == op \in {"add", "adc", "inc"}
      carry == IF op \in {"adc", "sbb"} THEN f.CF ELSE 0
      u == IF plus THEN (Low(dest, n) + Low(src, n)) + carry ELSE (Low(dest, n) - Low(src, n)) - carry
      s == IF plus THEN (AsInt(dest, n) + AsInt(src, n)) + carry
                   ELSE (AsInt(dest, n) - AsInt(src, n)) - carry
  IN /\ u \in Int /\ s \in Int
     /\ out.val = Low(u, n)
     /\ out.flags \in FlagRecord
     /\ out.flags.CF = IF op \in {"inc", "dec"} THEN f.CF ELSE Flag(u < 0 \/ u >= 2^n)
     /\ out.flags.OF = Flag(s < -(2^(n - 1)) \/ s >= 2^(n - 1))
     /\ out.flags.ZF = Flag(Low(u, n) = 0)
     /\ out.flags.SF = Flag(Low(u, n) >= 2^(n - 1))

(* Every operation of alu.c and of inc.c that adds.                         *)
LEMMA SumsOfAlu ==
  ASSUME Byte = 8, NEW n \in Sizes, NEW src \in Int, NEW dest \in Int, NEW f \in FlagRecord
  PROVE  /\ Exact("add", f, src, dest, n, alu_add(f, src, dest, n))
         /\ Exact("adc", f, src, dest, n, alu_adc(f, src, dest, n))
         /\ Exact("inc", f, 1, dest, n, inc_rm(f, dest, n))
<1>1. f.CF \in 0 .. 1 /\ 0 \in 0 .. 1 /\ 1 \in Int
  BY DEF FlagRecord
<1>2. ASSUME NEW a \in Int, NEW b \in Int, NEW c \in 0 .. 1
      PROVE  LET u == (Low(b, n) + Low(a, n)) + c
             IN (u < 0 \/ u >= 2^n) <=> u >= 2^n
  <2> DEFINE la == Low(a, n)
             lb == Low(b, n)
  <2>1. la \in Int /\ la >= 0 /\ lb \in Int /\ lb >= 0 /\ 2^n \in Int
    BY LowIs, Widths
  <2> c \in {0, 1}
    OBVIOUS
  <2> HIDE DEF la, lb
  <2>2. ~((lb + la) + c < 0)
    BY <2>1, SMT
  <2>3. QED
    BY <2>2 DEF la, lb
<1>3. Exact("add", f, src, dest, n, alu_add(f, src, dest, n))
  BY <1>1, <1>2, SumIs DEF Exact, alu_add
<1>4. Exact("adc", f, src, dest, n, alu_adc(f, src, dest, n))
  BY <1>1, <1>2, SumIs DEF Exact, alu_adc
<1>5. Exact("inc", f, 1, dest, n, inc_rm(f, dest, n))
  <2> DEFINE r == alu_add(f, 1, dest, n)
             out == inc_rm(f, dest, n)
  <2>1. Exact("add", f, 1, dest, n, r)
    BY <1>1, <1>2, SumIs DEF Exact, alu_add
  <2>2. out = [r EXCEPT !.flags.CF = f.CF] /\ \E v, g : r = [val |-> v, flags |-> g]
    BY DEF inc_rm, alu_add, Sum
  <2> HIDE DEF r, out
  <2>3. out.val = r.val /\ out.flags = [r.flags EXCEPT !.CF = f.CF] /\ r.flags \in FlagRecord
    BY <2>1, <2>2 DEF Exact
  <2>4. /\ out.flags \in FlagRecord /\ out.flags.CF = f.CF /\ out.flags.OF = r.flags.OF
        /\ out.flags.ZF = r.flags.ZF /\ out.flags.SF = r.flags.SF
    BY <1>1, <2>3 DEF FlagRecord
  <2>5. Exact("inc", f, 1, dest, n, out)
    BY <2>1, <2>3, <2>4 DEF Exact
  <2>6. QED
    BY <2>5 DEF out
<1>6. QED
  BY <1>3, <1>4, <1>5

(* Every operation of alu.c, cmp.c and dec.c that subtracts.                *)
LEMMA DifferencesOfAlu ==
  ASSUME Byte = 8, NEW n \in Sizes, NEW src \in Int, NEW dest \in Int, NEW f \in FlagRecord
  PROVE  /\ Exact("sub", f, src, dest, n, alu_sub(f, src, dest, n))
         /\ Exact("sbb", f, src, dest, n, alu_sbb(f, src, dest, n))
         /\ Exact("cmp", f, src, dest, n, cmp_2op(f, src, dest, n))
         /\ Exact("dec", f, 1, dest, n, dec_rm(f, dest, n))
<1>1. f.CF \in 0 .. 1 /\ 0 \in 0 .. 1 /\ 1 \in Int
  BY DEF FlagRecord
<1>2. ASSUME NEW a \in Int, NEW b \in Int, NEW c \in 0 .. 1
      PROVE  LET u == (Low(b, n) - Low(a, n)) - c
             IN (u < 0 \/ u >= 2^n) <=> u < 0
  <2> DEFINE la == Low(a, n)
             lb == Low(b, n)
             M == 2^n
  <2>1. la \in Int /\ la >= 0 /\ lb \in Int /\ lb >= 0 /\ lb < M /\ M \in Int
    BY LowIs, Widths
  <2> c \in {0, 1}
    OBVIOUS
  <2> HIDE DEF la, lb, M
  <2>2. ~((lb - la) - c >= M)
    BY <2>1, SMT
  <2>3. QED
    BY <2>2 DEF la, lb, M
<1>3. ASSUME NEW a \in Int, NEW b \in Int
      PROVE  Exact("sub", f, a, b, n, alu_sub(f, a, b, n))
  BY <1>1, <1>2, DifferenceIs DEF Exact, alu_sub
<1>4. Exact("sbb", f, src, dest, n, alu_sbb(f, src, dest, n))
  BY <1>1, <1>2, DifferenceIs DEF Exact, alu_sbb
<1>5. Exact("cmp", f, src, dest, n, cmp_2op(f, src, dest, n))
  <2> DEFINE a == sign_ext(src, n)
             b == sign_ext(dest, n)
             out == alu_sub(f, a, b, n)
  <2>1. a \in Int /\ b \in Int /\ Low(a, n) = Low(src, n) /\ Low(b, n) = Low(dest, n)
    BY ExtIs
  <2>2. AsInt(a, n) = AsInt(src, n) /\ AsInt(b, n) = AsInt(dest, n)
    BY <2>1 DEF AsInt
  <2>3. cmp_2op(f, src, dest, n) = out
    BY DEF cmp_2op
  <2> HIDE DEF a, b
  <2>4. Exact("sub", f, a, b, n, out)
    BY <1>3, <2>1
  <2> HIDE DEF out
  <2>5. QED
    BY <2>1, <2>2, <2>3, <2>4 DEF Exact
<1>6. Exact("dec", f, 1, dest, n, dec_rm(f, dest, n))
  <2> DEFINE r == alu_sub(f, 1, dest, n)
             out == dec_rm(f, dest, n)
  <2>1. Exact("sub", f, 1, dest, n, r)
    BY <1>1, <1>3
  <2>2. out = [r EXCEPT !.flags.CF = f.CF] /\ \E v, g : r = [val |-> v, flags |-> g]
    BY DEF dec_rm, alu_sub, Difference
  <2> HIDE DEF r, out
  <2>3. out.val = r.val /\ out.flags = [r.flags EXCEPT !.CF = f.CF] /\ r.flags \in FlagRecord
    BY <2>1, <2>2 DEF Exact
  <2>4. /\ out.flags \in FlagRecord /\ out.flags.CF = f.CF /\ out.flags.OF = r.flags.OF
        /\ out.flags.ZF = r.flags.ZF /\ out.flags.SF = r.flags.SF
    BY <1>1, <2>3 DEF FlagRecord
  <2>5. Exact("dec", f, 1, dest, n, out)
    BY <2>1, <2>3, <2>4 DEF Exact
  <2>6. QED
    BY <2>5 DEF out
<1>7. QED
  BY <1>3, <1>4, <1>5, <1>6

(* In terms of the operands that the step leaves in last.                   *)
LEMMA StepExact ==
  ASSUME Byte = 8, NEW n \in Sizes, NEW op, NEW f, NEW src, NEW dest, NEW out,
         op \in {"add", "adc", "sub", "sbb", "cmp", "inc", "dec"},
         Run(op, f, src, dest, n, out), Exact(op, f, src, dest, n, out)
  PROVE  SumsAreExact'
<1>1. /\ last'.op = op /\ last'.f = f /\ last'.src = src /\ last'.dest = dest
      /\ last'.n = n /\ last'.out = out
  BY DEF Run
<1> DEFINE plus == op \in {"add", "adc", "inc"}
           carry == IF op \in {"adc", "sbb"} THEN f.CF ELSE 0
           u == IF plus THEN (Low(dest, n) + Low(src, n)) + carry
                        ELSE (Low(dest, n) - Low(src, n)) - carry
           s == IF plus THEN (AsInt(dest, n) + AsInt(src, n)) + carry
                        ELSE (AsInt(dest, n) - AsInt(src, n)) - carry
<1>2. /\ u \in Int /\ s \in Int /\ out.val = Low(u, n)
      /\ out.flags.CF = (IF op \in {"inc", "dec"} THEN f.CF ELSE Flag(u < 0 \/ u >= 2^n))
      /\ out.flags.OF = Flag(s < -(2^(n - 1)) \/ s >= 2^(n - 1))
      /\ out.flags.ZF = Flag(Low(u, n) = 0)
      /\ out.flags.SF = Flag(Low(u, n) >= 2^(n - 1))
  BY DEF Exact
<1>3. \A x : Low(x, n) = x % 2^n /\ AsInteger(x, n) = AsInt(x, n)
  BY DEF Low, AsInt, AsInteger
<1>4. /\ Did({"add", "adc", "inc"})' <=> plus
      /\ Did({"inc", "dec"})' <=> op \in {"inc", "dec"}
      /\ Did({"adc", "sbb"})' <=> op \in {"adc", "sbb"}
      /\ Carry' = carry /\ N' = n /\ In' = f /\ Out' = out
  BY <1>1 DEF Did, Carry, In, N, Out
<1>5. /\ u \notin 0 .. 2^n - 1 <=> u < 0 \/ u >= 2^n
      /\ s \notin -(2^(n - 1)) .. 2^(n - 1) - 1 <=> s < -(2^(n - 1)) \/ s >= 2^(n - 1)
  <2> DEFINE M == 2^n
             H == 2^(n - 1)
  <2>1. M \in Int /\ H \in Int
    BY Widths
  <2> HIDE DEF M, H, u, s
  <2>2. /\ u \notin 0 .. M - 1 <=> u < 0 \/ u >= M
        /\ s \notin -H .. H - 1 <=> s < -H \/ s >= H
    BY <1>2, <2>1, SMT
  <2>3. QED
    BY <2>2 DEF M, H
<1>6. AsInt(u, n) < 0 <=> Low(u, n) >= 2^(n - 1)
  <2> DEFINE M == 2^n
             H == 2^(n - 1)
             l == Low(u, n)
  <2> HIDE DEF u
  <2>1. M \in Int /\ H \in Int /\ l \in Int /\ l >= 0 /\ l < M
    BY <1>2, LowIs, Widths
  <2>2. AsInt(u, n) = IF l < H THEN l ELSE l - M
    BY <1>2, AsIntIs
  <2> HIDE DEF M, H, l
  <2>3. AsInt(u, n) < 0 <=> l >= H
    BY <2>1, <2>2, SMT
  <2>4. QED
    BY <2>3 DEF l, H
<1> DEFINE uu == IF plus THEN ((last'.dest % 2^n) + (last'.src % 2^n)) + carry
                         ELSE ((last'.dest % 2^n) - (last'.src % 2^n)) - carry
           ss == IF plus THEN (AsInteger(last'.dest, n) + AsInteger(last'.src, n)) + carry
                         ELSE (AsInteger(last'.dest, n) - AsInteger(last'.src, n)) - carry
<1>7. uu = u /\ ss = s
  <2>1. /\ last'.dest % 2^n = Low(dest, n) /\ last'.src % 2^n = Low(src, n)
        /\ AsInteger(last'.dest, n) = AsInt(dest, n) /\ AsInteger(last'.src, n) = AsInt(src, n)
    BY <1>1, <1>3
  <2>2. QED
    BY <2>1
<1> HIDE DEF u, s, plus, carry
<1>8. /\ out.val = uu % 2^n
      /\ out.flags.CF = (IF op \in {"inc", "dec"} THEN f.CF ELSE Flag(uu \notin 0 .. 2^n - 1))
      /\ out.flags.OF = Flag(ss \notin -(2^(n - 1)) .. 2^(n - 1) - 1)
      /\ out.flags.ZF = Flag(uu % 2^n = 0)
      /\ out.flags.SF = Flag(AsInteger(uu, n) < 0)
  <2> HIDE DEF uu, ss
  <2>1. out.val = uu % 2^n /\ out.flags.ZF = Flag(uu % 2^n = 0)
    BY <1>2, <1>3, <1>7
  <2>2. /\ out.flags.CF = (IF op \in {"inc", "dec"} THEN f.CF ELSE Flag(uu \notin 0 .. 2^n - 1))
        /\ out.flags.OF = Flag(ss \notin -(2^(n - 1)) .. 2^(n - 1) - 1)
    BY <1>2, <1>5, <1>7 DEF Flag
  <2>3. out.flags.SF = Flag(AsInteger(uu, n) < 0)
    BY <1>2, <1>3, <1>6, <1>7 DEF Flag
  <2>4. QED
    BY <2>1, <2>2, <2>3
<1>9. ASSUME NEW x PROVE U(x)' = (x' % 2^n) /\ S(x)' = AsInteger(x', n)
  BY <1>4 DEF U, S
<1> HIDE DEF uu, ss
<1>10. QED
  BY <1>1, <1>4, <1>8 DEF SumsAreExact, U, S, uu, ss

(* The flags of a comparison fit the conditions: the borrow is the order   *)
(* of the natural numbers, and the sign differs from the overflow exactly  *)
(* when the integers are in order, although their difference may not fit.  *)
LEMMA ConditionsFit ==
  ASSUME Byte = 8, NEW n \in Sizes, NEW f, NEW src \in Int, NEW dest \in Int, NEW out,
         Exact("cmp", f, src, dest, n, out)
  PROVE  /\ out.flags.ZF = Flag(Low(dest, n) = Low(src, n))
         /\ out.flags.ZF = Flag(AsInt(dest, n) = AsInt(src, n))
         /\ out.flags.CF = Flag(Low(dest, n) < Low(src, n))
         /\ (out.flags.SF = out.flags.OF) <=> ~(AsInt(dest, n) < AsInt(src, n))
<1> DEFINE M == 2^n
           H == 2^(n - 1)
           ls == Low(src, n)
           ld == Low(dest, n)
           isrc == AsInt(src, n)
           idest == AsInt(dest, n)
           u == ld - ls
           s == idest - isrc
           lu == Low(u, n)
<1>1. /\ M \in Int /\ H \in Int /\ M = H + H /\ ls \in Int /\ ls >= 0 /\ ls < M
      /\ ld \in Int /\ ld >= 0 /\ ld < M
  BY LowIs, Widths
<1>2. /\ isrc = (IF ls < H THEN ls ELSE ls - M) /\ idest = (IF ld < H THEN ld ELSE ld - M)
  BY AsIntIs
<1>3. lu = IF u < 0 THEN u + M ELSE u
  <2>1. u \in Int /\ u < M /\ u >= -M
    BY <1>1
  <2>2. \A r \in Int, k \in Int : r >= 0 /\ r < M /\ u = (M * k) + r => lu = r
    BY LowUnique, <2>1
  <2> HIDE DEF lu, M, u
  <2>3. CASE u < 0
    <3>1. u + M \in Int /\ u + M >= 0 /\ u + M < M /\ u = (M * (-1)) + (u + M)
      BY <1>1, <2>1, <2>3, SMT
    <3>2. QED
      BY <2>2, <2>3, <3>1
  <2>4. CASE ~(u < 0)
    <3>1. u = (M * 0) + u
      BY <1>1, <2>1, SMT
    <3>2. QED
      BY <2>1, <2>2, <2>4, <3>1
  <2>5. QED
    BY <2>3, <2>4
<1>4. /\ out.flags.CF = Flag(u - 0 < 0 \/ u - 0 >= M)
      /\ out.flags.OF = Flag(s - 0 < -H \/ s - 0 >= H)
      /\ out.flags.ZF = Flag(Low(u - 0, n) = 0)
      /\ out.flags.SF = Flag(Low(u - 0, n) >= H)
  BY DEF Exact
<1>5. u - 0 = u /\ s - 0 = s
  <2> HIDE DEF ls, ld, H, M
  <2>1. u \in Int /\ s \in Int
    BY <1>1, <1>2
  <2>2. QED
    BY <2>1
<1> HIDE DEF M, H, ls, ld, isrc, idest, lu
<1>6. /\ lu = 0 <=> ld = ls
      /\ lu = 0 <=> idest = isrc
      /\ (u < 0 \/ u >= M) <=> ld < ls
      /\ (lu >= H <=> (s < -H \/ s >= H)) <=> ~(idest < isrc)
  BY <1>1, <1>2, <1>3, SMT
<1>7. out.flags.ZF = Flag(lu = 0) /\ out.flags.SF = Flag(lu >= H)
  BY <1>4, <1>5 DEF lu
<1>8. out.flags.CF = Flag(u < 0 \/ u >= M) /\ out.flags.OF = Flag(s < -H \/ s >= H)
  BY <1>4, <1>5
<1> HIDE DEF u, s
<1>9. /\ out.flags.ZF = Flag(ld = ls) /\ out.flags.ZF = Flag(idest = isrc)
      /\ out.flags.CF = Flag(ld < ls)
      /\ (out.flags.SF = out.flags.OF) <=> ~(idest < isrc)
  <2>1. out.flags.ZF = Flag(ld = ls) /\ out.flags.ZF = Flag(idest = isrc)
    BY <1>6, <1>7 DEF Flag
  <2>2. out.flags.CF = Flag(ld < ls)
    BY <1>6, <1>8 DEF Flag
  <2>3. (out.flags.SF = out.flags.OF) <=> (lu >= H <=> (s < -H \/ s >= H))
    BY <1>7, <1>8 DEF Flag
  <2>4. QED
    BY <1>6, <2>1, <2>2, <2>3
<1>10. QED
  BY <1>9 DEF ls, ld, isrc, idest

(* Each condition of instr_helper.h after a comparison.                     *)
LEMMA ConditionsCompare ==
  ASSUME Byte = 8, NEW n \in Sizes, NEW f, NEW src \in Int, NEW dest \in Int, NEW out,
         Exact("cmp", f, src, dest, n, out)
  PROVE  /\ condition("e", out.flags) <=> Low(dest, n) = Low(src, n)
         /\ condition("ne", out.flags) <=> Low(dest, n) # Low(src, n)
         /\ condition("b", out.flags) <=> Low(dest, n) < Low(src, n)
         /\ condition("be", out.flags) <=> Low(dest, n) <= Low(src, n)
         /\ condition("a", out.flags) <=> Low(dest, n) > Low(src, n)
         /\ condition("ae", out.flags) <=> Low(dest, n) >= Low(src, n)
         /\ condition("l", out.flags) <=> AsInt(dest, n) < AsInt(src, n)
         /\ condition("le", out.flags) <=> AsInt(dest, n) <= AsInt(src, n)
         /\ condition("g", out.flags) <=> AsInt(dest, n) > AsInt(src, n)
         /\ condition("ge", out.flags) <=> AsInt(dest, n) >= AsInt(src, n)
<1> DEFINE ls == Low(src, n)
           ld == Low(dest, n)
           isrc == AsInt(src, n)
           idest == AsInt(dest, n)
           g == out.flags
<1>1. /\ g.ZF = Flag(ld = ls) /\ g.ZF = Flag(idest = isrc) /\ g.CF = Flag(ld < ls)
      /\ (g.SF = g.OF) <=> ~(idest < isrc)
  BY ConditionsFit
<1>2. ls \in Int /\ ld \in Int /\ isrc \in Int /\ idest \in Int
  BY LowIs, AsIntIs
<1> HIDE DEF ls, ld, isrc, idest, g
<1>3. /\ g.ZF = 1 <=> ld = ls
      /\ g.ZF = 0 <=> ~(ld = ls)
      /\ g.ZF = 1 <=> idest = isrc
      /\ g.ZF = 0 <=> ~(idest = isrc)
      /\ g.CF = 1 <=> ld < ls
      /\ g.CF = 0 <=> ~(ld < ls)
  <2>1. g.ZF = 1 <=> ld = ls
    BY <1>1 DEF Flag
  <2>2. g.ZF = 0 <=> ~(ld = ls)
    BY <1>1 DEF Flag
  <2>. g.ZF = Flag(idest = isrc)
    BY <1>1
  <2>3. g.ZF = 1 <=> idest = isrc
    BY DEF Flag
  <2>4. g.ZF = 0 <=> ~(idest = isrc)
    BY DEF Flag
  <2>5. g.CF = 1 <=> ld < ls
    BY <1>1 DEF Flag
  <2>6. g.CF = 0 <=> ~(ld < ls)
    BY <1>1 DEF Flag
  <2>7. QED
    BY <2>1, <2>2, <2>3, <2>4, <2>5, <2>6
<1>4. /\ condition("e", g) <=> g.ZF = 1
      /\ condition("ne", g) <=> g.ZF = 0
      /\ condition("b", g) <=> g.CF = 1
      /\ condition("ae", g) <=> g.CF = 0
      /\ condition("a", g) <=> g.CF = 0 /\ g.ZF = 0
      /\ condition("be", g) <=> g.CF = 1 \/ g.ZF = 1
      /\ condition("l", g) <=> g.SF # g.OF
      /\ condition("ge", g) <=> g.SF = g.OF
      /\ condition("g", g) <=> g.ZF = 0 /\ g.SF = g.OF
      /\ condition("le", g) <=> g.ZF = 1 \/ g.SF # g.OF
  BY DEF condition
<1>5. /\ condition("e", g) <=> ld = ls
      /\ condition("ne", g) <=> ld # ls
      /\ condition("b", g) <=> ld < ls
      /\ condition("be", g) <=> ld <= ls
      /\ condition("a", g) <=> ld > ls
      /\ condition("ae", g) <=> ld >= ls
  BY <1>2, <1>3, <1>4
<1>6. /\ condition("l", g) <=> idest < isrc
      /\ condition("le", g) <=> idest <= isrc
      /\ condition("g", g) <=> idest > isrc
      /\ condition("ge", g) <=> idest >= isrc
  <2>1. condition("l", g) <=> idest < isrc
    BY <1>1, <1>4
  <2>2. condition("ge", g) <=> ~(idest < isrc)
    BY <1>1, <1>4
  <2>3. condition("g", g) <=> ~(idest = isrc) /\ ~(idest < isrc)
    BY <1>1, <1>3, <1>4
  <2>4. condition("le", g) <=> idest = isrc \/ idest < isrc
    BY <1>1, <1>3, <1>4
  <2>5. /\ idest <= isrc <=> idest = isrc \/ idest < isrc
        /\ idest > isrc <=> ~(idest = isrc) /\ ~(idest < isrc)
        /\ idest >= isrc <=> ~(idest < isrc)
    BY <1>2, SMT
  <2>6. QED
    BY <2>1, <2>2, <2>3, <2>4, <2>5
<1>7. QED
  BY <1>5, <1>6 DEF ls, ld, isrc, idest, g

(* The same of the operands that cmp leaves in last.                        *)
LEMMA StepCompares ==
  ASSUME Byte = 8, NEW n \in Sizes, NEW f, NEW src \in Int, NEW dest \in Int, NEW out,
         Run("cmp", f, src, dest, n, out), Exact("cmp", f, src, dest, n, out)
  PROVE  JumpsCompare'
<1>1. last'.src = src /\ last'.dest = dest /\ last'.n = n /\ last'.out = out
  BY DEF Run
<1>2. \A x : Low(x, n) = x % 2^n /\ AsInteger(x, n) = AsInt(x, n)
  BY DEF Low, AsInt, AsInteger
<1>3. Out' = out /\ N' = n
  BY <1>1 DEF Out, N
<1>4. /\ U(last.src)' = Low(src, n) /\ U(last.dest)' = Low(dest, n)
      /\ S(last.src)' = AsInt(src, n) /\ S(last.dest)' = AsInt(dest, n)
  BY <1>1, <1>2, <1>3 DEF U, S
<1>5. QED
  BY <1>3, <1>4, ConditionsCompare DEF JumpsCompare

(* JumpsCompare is about cmp only.                                          *)
LEMMA NotCompared ==
  ASSUME NEW op, op # "cmp", NEW f, NEW src, NEW dest, NEW n, NEW out,
         Run(op, f, src, dest, n, out)
  PROVE  JumpsCompare'
<1>1. last'.op = op
  BY DEF Run
<1>2. QED
  BY <1>1 DEF JumpsCompare, Did

(* SumsAreExact is about additions and subtractions only.                   *)
LEMMA NoSum ==
  ASSUME NEW op, op \notin {"add", "adc", "sub", "sbb", "cmp", "inc", "dec"},
         NEW f, NEW src, NEW dest, NEW n, NEW out, Run(op, f, src, dest, n, out)
  PROVE  SumsAreExact' /\ JumpsCompare'
<1>1. last'.op = op
  BY DEF Run
<1>2. QED
  BY <1>1 DEF SumsAreExact, JumpsCompare, Did

(* Every addition and subtraction that runs.                               *)
LEMMA AddSubIsExact ==
  ASSUME Byte = 8, AddSub
  PROVE  SumsAreExact' /\ JumpsCompare'
<1>1. PICK f \in Flags, src \in Values, dest \in Values, n \in Sizes :
        \/ Run("add", f, src, dest, n, alu_add(f, src, dest, n))
        \/ Run("adc", f, src, dest, n, alu_adc(f, src, dest, n))
        \/ Run("sub", f, src, dest, n, alu_sub(f, src, dest, n))
        \/ Run("sbb", f, src, dest, n, alu_sbb(f, src, dest, n))
        \/ Run("cmp", f, src, dest, n, cmp_2op(f, src, dest, n))
  BY DEF AddSub
<1>2. f \in FlagRecord /\ src \in Int /\ dest \in Int
  BY OperandsAre
<1>3. CASE Run("add", f, src, dest, n, alu_add(f, src, dest, n))
  BY <1>2, <1>3, SumsOfAlu, StepExact, NotCompared
<1>4. CASE Run("adc", f, src, dest, n, alu_adc(f, src, dest, n))
  BY <1>2, <1>4, SumsOfAlu, StepExact, NotCompared
<1>5. CASE Run("sub", f, src, dest, n, alu_sub(f, src, dest, n))
  BY <1>2, <1>5, DifferencesOfAlu, StepExact, NotCompared
<1>6. CASE Run("sbb", f, src, dest, n, alu_sbb(f, src, dest, n))
  BY <1>2, <1>6, DifferencesOfAlu, StepExact, NotCompared
<1>7. CASE Run("cmp", f, src, dest, n, cmp_2op(f, src, dest, n))
  BY <1>2, <1>7, DifferencesOfAlu, StepExact, StepCompares
<1>8. QED
  BY <1>1, <1>3, <1>4, <1>5, <1>6, <1>7

(* Every increment and decrement that runs.                                 *)
LEMMA OneOperandIsExact ==
  ASSUME Byte = 8, OneOperand
  PROVE  SumsAreExact' /\ JumpsCompare'
<1>1. PICK f \in Flags, x \in Values, n \in Sizes :
        \/ Run("inc", f, 1, x, n, inc_rm(f, x, n))
        \/ Run("dec", f, 1, x, n, dec_rm(f, x, n))
        \/ Run("neg", f, x, 0, n, neg_rm(f, x, n))
        \/ Run("not", f, x, 0, n, not_rm(f, x, n))
  BY DEF OneOperand
<1>2. f \in FlagRecord /\ x \in Int /\ 1 \in Int
  BY OperandsAre
<1>3. CASE Run("inc", f, 1, x, n, inc_rm(f, x, n))
  BY <1>2, <1>3, SumsOfAlu, StepExact, NotCompared
<1>4. CASE Run("dec", f, 1, x, n, dec_rm(f, x, n))
  BY <1>2, <1>4, DifferencesOfAlu, StepExact, NotCompared
<1>5. CASE Run("neg", f, x, 0, n, neg_rm(f, x, n))
  BY <1>5, NoSum
<1>6. CASE Run("not", f, x, 0, n, not_rm(f, x, n))
  BY <1>6, NoSum
<1>7. QED
  BY <1>1, <1>3, <1>4, <1>5, <1>6

(* No other instruction adds, subtracts or compares.                       *)
LEMMA OthersAreNoSums ==
  ASSUME Logic \/ Shift \/ Multiply \/ Convert \/ Divide \/ MemoryOperand \/ RegisterWrite
  PROVE  SumsAreExact' /\ JumpsCompare'
<1>1. CASE Logic
  BY <1>1, NoSum DEF Logic
<1>2. CASE Shift
  BY <1>2, NoSum DEF Shift
<1>3. CASE Multiply
  BY <1>3, NoSum DEF Multiply
<1>4. CASE Convert
  BY <1>4, NoSum DEF Convert
<1>5. CASE Divide
  BY <1>5, NoSum DEF Divide
<1>6. CASE MemoryOperand
  BY <1>6, NoSum DEF MemoryOperand
<1>7. CASE RegisterWrite
  BY <1>7, NoSum DEF RegisterWrite
<1>8. QED
  BY <1>1, <1>2, <1>3, <1>4, <1>5, <1>6, <1>7

(* The invariant of both theorems: it is inductive, as a step replaces last.*)
LEMMA SumsStay ==
  ASSUME Byte = 8
  PROVE  IntegerSpec => [](SumsAreExact /\ JumpsCompare)
<1>1. last = Nothing => SumsAreExact /\ JumpsCompare
  BY DEF Nothing, SumsAreExact, JumpsCompare, Did
<1>2. IntegerStep => SumsAreExact' /\ JumpsCompare'
  BY AddSubIsExact, OneOperandIsExact, OthersAreNoSums DEF IntegerStep
<1>3. SumsAreExact /\ JumpsCompare /\ last' = last => SumsAreExact' /\ JumpsCompare'
  BY DEF SumsAreExact, JumpsCompare, Did, In, Out, N, U, S, Carry
<1>4. (SumsAreExact /\ JumpsCompare) /\ [IntegerStep]_last => (SumsAreExact /\ JumpsCompare)'
  BY <1>2, <1>3
<1>5. QED
  BY <1>1, <1>4, PTL DEF IntegerSpec

(* The ALU of the code, whose words have 32 bits: whatever the operands,   *)
(* the operand size and the flags before, the result of an addition, a     *)
(* subtraction, a comparison, an increment or a decrement and its CF, OF,  *)
(* ZF and SF are those of the integers and of the natural numbers.         *)
THEOREM SumsAreRight ==
  ASSUME Byte = 8
  PROVE  IntegerSpec => []SumsAreExact
BY SumsStay, PTL

(* After cmp every condition of instr_helper.h decides as the operands     *)
(* compare: b, be, a and ae as natural numbers, l, le, g and ge as         *)
(* integers, in each operand size, for any two words of 32 bits.           *)
THEOREM JumpsAreRight ==
  ASSUME Byte = 8
  PROVE  IntegerSpec => []JumpsCompare
BY SumsStay, PTL
-----------------------------------------------------------------------------
(* A displacement comes back from its bytes.                               *)
LEMMA DisplacementsComeBack ==
  ASSUME Byte = 8, NEW d \in Int, d >= 0, d < Word
  PROVE  /\ d % Word = d
         /\ sign_ext(Low(d, Host), Host) = d
         /\ d = sign_ext(d, Byte) => sign_ext(Low(d, Byte), Byte) = d
<1>1. Byte \in Sizes /\ Host \in Sizes /\ Word = 2^Host
  BY DEF Sizes, Word
<1>2. Low(d, Host) = d /\ d % Word = d
  <2>1. d = (2^Host * 0) + d /\ d < 2^Host
    BY <1>1, Widths, SMT
  <2>2. Low(d, Host) = d
    <3> DEFINE M == 2^Host
    <3>1. M \in Int /\ 0 \in Int /\ d < M /\ d = (M * 0) + d
      BY <1>1, <2>1, Widths
    <3> HIDE DEF M
    <3>2. \A k \in Int : d < M /\ d = (M * k) + d => Low(d, Host) = d
      BY <1>1, LowUnique DEF M
    <3>3. QED
      BY <3>1, <3>2
  <2>3. QED
    BY <1>1, <2>2 DEF Low
<1>3. sign_ext(d, Host) = d
  <2> DEFINE M == 2^Host
             e == sign_ext(d, Host)
             H == 2^(Host - 1)
  <2>1. e = IF d < H THEN d ELSE (d - M) + Word
    BY <1>1, <1>2, ExtIs
  <2>2. M \in Int /\ Word = M
    BY <1>1, Widths
  <2> HIDE DEF M, e, H
  <2>3. e = d
    BY <2>1, <2>2, SMT
  <2>4. QED
    BY <2>3 DEF e
<1>4. ASSUME d = sign_ext(d, Byte) PROVE sign_ext(Low(d, Byte), Byte) = d
  <2>1. Low(Low(d, Byte), Byte) = Low(d, Byte)
    <3> DEFINE l == Low(d, Byte)
    <3>1. l \in Int /\ l >= 0 /\ l < 2^Byte
      BY <1>1, LowIs
    <3> HIDE DEF l
    <3>2. l = (2^Byte * 0) + l
      BY <1>1, <3>1, Widths, SMT
    <3>3. Low(l, Byte) = l
      <4> DEFINE M == 2^Byte
      <4>1. M \in Int /\ 0 \in Int /\ l < M /\ l = (M * 0) + l
        BY <1>1, <3>1, <3>2, Widths
      <4> HIDE DEF M
      <4>2. \A k \in Int : l < M /\ l = (M * k) + l => Low(l, Byte) = l
        BY <1>1, <3>1, LowUnique DEF M
      <4>3. QED
        BY <4>1, <4>2
    <3>4. QED
      BY <3>3 DEF l
  <2>2. sign_ext(Low(d, Byte), Byte) = sign_ext(d, Byte)
    BY <2>1 DEF sign_ext
  <2>3. QED
    BY <1>4, <2>2
<1>5. QED
  BY <1>2, <1>3, <1>4

(* What a way to write an operand is made of.                              *)
LEMMA OperandHas ==
  ASSUME Byte = 8, NEW o \in MemoryOperands
  PROVE  /\ o.mod \in {0, 1, 2} /\ o.ss \in {0, 1, 2, 3}
         /\ o.disp \in Int /\ o.disp >= 0 /\ o.disp < Word
         /\ o.base = None \/ o.base \in Registers
         /\ o.index = None \/ (o.index \in Registers /\ o.index # 4)
         /\ o.index = None => o.ss = 0
         /\ o.base = None => o.mod = 0
         /\ o.mod = 0 /\ o.base # None => o.disp = 0 /\ o.base # 5
         /\ o.mod = 1 => o.disp = sign_ext(o.disp, Byte)
<1>1. /\ o.mod \in 0 .. 2 /\ o.ss \in 0 .. 3
      /\ o.disp \in {0, 1, 2^(Byte - 1), Word \div 2, Word - 1}
      /\ o.base \in Registers \cup {None} /\ o.index \in (Registers \ {REG_ESP}) \cup {None}
      /\ o.index = None => o.ss = 0
      /\ o.base = None => o.mod = 0
      /\ o.mod = 0 /\ o.base # None => o.disp = 0 /\ o.base # REG_EBP
      /\ o.mod = 1 => o.disp = sign_ext(o.disp, Byte)
  BY DEF MemoryOperands
<1>2. o.disp \in Int /\ o.disp >= 0 /\ o.disp < Word
  <2>1. Host = 32 /\ Byte - 1 = 7
    BY SMT DEF Host
  <2>2. Word = 4294967296 /\ 2^(Byte - 1) = 128
    BY <2>1, Powers DEF Word
  <2>3. Word \div 2 = 2147483648
    BY <2>2, SMT
  <2>4. o.disp \in {0, 1, 128, 2147483648, Word - 1}
    BY <1>1, <2>2, <2>3
  <2>5. QED
    BY <2>2, <2>4, SMT
<1>3. o.mod \in {0, 1, 2}
  BY <1>1
<1>4. o.ss \in {0, 1, 2, 3}
  BY <1>1
<1>5. QED
  BY <1>1, <1>2, <1>3, <1>4 DEF REG_ESP, REG_EBP

(* What the provers find only when it stands alone.                         *)
LEMMA SecondOfThree ==
  ASSUME NEW a, NEW b, NEW c
  PROVE  ((<<a>> \o <<b>>) \o <<c>>)[2] = b
OBVIOUS

(* The bytes that an operand is encoded in.                                 *)
LEMMA CodeIs ==
  ASSUME Byte = 8, NEW o \in MemoryOperands
  PROVE  /\ Code(o)[1].mod = o.mod
         /\ Code(o)[1].rm = IF HasSib(o) THEN 4 ELSE IF o.base = None THEN 5 ELSE o.base
         /\ HasSib(o) => /\ Code(o)[2].ss = o.ss
                         /\ Code(o)[2].index = IF o.index = None THEN 4 ELSE o.index
                         /\ Code(o)[2].base = IF o.base = None THEN 5 ELSE o.base
         /\ DispBytes(o) # 0 =>
              Code(o)[IF HasSib(o) THEN 3 ELSE 2] = Low(o.disp, IF DispBytes(o) = 1 THEN Byte ELSE Host)
<1> DEFINE first == [mod |-> o.mod, rm |-> IF HasSib(o) THEN 4 ELSE IF o.base = None THEN 5 ELSE o.base]
           sib == [ss |-> o.ss, index |-> IF o.index = None THEN 4 ELSE o.index,
                   base |-> IF o.base = None THEN 5 ELSE o.base]
           disp == Low(o.disp, IF DispBytes(o) = 1 THEN Byte ELSE Host)
<1>1. Code(o) = <<first>> \o (IF HasSib(o) THEN <<sib>> ELSE <<>>)
                          \o (IF DispBytes(o) = 0 THEN <<>> ELSE <<disp>>)
  BY DEF Code
<1>2. /\ first.mod = o.mod /\ first.rm = IF HasSib(o) THEN 4 ELSE IF o.base = None THEN 5 ELSE o.base
      /\ sib.ss = o.ss /\ sib.index = (IF o.index = None THEN 4 ELSE o.index)
      /\ sib.base = IF o.base = None THEN 5 ELSE o.base
  OBVIOUS
<1> HIDE DEF first, sib, disp
<1>3. Code(o)[1] = first
  BY <1>1
<1>4. HasSib(o) => Code(o)[2] = sib
  <2>1. SUFFICES ASSUME HasSib(o) PROVE Code(o)[2] = sib
    OBVIOUS
  <2>2. CASE DispBytes(o) = 0
    BY <1>1, <2>1, <2>2
  <2>3. CASE DispBytes(o) # 0
    <3>1. Code(o) = (<<first>> \o <<sib>>) \o <<disp>>
      BY <1>1, <2>1, <2>3
    <3>2. ((<<first>> \o <<sib>>) \o <<disp>>)[2] = sib
      BY SecondOfThree
    <3>3. QED
      BY <3>1, <3>2
  <2>4. QED
    BY <2>2, <2>3
<1>5. DispBytes(o) # 0 => Code(o)[IF HasSib(o) THEN 3 ELSE 2] = disp
  <2>1. SUFFICES ASSUME DispBytes(o) # 0 PROVE Code(o)[IF HasSib(o) THEN 3 ELSE 2] = disp
    OBVIOUS
  <2>2. CASE HasSib(o)
    BY <1>1, <2>1, <2>2
  <2>3. CASE ~HasSib(o)
    BY <1>1, <2>1, <2>3
  <2>4. QED
    BY <2>2, <2>3
<1>6. QED
  BY <1>2, <1>3, <1>4, <1>5 DEF disp

(* Cutting an address to 32 bits twice is cutting it once.                  *)
LEMMA AddressWraps ==
  ASSUME Byte = 8, NEW x \in Int, NEW y \in Int
  PROVE  /\ Address(x) \in Int
         /\ Address(Address(x) + y) = Address(x + y)
<1> DEFINE q == x \div Word
           r == x % Word
           p == (r + y) \div Word
           t == (r + y) % Word
<1>1. Word \in Int /\ Word > 0
  <2>1. Host \in Sizes
    BY DEF Sizes
  <2>2. QED
    BY <2>1, Widths, SMT
<1>2. q \in Int /\ r \in Int /\ x = (Word * q) + r
  BY <1>1, ModIs
<1> HIDE DEF q, r
<1>3. p \in Int /\ t \in Int /\ t >= 0 /\ t < Word /\ r + y = (Word * p) + t
  BY <1>1, <1>2, ModIs
<1> HIDE DEF p, t
<1>4. (x + y) \in Int /\ (p + q) \in Int /\ x + y = (Word * (p + q)) + t
  BY <1>1, <1>2, <1>3, SMT
<1>5. (x + y) % Word = t
  BY <1>1, <1>3, <1>4, ModUnique
<1>6. QED
  BY <1>2, <1>5 DEF Address, t, r

(* The address, the length and the segment that an encoding decodes to.    *)
Decoded(o, out) ==
  LET base == IF o.base = None THEN 0 ELSE Gpr[o.base]
      index == IF o.index = None THEN 0 ELSE Gpr[o.index]
  IN /\ out.addr = ((base + (index * 2^o.ss)) + o.disp) % Word
     /\ out.len = (1 + Flag(HasSib(o))) + DispBytes(o)
     /\ o.base # None => out.sreg = IF o.base \in {4, 5} THEN "ss" ELSE "ds"

(* The addresses, sums of a base, a scaled index and a displacement.       *)
LEMMA PartsOfAddress ==
  ASSUME Byte = 8, NEW o \in MemoryOperands
  PROVE  LET base == IF o.base = None THEN 0 ELSE Gpr[o.base]
             index == IF o.index = None THEN 0 ELSE Gpr[o.index]
         IN /\ base \in Int /\ base >= 0 /\ base < Word
            /\ index * 2^o.ss \in Int
            /\ o.index = None => index * 2^o.ss = 0
<1>1. Word \in Int /\ Word > 0
  <2>1. Host \in Sizes
    BY DEF Sizes
  <2>2. QED
    BY <2>1, Widths, SMT
<1>2. \A r \in Registers : Gpr[r] \in Int /\ Gpr[r] >= 0 /\ Gpr[r] < Word
  BY <1>1, OperandAssumption
<1>3. 2^o.ss \in Int
  <2>1. o.ss \in {0, 1, 2, 3}
    BY OperandHas
  <2>2. 2^0 = 1 /\ 2^1 = 2 /\ 2^2 = 4 /\ 2^3 = 8
    BY SMT
  <2>3. QED
    BY <2>1, <2>2
<1>4. /\ o.base = None \/ o.base \in Registers
      /\ o.index = None \/ o.index \in Registers
  BY OperandHas
<1> DEFINE base == IF o.base = None THEN 0 ELSE Gpr[o.base]
           index == IF o.index = None THEN 0 ELSE Gpr[o.index]
           scale == 2^o.ss
<1>5. base \in Int /\ base >= 0 /\ base < Word /\ index \in Int /\ (o.index = None => index = 0)
  BY <1>1, <1>2, <1>4
<1> HIDE DEF base, index, scale
<1>6. scale \in Int
  BY <1>3 DEF scale
<1>7. index * scale \in Int /\ (o.index = None => index * scale = 0)
  BY <1>5, <1>6, SMT
<1>8. QED
  BY <1>5, <1>7 DEF base, index, scale

(* parse_sib finds base and scaled index, or the displacement for no base.  *)
LEMMA SibIs ==
  ASSUME Byte = 8, NEW o \in MemoryOperands, HasSib(o)
  PROVE  LET base == IF o.base = None THEN 0 ELSE Gpr[o.base]
             index == IF o.index = None THEN 0 ELSE Gpr[o.index]
             out == parse_sib(Code(o), 2, o.mod, Gpr)
         IN /\ o.base = None => out.addr = Address((base + (index * 2^o.ss)) + o.disp) /\ out.len = 5
            /\ o.base # None => /\ out.addr = Address(base + (index * 2^o.ss)) /\ out.len = 1
                                /\ out.sreg = IF o.base \in {4, 5} THEN "ss" ELSE "ds"
            /\ out = [addr |-> out.addr, sreg |-> out.sreg, len |-> out.len]
<1> DEFINE base == IF o.base = None THEN 0 ELSE Gpr[o.base]
           index == IF o.index = None THEN 0 ELSE Gpr[o.index]
           scale == 2^o.ss
           code == Code(o)
           sib == code[2]
           idx == IF sib.index = REG_ESP THEN 0 ELSE Gpr[sib.index] * 2^sib.ss
           sreg == IF sib.base \in {REG_ESP, REG_EBP} THEN "ss" ELSE "ds"
           out == parse_sib(code, 2, o.mod, Gpr)
<1>1. /\ sib.ss = o.ss /\ sib.index = (IF o.index = None THEN 4 ELSE o.index)
      /\ sib.base = (IF o.base = None THEN 5 ELSE o.base)
  BY CodeIs
<1>2. /\ o.index = None \/ (o.index \in Registers /\ o.index # 4)
      /\ o.base = None => o.mod = 0
      /\ o.mod = 0 /\ o.base # None => o.base # 5
      /\ o.disp \in Int /\ o.disp >= 0 /\ o.disp < Word
  BY OperandHas
<1>3. base \in Int /\ index * scale \in Int /\ (o.index = None => index * scale = 0)
  BY PartsOfAddress
<1>4. idx = index * scale
  <2>1. CASE o.index = None
    BY <1>1, <1>3, <2>1 DEF REG_ESP
  <2>2. CASE o.index # None
    BY <1>1, <1>2, <2>2 DEF REG_ESP
  <2>3. QED
    BY <2>1, <2>2
<1>5. out = IF o.mod = 0 /\ sib.base = 5
            THEN [addr |-> Address(idx + code[3]), sreg |-> sreg, len |-> 5]
            ELSE [addr |-> Address(Gpr[sib.base] + idx), sreg |-> sreg, len |-> 1]
  <2>1. 2 + 1 = 3
    OBVIOUS
  <2>2. QED
    BY <2>1 DEF parse_sib
<1> HIDE DEF out, idx, sreg, sib, code
<1>6. CASE o.base = None
  <2>1. code[3] = o.disp
    <3>1. DispBytes(o) = 4
      BY <1>6 DEF DispBytes
    <3>2. code[3] = Low(o.disp, Host)
      BY <3>1, CodeIs DEF code
    <3>3. Low(o.disp, Host) = o.disp
      BY <1>2, DisplacementsComeBack DEF Low, Word
    <3>4. QED
      BY <3>2, <3>3
  <2>2. out = [addr |-> Address(idx + o.disp), sreg |-> sreg, len |-> 5]
    BY <1>1, <1>2, <1>5, <1>6, <2>1
  <2>3. idx + o.disp = (base + (index * scale)) + o.disp
    <3> DEFINE i == index * scale
    <3> HIDE DEF i
    <3>1. base = 0
      BY <1>6
    <3>2. i \in Int /\ idx = i
      BY <1>3, <1>4 DEF i
    <3>3. idx + o.disp = (base + i) + o.disp
      BY <1>2, <3>1, <3>2
    <3>4. QED
      BY <3>3 DEF i
  <2>4. out.addr = Address((base + (index * scale)) + o.disp) /\ out.len = 5
    BY <2>2, <2>3
  <2>5. out = [addr |-> out.addr, sreg |-> out.sreg, len |-> out.len]
    BY <2>2
  <2>6. QED
    BY <1>6, <2>4, <2>5 DEF out, code
<1>7. CASE o.base # None
  <2>1. sib.base = o.base /\ ~(o.mod = 0 /\ sib.base = 5)
    BY <1>1, <1>2, <1>7
  <2>2. out = [addr |-> Address(Gpr[o.base] + idx), sreg |-> sreg, len |-> 1]
    BY <1>5, <2>1
  <2>3. sreg = IF o.base \in {4, 5} THEN "ss" ELSE "ds"
    BY <2>1 DEF sreg, REG_ESP, REG_EBP
  <2>4. out.addr = Address(base + (index * scale)) /\ out.len = 1 /\ out.sreg = sreg
    BY <1>4, <1>7, <2>2
  <2>5. out = [addr |-> out.addr, sreg |-> out.sreg, len |-> out.len]
    BY <2>2
  <2>6. QED
    BY <1>7, <2>3, <2>4, <2>5 DEF out, code
<1>8. QED
  BY <1>6, <1>7

(* Operands without a displacement, or with a displacement and no base.     *)
LEMMA PlainIs ==
  ASSUME Byte = 8, NEW o \in MemoryOperands, o.mod = 0
  PROVE  Decoded(o, modrm_rm(Code(o), Gpr))
<1> DEFINE base == IF o.base = None THEN 0 ELSE Gpr[o.base]
           index == IF o.index = None THEN 0 ELSE Gpr[o.index]
           i == index * 2^o.ss
           code == Code(o)
           opr == case_mod_00(code, code[1].rm, Gpr)
           out == modrm_rm(code, Gpr)
<1>1. code[1].mod = 0 /\ code[1].rm = IF HasSib(o) THEN 4 ELSE IF o.base = None THEN 5 ELSE o.base
  BY CodeIs
<1>2. out = [opr EXCEPT !.len = @ + 1]
  BY <1>1 DEF modrm_rm
<1>3. /\ o.disp \in Int /\ o.disp >= 0 /\ o.disp < Word
      /\ o.base # None => o.disp = 0 /\ o.base # 5
      /\ o.base = None \/ o.base \in Registers
  BY OperandHas
<1>4. base \in Int /\ base >= 0 /\ base < Word /\ i \in Int /\ (o.index = None => i = 0)
  BY PartsOfAddress
<1>5. DispBytes(o) = IF o.base = None THEN 4 ELSE 0
  BY DEF DispBytes
<1>6. ASSUME NEW x \in Int, x >= 0, x < Word PROVE x % Word = x
  BY <1>6, DisplacementsComeBack
<1>7. CASE HasSib(o)
  <2>1. opr = parse_sib(code, 2, o.mod, Gpr)
    BY <1>1, <1>7 DEF case_mod_00
  <2>2. /\ o.base = None => opr.addr = Address((base + i) + o.disp) /\ opr.len = 5
        /\ o.base # None => /\ opr.addr = Address(base + i) /\ opr.len = 1
                            /\ opr.sreg = IF o.base \in {4, 5} THEN "ss" ELSE "ds"
        /\ opr = [addr |-> opr.addr, sreg |-> opr.sreg, len |-> opr.len]
    BY <1>7, <2>1, SibIs
  <2> HIDE DEF base, i, opr, out
  <2>3. out.addr = opr.addr /\ out.sreg = opr.sreg /\ out.len = opr.len + 1
    BY <1>2, <2>2
  <2>4. out.addr = ((base + i) + o.disp) % Word
    <3>1. CASE o.base = None
      BY <2>2, <2>3, <3>1 DEF Address
    <3>2. CASE o.base # None
      <4>1. base + i = (base + i) + o.disp
        BY <1>3, <1>4, <3>2
      <4>2. QED
        BY <2>2, <2>3, <3>2, <4>1 DEF Address
    <3>3. QED
      BY <3>1, <3>2
  <2>5. out.len = (1 + Flag(HasSib(o))) + DispBytes(o)
    BY <1>5, <1>7, <2>2, <2>3 DEF Flag
  <2>6. QED
    BY <2>2, <2>3, <2>4, <2>5 DEF Decoded, base, i, out
<1>8. CASE ~HasSib(o)
  <2>1. o.index = None /\ o.base # 4 /\ i = 0
    BY <1>4, <1>8 DEF HasSib, REG_ESP
  <2>2. CASE o.base = None
    <3>1. opr = [addr |-> code[2], sreg |-> "ds", len |-> 4]
      BY <1>1, <1>8, <2>2 DEF case_mod_00
    <3>2. code[2] = o.disp
      <4>1. code[2] = Low(o.disp, Host)
        BY <1>5, <1>8, <2>2, CodeIs
      <4>2. QED
        BY <1>3, <4>1, DisplacementsComeBack DEF Low, Word
    <3> HIDE DEF opr, out
    <3>3. out.addr = o.disp /\ out.len = 4 + 1
      BY <1>2, <3>1, <3>2
    <3>4. base = 0
      BY <2>2
    <3> HIDE DEF base, i
    <3>5. (base + i) + o.disp = o.disp
      BY <1>3, <2>1, <3>4
    <3>6. out.addr = ((base + i) + o.disp) % Word
      BY <1>3, <1>6, <3>3, <3>5
    <3>7. out.len = (1 + Flag(HasSib(o))) + DispBytes(o)
      BY <1>5, <1>8, <2>2, <3>3 DEF Flag
    <3>8. QED
      BY <2>2, <3>6, <3>7 DEF Decoded, base, i, out
  <2>3. CASE o.base # None
    <3>1. code[1].rm = o.base /\ o.base # 5
      BY <1>1, <1>3, <1>8, <2>3
    <3>2. opr = [addr |-> Gpr[o.base], sreg |-> "ds", len |-> 0]
      BY <2>1, <3>1 DEF case_mod_00
    <3> HIDE DEF opr, out
    <3>3. out.addr = base /\ out.len = 0 + 1 /\ out.sreg = "ds"
      BY <1>2, <2>3, <3>2
    <3> HIDE DEF base, i
    <3>4. (base + i) + o.disp = base
      BY <1>3, <1>4, <2>1, <2>3
    <3>5. out.addr = ((base + i) + o.disp) % Word
      BY <1>4, <1>6, <3>3, <3>4
    <3>6. out.len = (1 + Flag(HasSib(o))) + DispBytes(o)
      BY <1>5, <1>8, <2>3, <3>3 DEF Flag
    <3>7. out.sreg = IF o.base \in {4, 5} THEN "ss" ELSE "ds"
      BY <2>1, <3>1, <3>3
    <3>8. QED
      BY <3>5, <3>6, <3>7 DEF Decoded, base, i, out
  <2>4. QED
    BY <2>2, <2>3
<1>9. QED
  BY <1>7, <1>8

(* Operands with a displacement of one or four bytes behind base and index. *)
LEMMA DisplacedIs ==
  ASSUME Byte = 8, NEW o \in MemoryOperands, o.mod \in {1, 2}
  PROVE  Decoded(o, modrm_rm(Code(o), Gpr))
<1> DEFINE base == IF o.base = None THEN 0 ELSE Gpr[o.base]
           index == IF o.index = None THEN 0 ELSE Gpr[o.index]
           i == index * 2^o.ss
           code == Code(o)
           n == IF o.mod = 1 THEN Byte ELSE Host
           rm == code[1].rm
           opr == IF rm = 4 THEN parse_sib(code, 2, o.mod, Gpr)
                  ELSE [addr |-> Gpr[rm], sreg |-> IF rm = REG_EBP THEN "ss" ELSE "ds", len |-> 0]
           disp == sign_ext(code[IF rm = 4 THEN 3 ELSE 2], n)
           out == modrm_rm(code, Gpr)
<1>1. code[1].mod = o.mod /\ rm = IF HasSib(o) THEN 4 ELSE IF o.base = None THEN 5 ELSE o.base
  BY CodeIs
<1>2. /\ o.disp \in Int /\ o.disp >= 0 /\ o.disp < Word
      /\ o.base # None /\ o.base \in Registers
      /\ o.mod = 1 => o.disp = sign_ext(o.disp, Byte)
  BY OperandHas
<1>3. base \in Int /\ base >= 0 /\ base < Word /\ i \in Int /\ (o.index = None => i = 0)
  BY PartsOfAddress
<1>4. DispBytes(o) = (IF o.mod = 1 THEN 1 ELSE 4) /\ DispBytes(o) = n \div Byte
  <2>1. DispBytes(o) = IF o.mod = 1 THEN 1 ELSE 4
    BY <1>2 DEF DispBytes
  <2>2. 8 \div 8 = 1 /\ 32 \div 8 = 4 /\ 4 * 8 = 32
    BY SMT
  <2>3. n \div Byte = IF o.mod = 1 THEN 1 ELSE 4
    BY <2>2 DEF Host
  <2>4. QED
    BY <2>1, <2>3
<1>5. rm = 4 <=> HasSib(o)
  <2>1. HasSib(o) \/ o.base # 4
    BY DEF HasSib, REG_ESP
  <2>2. QED
    BY <1>1, <1>2, <2>1
<1>6. disp = o.disp
  <2>1. code[IF rm = 4 THEN 3 ELSE 2] = Low(o.disp, n)
    <3>1. DispBytes(o) # 0 /\ (DispBytes(o) = 1 <=> o.mod = 1)
      BY <1>4
    <3>2. code[IF HasSib(o) THEN 3 ELSE 2] = Low(o.disp, IF DispBytes(o) = 1 THEN Byte ELSE Host)
      BY <3>1, CodeIs
    <3>3. QED
      BY <1>5, <3>1, <3>2
  <2>2. disp = sign_ext(Low(o.disp, n), n)
    BY <2>1
  <2>3. QED
    BY <1>2, <2>2, DisplacementsComeBack
<1>7. out = [opr EXCEPT !.addr = Address(@ + disp), !.len = (@ + n \div Byte) + 1]
  <2> DEFINE cased == case_mod_disp(code, o.mod, rm, Gpr, n)
  <2>1. out = [cased EXCEPT !.len = @ + 1]
    BY <1>1 DEF modrm_rm
  <2>2. cased = [opr EXCEPT !.addr = Address(@ + disp), !.len = @ + n \div Byte]
    BY DEF case_mod_disp
  <2>3. opr = [addr |-> opr.addr, sreg |-> opr.sreg, len |-> opr.len]
    BY <1>5, SibIs
  <2> HIDE DEF opr, disp, cased, out, n
  <2>4. QED
    BY <2>1, <2>2, <2>3
<1>8. /\ opr.addr = Address(base + i) /\ opr.len = Flag(HasSib(o))
      /\ opr.sreg = IF o.base \in {4, 5} THEN "ss" ELSE "ds"
      /\ opr = [addr |-> opr.addr, sreg |-> opr.sreg, len |-> opr.len]
  <2>1. CASE HasSib(o)
    <3>1. opr = parse_sib(code, 2, o.mod, Gpr)
      BY <1>5, <2>1
    <3>2. QED
      BY <1>2, <2>1, <3>1, SibIs DEF Flag
  <2>2. CASE ~HasSib(o)
    <3>1. rm = o.base /\ rm # 4 /\ o.index = None
      BY <1>1, <1>2, <1>5, <2>2 DEF HasSib
    <3>2. opr = [addr |-> Gpr[o.base], sreg |-> IF o.base = 5 THEN "ss" ELSE "ds", len |-> 0]
      BY <3>1 DEF REG_EBP
    <3>3. base = Gpr[o.base] /\ i = 0
      BY <1>2, <1>3, <3>1
    <3> HIDE DEF opr, base, i
    <3>4. base + i = base
      BY <1>3, <3>3
    <3>5. Address(base + i) = base
      BY <1>3, <3>4, DisplacementsComeBack DEF Address
    <3>6. opr.sreg = IF o.base \in {4, 5} THEN "ss" ELSE "ds"
      BY <3>1, <3>2
    <3>7. opr.addr = Address(base + i) /\ opr.len = Flag(HasSib(o))
      BY <2>2, <3>2, <3>3, <3>5 DEF Flag
    <3>8. QED
      BY <3>2, <3>6, <3>7
  <2>3. QED
    BY <2>1, <2>2
<1> HIDE DEF opr, disp, out, base, i, rm, code, n
<1>9. /\ out.addr = Address(opr.addr + disp) /\ out.len = (opr.len + n \div Byte) + 1
      /\ out.sreg = opr.sreg
  BY <1>7, <1>8
<1>10. out.addr = ((base + i) + o.disp) % Word
  <2> DEFINE x == base + i
  <2>1. x \in Int
    BY <1>3
  <2>2. out.addr = Address(Address(x) + o.disp)
    BY <1>6, <1>8, <1>9
  <2> HIDE DEF x
  <2>3. out.addr = Address(x + o.disp)
    BY <1>2, <2>1, <2>2, AddressWraps
  <2>4. QED
    BY <2>3 DEF x, Address
<1>11. out.len = (1 + Flag(HasSib(o))) + DispBytes(o)
  <2>1. Flag(HasSib(o)) \in Int /\ DispBytes(o) \in Int
    BY <1>4 DEF Flag
  <2>2. out.len = (Flag(HasSib(o)) + DispBytes(o)) + 1
    BY <1>4, <1>8, <1>9
  <2>3. QED
    BY <2>1, <2>2
<1>12. QED
  BY <1>8, <1>9, <1>10, <1>11 DEF Decoded, base, i, out, code

(* Every way to write a memory operand.                                    *)
LEMMA OperandsDecoded ==
  ASSUME Byte = 8, NEW o \in MemoryOperands
  PROVE  Decoded(o, modrm_rm(Code(o), Gpr))
<1>1. o.mod = 0 \/ o.mod \in {1, 2}
  BY OperandHas
<1>2. QED
  BY <1>1, PlainIs, DisplacedIs

(* The same of the step.                                                    *)
LEMMA OperandDecodes ==
  ASSUME Byte = 8, MemoryOperand
  PROVE  AddressesDecode'
<1>1. PICK o \in MemoryOperands : Run("modrm", {}, o, Gpr, 0, modrm_rm(Code(o), Gpr))
  BY DEF MemoryOperand
<1> DEFINE out == modrm_rm(Code(o), Gpr)
<1>2. Decoded(o, out)
  BY OperandsDecoded
<1>3. last'.src = o /\ last'.out = out
  BY <1>1 DEF Run
<1> HIDE DEF out
<1>4. QED
  BY <1>2, <1>3 DEF AddressesDecode, Decoded, Out, REG_ESP, REG_EBP
-----------------------------------------------------------------------------
(* The part of a register that an operand names: its register and its      *)
(* lowest bit.                                                             *)
PartReg(r, n) == IF n = Byte THEN r % 4 ELSE r
PartAt(r, n) == IF n = Byte THEN Byte * (r \div 4) ELSE 0

(* Register and lowest bit of a part.                                       *)
LEMMA PartIs ==
  ASSUME Byte = 8, NEW n \in Sizes, NEW r \in Registers
  PROVE  /\ PartReg(r, n) \in Registers /\ PartAt(r, n) \in {0, 8}
         /\ n # 8 => PartAt(r, n) = 0
         /\ 2^PartAt(r, n) \in Int /\ 2^PartAt(r, n) > 0
         /\ 2^PartAt(r, n) = IF PartAt(r, n) = 0 THEN 1 ELSE 256
         /\ Bits(r, n) = {<<PartReg(r, n), PartAt(r, n) + i>> : i \in 0 .. n - 1}
<1>1. r \in 0 .. 7
  BY DEF Registers
<1>2. r % 4 \in 0 .. 7 /\ (r \div 4 = 0 \/ r \div 4 = 1)
  BY <1>1, SMT
<1>3. PartReg(r, n) \in Registers
  BY <1>1, <1>2 DEF PartReg, Registers
<1>4. PartAt(r, n) \in {0, 8} /\ (n # 8 => PartAt(r, n) = 0)
  BY <1>2 DEF PartAt
<1>5. 2^0 = 1 /\ 2^8 = 256
  BY SMT
<1>6. 2^PartAt(r, n) = IF PartAt(r, n) = 0 THEN 1 ELSE 256
  BY <1>4, <1>5
<1>7. Bits(r, n) = {<<PartReg(r, n), PartAt(r, n) + i>> : i \in 0 .. n - 1}
  BY DEF Bits, PartReg, PartAt
<1>8. QED
  BY <1>3, <1>4, <1>6, <1>7

(* operand_read takes the part out.                                         *)
LEMMA ReadIs ==
  ASSUME Byte = 8, NEW n \in Sizes, NEW r \in Registers, NEW g, g[PartReg(r, n)] \in Int
  PROVE  operand_read(g, r, n) = Low(g[PartReg(r, n)] \div 2^PartAt(r, n), n)
<1>1. CASE n = Byte
  BY <1>1 DEF operand_read, PartReg, PartAt
<1>2. CASE n # Byte
  <2>1. PartReg(r, n) = r /\ PartAt(r, n) = 0 /\ 2^PartAt(r, n) = 1
    BY <1>2, PartIs DEF PartReg
  <2>2. g[r] \div 1 = g[r]
    BY <2>1, SMT
  <2>3. QED
    BY <1>2, <2>1, <2>2 DEF operand_read
<1>3. QED
  BY <1>1, <1>2

(* A write adds a multiple of the part's lowest bit: what is below stays,  *)
(* and what is above changes by that multiple.                             *)
LEMMA WriteIs ==
  ASSUME Byte = 8, NEW n \in Sizes, NEW r \in Registers, NEW val \in Int
  PROVE  LET reg == PartReg(r, n)
             A == 2^PartAt(r, n)
             out == operand_write(Gpr, r, n, val)
             diff == Low(val, n) - Low(Gpr[reg] \div A, n)
         IN /\ Gpr[reg] \in Int /\ Gpr[reg] \div A \in Int /\ diff \in Int
            /\ out[reg] \in Int /\ out[reg] \div A = Gpr[reg] \div A + diff
            /\ out[reg] % A = Gpr[reg] % A
            /\ \A q \in Registers : q # reg => out[q] = Gpr[q]
<1> DEFINE reg == PartReg(r, n)
           A == 2^PartAt(r, n)
           out == operand_write(Gpr, r, n, val)
           g == Gpr[reg]
           q == g \div A
           m == g % A
           diff == Low(val, n) - Low(q, n)
<1>1. reg \in Registers /\ A \in Int /\ A > 0
  BY PartIs
<1>2. \A x \in Registers : Gpr[x] \in Int
  <2>1. Host \in Sizes
    BY DEF Sizes
  <2>2. Word \in Int
    BY <2>1, Widths
  <2>3. QED
    BY <2>2, OperandAssumption
<1>3. out = [Gpr EXCEPT ![reg] = @ + (diff * A)]
  BY DEF operand_write, PartReg, PartAt
<1>4. Gpr \in [Registers -> 0 .. Word - 1]
  BY OperandAssumption
<1>5. out[reg] = g + (diff * A) /\ \A x \in Registers : x # reg => out[x] = Gpr[x]
  <2> HIDE DEF reg, A, out, diff
  <2>1. QED
    BY <1>1, <1>3, <1>4
<1>6. g \in Int
  BY <1>1, <1>2
<1> HIDE DEF A, out, g, reg
<1>7. q \in Int /\ m \in Int /\ m >= 0 /\ m < A /\ g = (A * q) + m
  BY <1>1, <1>6, ModIs
<1>8. diff \in Int
  <2>1. Low(val, n) \in Int /\ Low(q, n) \in Int
    BY <1>7, LowIs
  <2>2. QED
    BY <2>1
<1> HIDE DEF q, m, diff
<1>9. out[reg] \in Int /\ (q + diff) \in Int /\ out[reg] = (A * (q + diff)) + m
  BY <1>1, <1>5, <1>6, <1>7, <1>8, SMT
<1>10. out[reg] \div A = q + diff /\ out[reg] % A = m
  BY <1>1, <1>7, <1>9, ModUnique
<1>11. QED
  BY <1>5, <1>6, <1>7, <1>8, <1>9, <1>10 DEF reg, A, out, g, q, m, diff

(* A part reads back as it was written.                                     *)
LEMMA PartReadsBack ==
  ASSUME Byte = 8, NEW n \in Sizes, NEW r \in Registers, NEW val \in Int
  PROVE  operand_read(operand_write(Gpr, r, n, val), r, n) = Low(val, n)
<1> DEFINE reg == PartReg(r, n)
           A == 2^PartAt(r, n)
           out == operand_write(Gpr, r, n, val)
           q == Gpr[reg] \div A
           l == Low(val, n)
           old == Low(q, n)
           M == 2^n
           k == q \div M
<1>1. q \in Int /\ out[reg] \in Int /\ out[reg] \div A = q + (l - old)
  BY WriteIs
<1>2. M \in Int /\ l \in Int /\ l >= 0 /\ l < M /\ old \in Int
  BY <1>1, LowIs, Widths
<1>3. k \in Int /\ q = (M * k) + old
  BY <1>1, LowIs
<1>4. operand_read(out, r, n) = Low(out[reg] \div A, n)
  BY <1>1, ReadIs
<1> HIDE DEF reg, A, out, q, l, old, k
<1>5. q + (l - old) = (M * k) + l /\ q + (l - old) \in Int
  <2> HIDE DEF M
  <2>1. QED
    BY <1>1, <1>2, <1>3, SMT
<1>6. Low(q + (l - old), n) = l
  BY <1>2, <1>3, <1>5, LowUnique
<1>7. QED
  BY <1>1, <1>4, <1>6 DEF out, l

(* Two parts that share no bit are in different registers, or are the two  *)
(* bytes of one.                                                           *)
LEMMA PartsApart ==
  ASSUME Byte = 8, NEW n \in Sizes, NEW r \in Registers, NEW k \in Sizes, NEW x \in Registers,
         Bits(x, k) \cap Bits(r, n) = {}, PartReg(x, k) = PartReg(r, n)
  PROVE  n = 8 /\ k = 8 /\ PartAt(x, k) # PartAt(r, n)
<1> DEFINE reg == PartReg(r, n)
           a == PartAt(r, n)
           b == PartAt(x, k)
<1>1. /\ Bits(r, n) = {<<reg, a + i>> : i \in 0 .. n - 1}
      /\ Bits(x, k) = {<<reg, b + i>> : i \in 0 .. k - 1}
      /\ a \in {0, 8} /\ b \in {0, 8} /\ (n # 8 => a = 0) /\ (k # 8 => b = 0)
  BY PartIs
<1>2. n \in {8, 16, 32} /\ k \in {8, 16, 32}
  BY DEF Sizes, Host
<1> HIDE DEF reg, a, b
<1>3. ASSUME NEW i \in 0 .. n - 1, NEW j \in 0 .. k - 1 PROVE a + i # b + j
  <2>1. <<reg, a + i>> \in Bits(r, n) /\ <<reg, b + j>> \in Bits(x, k)
    BY <1>1
  <2>2. QED
    BY <2>1
<1>4. a # b
  <2>1. 0 \in 0 .. n - 1 /\ 0 \in 0 .. k - 1
    BY <1>2
  <2>2. a + 0 # b + 0
    BY <1>3, <2>1
  <2>3. QED
    BY <2>2
<1>5. n = 8
  <2>1. SUFFICES ASSUME n # 8 PROVE FALSE
    OBVIOUS
  <2>2. a = 0 /\ b = 8 /\ 8 \in 0 .. n - 1 /\ 0 \in 0 .. k - 1
    BY <1>1, <1>2, <1>4, <2>1
  <2>3. a + 8 # b + 0
    BY <1>3, <2>2
  <2>4. QED
    BY <2>2, <2>3
<1>6. k = 8
  <2>1. SUFFICES ASSUME k # 8 PROVE FALSE
    OBVIOUS
  <2>2. b = 0 /\ a = 8 /\ 8 \in 0 .. k - 1 /\ 0 \in 0 .. n - 1
    BY <1>1, <1>2, <1>4, <2>1
  <2>3. a + 0 # b + 8
    BY <1>3, <2>2
  <2>4. QED
    BY <2>2, <2>3
<1>7. QED
  BY <1>4, <1>5, <1>6 DEF a, b

(* A part that shares no bit with the written one reads as before.          *)
LEMMA OtherPartStays ==
  ASSUME Byte = 8, NEW n \in Sizes, NEW r \in Registers, NEW val \in Int,
         NEW k \in Sizes, NEW x \in Registers, Bits(x, k) \cap Bits(r, n) = {}
  PROVE  operand_read(operand_write(Gpr, r, n, val), x, k) = operand_read(Gpr, x, k)
<1> DEFINE reg == PartReg(r, n)
           A == 2^PartAt(r, n)
           B == 2^PartAt(x, k)
           out == operand_write(Gpr, r, n, val)
           g == Gpr[reg]
           h == out[reg]
           lv == Low(val, n)
           lg == Low(g \div A, n)
<1>1. /\ g \in Int /\ g \div A \in Int /\ h \in Int
      /\ h \div A = g \div A + (lv - lg) /\ h % A = g % A
      /\ \A y \in Registers : y # reg => out[y] = Gpr[y]
  BY WriteIs
<1>2. CASE PartReg(x, k) # reg
  <2>1. PartReg(x, k) \in Registers
    BY PartIs
  <2>2. out[PartReg(x, k)] = Gpr[PartReg(x, k)] /\ Gpr[PartReg(x, k)] \in Int
    <3>1. Gpr[PartReg(x, k)] \in Int
      BY WriteIs
    <3>2. QED
      BY <1>1, <1>2, <2>1, <3>1
  <2> HIDE DEF out
  <2>3. operand_read(out, x, k) = operand_read(Gpr, x, k)
    BY <2>2, ReadIs
  <2>4. QED
    BY <2>3 DEF out
<1>3. CASE PartReg(x, k) = reg
  <2>1. n = 8 /\ k = 8 /\ PartAt(x, k) # PartAt(r, n)
    BY <1>3, PartsApart
  <2>2. PartAt(r, n) \in {0, 8} /\ PartAt(x, k) \in {0, 8}
    BY PartIs
  <2>3. operand_read(out, x, k) = Low(h \div B, k) /\ operand_read(Gpr, x, k) = Low(g \div B, k)
    BY <1>1, <1>3, ReadIs
  <2>4. lv \in Int /\ lv >= 0 /\ lv < 256 /\ lg = (g \div A) % 256
    <3>1. 2^8 = 256
      BY Powers
    <3>2. QED
      BY <2>1, <3>1, LowIs DEF Low
  <2>5. A = (IF PartAt(r, n) = 0 THEN 1 ELSE 256) /\ B = (IF PartAt(x, k) = 0 THEN 1 ELSE 256)
    BY PartIs
  <2> HIDE DEF A, B, g, h, lv, lg, out, reg
  <2>6. CASE PartAt(r, n) = 0
    <3>1. A = 1 /\ B = 256
      BY <2>1, <2>2, <2>5, <2>6
    <3>2. h = g + (lv - (g % 256))
      <4>1. h \div 1 = h /\ g \div 1 = g
        BY <1>1, SMT
      <4>2. QED
        BY <1>1, <2>4, <3>1, <4>1
    <3>3. h \div 256 = g \div 256
      BY <1>1, <2>4, <3>2, SMT
    <3>4. QED
      BY <2>3, <3>1, <3>3 DEF out
  <2>7. CASE PartAt(r, n) # 0
    <3>1. A = 256 /\ B = 1
      BY <2>1, <2>2, <2>5, <2>7
    <3>2. h % 256 = g % 256
      BY <1>1, <3>1
    <3>3. h \div B = h /\ g \div B = g
      BY <1>1, <3>1, SMT
    <3>4. Low(h, k) = Low(g, k)
      BY <2>1, <3>2, Powers DEF Low
    <3>5. QED
      BY <2>3, <3>3, <3>4 DEF out
  <2>8. QED
    BY <2>6, <2>7
<1>4. QED
  BY <1>2, <1>3

(* The same of the step.                                                    *)
LEMMA WriteKeepsParts ==
  ASSUME Byte = 8, RegisterWrite
  PROVE  PartsAreApart'
<1>1. PICK r \in Registers, n \in Sizes, val \in Values :
        Run("write", r, val, Gpr, n, operand_write(Gpr, r, n, val))
  BY DEF RegisterWrite
<1>2. val \in Int
  BY OperandsAre
<1> DEFINE out == operand_write(Gpr, r, n, val)
<1>3. last'.f = r /\ last'.src = val /\ last'.n = n /\ last'.out = out
  BY <1>1 DEF Run
<1>4. ASSUME NEW x \in Registers, NEW k \in Sizes, Bits(x, k) \cap Bits(r, n) = {}
      PROVE  operand_read(out, x, k) = operand_read(Gpr, x, k)
  BY <1>2, <1>4, OtherPartStays
<1>5. operand_read(out, r, n) = Low(val, n)
  BY <1>2, PartReadsBack
<1> HIDE DEF out
<1>6. QED
  BY <1>3, <1>4, <1>5 DEF PartsAreApart, Out, N

(* OperandsDecode is about operands only.                                   *)
LEMMA NoOperand ==
  ASSUME NEW op, NEW f, NEW src, NEW dest, NEW n, NEW out, Run(op, f, src, dest, n, out)
  PROVE  /\ op # "modrm" => AddressesDecode'
         /\ op # "write" => PartsAreApart'
<1>1. last'.op = op
  BY DEF Run
<1>2. op # "modrm" => AddressesDecode'
  BY <1>1 DEF AddressesDecode, Did
<1>3. op # "write" => PartsAreApart'
  BY <1>1 DEF PartsAreApart, Did
<1>4. QED
  BY <1>2, <1>3

(* Every step of the integer unit.                                          *)
LEMMA StepDecodes ==
  ASSUME Byte = 8, IntegerStep
  PROVE  OperandsDecode'
<1>1. CASE AddSub
  BY <1>1, NoOperand DEF AddSub, OperandsDecode
<1>2. CASE OneOperand
  BY <1>2, NoOperand DEF OneOperand, OperandsDecode
<1>3. CASE Logic
  BY <1>3, NoOperand DEF Logic, OperandsDecode
<1>4. CASE Shift
  BY <1>4, NoOperand DEF Shift, OperandsDecode
<1>5. CASE Multiply
  BY <1>5, NoOperand DEF Multiply, OperandsDecode
<1>6. CASE Convert
  BY <1>6, NoOperand DEF Convert, OperandsDecode
<1>7. CASE Divide
  BY <1>7, NoOperand DEF Divide, OperandsDecode
<1>8. CASE MemoryOperand
  <2>1. AddressesDecode'
    BY <1>8, OperandDecodes
  <2>2. PartsAreApart'
    BY <1>8, NoOperand DEF MemoryOperand
  <2>3. QED
    BY <2>1, <2>2 DEF OperandsDecode
<1>9. CASE RegisterWrite
  <2>1. AddressesDecode'
    BY <1>9, NoOperand DEF RegisterWrite
  <2>2. PartsAreApart'
    BY <1>9, WriteKeepsParts
  <2>3. QED
    BY <2>1, <2>2 DEF OperandsDecode
<1>10. QED
  BY <1>1, <1>2, <1>3, <1>4, <1>5, <1>6, <1>7, <1>8, <1>9 DEF IntegerStep

(* Whatever the registers hold, a memory operand decodes to the sum of its *)
(* base, its scaled index and its displacement modulo 2^32, uses up the    *)
(* bytes it was encoded in, and takes the stack segment when its base is   *)
(* esp or ebp (modrm.c, sib.c); and a register operand of 8, 16 or 32 bits *)
(* reads back as it was written and leaves the parts that share no bit     *)
(* with it alone (the union of registers in reg.h).                        *)
THEOREM OperandsAreRight ==
  ASSUME Byte = 8
  PROVE  IntegerSpec => []OperandsDecode
<1>1. last = Nothing => OperandsDecode
  BY DEF Nothing, OperandsDecode, AddressesDecode, PartsAreApart, Did
<1>2. IntegerStep => OperandsDecode'
  BY StepDecodes
<1>3. OperandsDecode /\ last' = last => OperandsDecode'
  BY DEF OperandsDecode, AddressesDecode, PartsAreApart, Did, Out, N
<1>4. OperandsDecode /\ [IntegerStep]_last => OperandsDecode'
  BY <1>2, <1>3
<1>5. QED
  BY <1>1, <1>4, PTL DEF IntegerSpec
-----------------------------------------------------------------------------
(* Natural induction over a set: what holds of 0 and of the number after   *)
(* each, up to n, holds up to n.                                           *)
LEMMA Induction ==
  ASSUME NEW n \in Nat, NEW X, 0 \in X, \A k \in 0 .. n - 1 : k \in X => k + 1 \in X
  PROVE  \A k \in 0 .. n : k \in X
<1> DEFINE T == {k \in 0 .. n : k \notin X}
<1>1. SUFFICES ASSUME T # {} PROVE FALSE
  OBVIOUS
<1>2. \E x \in T : \A y \in T : ~(<<y, x>> \in OpToRel(<, Nat))
  <2>1. T \subseteq Nat
    OBVIOUS
  <2>2. QED
    BY <1>1, <2>1, WFMin, NatLessThanWellFounded
<1>3. PICK x \in T : \A y \in T : ~(<<y, x>> \in OpToRel(<, Nat))
  BY <1>2
<1>4. x \in 0 .. n /\ x \notin X /\ x # 0
  OBVIOUS
<1>5. x - 1 \in 0 .. n - 1 /\ (x - 1) + 1 = x
  BY <1>4
<1>6. x - 1 \in T
  BY <1>4, <1>5
<1>7. <<x - 1, x>> \in OpToRel(<, Nat)
  BY <1>4, <1>5 DEF OpToRel
<1>8. QED
  BY <1>3, <1>6, <1>7

(* The recursive function that PartialSums chooses exists, and so obeys    *)
(* its equation.                                                           *)
LEMMA SumsAre ==
  ASSUME NEW n \in Nat, NEW g, \A i \in 0 .. n - 1 : g[i] \in Int
  PROVE  LET sum == PartialSums(g, n)
         IN /\ sum[0] = 0
            /\ \A k \in 0 .. n - 1 : sum[k + 1] = sum[k] + g[k]
            /\ \A k \in 0 .. n : sum[k] \in Int
<1> DEFINE Eq(f, m) == f = [k \in 0 .. m |-> IF k = 0 THEN 0 ELSE f[k - 1] + g[k - 1]]
           X == {m \in 0 .. n : \E f : Eq(f, m)}
           sum == PartialSums(g, n)
<1>1. 0 \in X
  <2> DEFINE z == [k \in 0 .. 0 |-> 0]
  <2>1. \A k \in 0 .. 0 : z[k] = IF k = 0 THEN 0 ELSE z[k - 1] + g[k - 1]
    OBVIOUS
  <2>2. Eq(z, 0)
    BY <2>1
  <2> HIDE DEF z, Eq
  <2>3. \E f : Eq(f, 0)
    BY <2>2
  <2>4. 0 \in 0 .. n
    OBVIOUS
  <2>5. QED
    BY <2>3, <2>4
<1>2. ASSUME NEW m \in 0 .. n - 1, m \in X PROVE m + 1 \in X
  <2>1. PICK f : Eq(f, m)
    BY <1>2
  <2> DEFINE h == [k \in 0 .. m + 1 |-> IF k = m + 1 THEN f[m] + g[m] ELSE f[k]]
  <2>2. ASSUME NEW k \in 0 .. m + 1 PROVE h[k] = IF k = 0 THEN 0 ELSE h[k - 1] + g[k - 1]
    <3>1. CASE k = 0
      BY <2>1, <3>1
    <3>2. CASE k = m + 1
      <4>1. k - 1 = m /\ k # 0 /\ m \in 0 .. m + 1 /\ m # m + 1
        BY <3>2
      <4>2. QED
        BY <3>2, <4>1
    <3>3. CASE k # 0 /\ k # m + 1
      <4>1. k \in 0 .. m /\ k - 1 \in 0 .. m + 1 /\ k - 1 # m + 1
        BY <3>3
      <4>2. f[k] = f[k - 1] + g[k - 1]
        BY <2>1, <3>3, <4>1
      <4>3. QED
        BY <3>3, <4>1, <4>2
    <3>4. QED
      BY <3>1, <3>2, <3>3
  <2>3. Eq(h, m + 1)
    BY <2>2
  <2>4. m + 1 \in 0 .. n
    OBVIOUS
  <2>5. QED
    BY <2>3, <2>4
<1>3. n \in X
  <2> HIDE DEF X
  <2>1. \A k \in 0 .. n : k \in X
    BY <1>1, <1>2, Induction
  <2>2. QED
    BY <2>1
<1>4. Eq(sum, n)
  <2>1. sum = CHOOSE f : Eq(f, n)
    BY DEF PartialSums
  <2>2. \E f : Eq(f, n)
    BY <1>3
  <2> HIDE DEF Eq, sum
  <2>3. QED
    BY <2>1, <2>2
<1> HIDE DEF sum
<1>5. sum[0] = 0
  BY <1>4
<1>6. ASSUME NEW k \in 0 .. n - 1 PROVE sum[k + 1] = sum[k] + g[k]
  <2>1. k + 1 \in 0 .. n /\ k + 1 # 0 /\ (k + 1) - 1 = k
    OBVIOUS
  <2>2. QED
    BY <1>4, <2>1
<1>7. \A k \in 0 .. n : sum[k] \in Int
  <2> DEFINE Y == {k \in 0 .. n : sum[k] \in Int}
  <2>1. 0 \in Y
    BY <1>5
  <2>2. \A k \in 0 .. n - 1 : k \in Y => k + 1 \in Y
    BY <1>6
  <2> HIDE DEF Y
  <2>3. \A k \in 0 .. n : k \in Y
    BY <2>1, <2>2, Induction
  <2>4. QED
    BY <2>3 DEF Y
<1>8. QED
  BY <1>5, <1>6, <1>7 DEF sum

(* The powers of 2 up to the width of a word.                              *)
LEMMA PowerStep ==
  ASSUME NEW k \in 0 .. 31
  PROVE  2^k \in Int /\ 2^k >= 1 /\ 2^(k + 1) \in Int /\ 2^(k + 1) = 2 * 2^k
<1>1. \/ k = 0 \/ k = 1 \/ k = 2 \/ k = 3 \/ k = 4 \/ k = 5 \/ k = 6 \/ k = 7
      \/ k = 8 \/ k = 9 \/ k = 10 \/ k = 11 \/ k = 12 \/ k = 13 \/ k = 14 \/ k = 15
      \/ k = 16 \/ k = 17 \/ k = 18 \/ k = 19 \/ k = 20 \/ k = 21 \/ k = 22 \/ k = 23
      \/ k = 24 \/ k = 25 \/ k = 26 \/ k = 27 \/ k = 28 \/ k = 29 \/ k = 30 \/ k = 31
  BY SMT
<1> DEFINE Doubles(j) == 2^j \in Int /\ 2^j >= 1 /\ 2^(j + 1) \in Int /\ 2^(j + 1) = 2 * 2^j
<1>2. /\ Doubles(0) /\ Doubles(1) /\ Doubles(2) /\ Doubles(3)
      /\ Doubles(4) /\ Doubles(5) /\ Doubles(6) /\ Doubles(7)
  BY SMT
<1>3. /\ Doubles(8) /\ Doubles(9) /\ Doubles(10) /\ Doubles(11)
      /\ Doubles(12) /\ Doubles(13) /\ Doubles(14) /\ Doubles(15)
  BY SMT
<1>4. /\ Doubles(16) /\ Doubles(17) /\ Doubles(18) /\ Doubles(19)
      /\ Doubles(20) /\ Doubles(21) /\ Doubles(22) /\ Doubles(23)
  BY SMT
<1>5. /\ Doubles(24) /\ Doubles(25) /\ Doubles(26) /\ Doubles(27)
      /\ Doubles(28) /\ Doubles(29) /\ Doubles(30) /\ Doubles(31)
  BY SMT
<1>6. QED
  BY <1>1, <1>2, <1>3, <1>4, <1>5

(* The bits that and, or and xor leave, each with its weight.              *)
AndBits(x, y) == [i \in 0 .. Host - 1 |-> 2^i * (Bit(x, i) * Bit(y, i))]
OrBits(x, y) == [i \in 0 .. Host - 1 |-> 2^i * (Bit(x, i) + (Bit(y, i) - (Bit(x, i) * Bit(y, i))))]
XorBits(x, y) == [i \in 0 .. Host - 1 |-> 2^i * ((Bit(x, i) + Bit(y, i)) % 2)]

(* The operations of alu.c add those bits up.                              *)
LEMMA BitwiseAre ==
  ASSUME NEW f, NEW x, NEW y, NEW n
  PROVE  /\ alu_and(f, x, y, n) = Logical(f, PartialSums(AndBits(x, y), Host)[Host], n)
         /\ alu_or(f, x, y, n) = Logical(f, PartialSums(OrBits(x, y), Host)[Host], n)
         /\ alu_xor(f, x, y, n) = Logical(f, PartialSums(XorBits(x, y), Host)[Host], n)
<1>1. alu_and(f, x, y, n) = Logical(f, PartialSums(AndBits(x, y), Host)[Host], n)
  BY DEF alu_and, Bitwise, AndBits
<1>2. alu_or(f, x, y, n) = Logical(f, PartialSums(OrBits(x, y), Host)[Host], n)
  BY DEF alu_or, Bitwise, OrBits
<1>3. alu_xor(f, x, y, n) = Logical(f, PartialSums(XorBits(x, y), Host)[Host], n)
  BY DEF alu_xor, Bitwise, XorBits
<1>4. QED
  BY <1>1, <1>2, <1>3

(* The bit above the lowest k bits.                                        *)
LEMMA BitIs ==
  ASSUME NEW x \in Int, NEW k \in 0 .. 31
  PROVE  /\ Bit(x, k) \in {0, 1}
         /\ x % 2^k \in Int /\ x % 2^k >= 0 /\ x % 2^k < 2^k
         /\ x % 2^(k + 1) = (x % 2^k) + (2^k * Bit(x, k))
<1> DEFINE M == 2^k
           q == x \div M
           r == x % M
           b == q % 2
           h == q \div 2
<1>1. M \in Int /\ M >= 1 /\ 2^(k + 1) = 2 * M
  BY PowerStep
<1> HIDE DEF M
<1>2. q \in Int /\ r \in Int /\ r >= 0 /\ r < M /\ x = (M * q) + r
  <2>1. M > 0
    BY <1>1, SMT
  <2>2. QED
    BY <1>1, <2>1, ModIs
<1> HIDE DEF q, r
<1>3. b \in Int /\ h \in Int /\ q = (2 * h) + b /\ (b = 0 \/ b = 1)
  BY <1>2, SMT
<1> HIDE DEF b, h
<1>4. /\ x = ((2 * M) * h) + (r + (M * b)) /\ (2 * M) \in Int /\ 2 * M > 0
      /\ (r + (M * b)) \in Int /\ r + (M * b) >= 0 /\ r + (M * b) < 2 * M
  <2>1. x = (M * ((2 * h) + b)) + r
    BY <1>2, <1>3
  <2>2. CASE b = 0
    BY <1>1, <1>2, <1>3, <2>1, <2>2, SMT
  <2>3. CASE b = 1
    BY <1>1, <1>2, <1>3, <2>1, <2>3, SMT
  <2>4. QED
    BY <1>3, <2>2, <2>3
<1>5. x % (2 * M) = r + (M * b)
  <2> DEFINE T == 2 * M
             e == r + (M * b)
  <2>1. T \in Int /\ T > 0 /\ e \in Int /\ e >= 0 /\ e < T /\ x = (T * h) + e
    BY <1>4
  <2> HIDE DEF T, e
  <2>2. x % T = e
    BY <1>3, <2>1, ModUnique
  <2>3. QED
    BY <2>2 DEF T, e
<1>6. Bit(x, k) = b
  BY DEF Bit, M, q, b
<1>7. QED
  BY <1>1, <1>2, <1>3, <1>5, <1>6 DEF M, r

(* A partial sum of bits stays below its power of 2, and the bits above n  *)
(* do not change what the lowest n amount to.                              *)
LEMMA BitSum ==
  ASSUME Byte = 8, NEW n \in Sizes, NEW g, \A i \in 0 .. 31 : \E b \in {0, 1} : g[i] = 2^i * b
  PROVE  LET sum == PartialSums(g, Host)
         IN /\ sum[0] = 0
            /\ \A k \in 0 .. 31 : sum[k + 1] = sum[k] + g[k]
            /\ \A k \in 0 .. 32 : sum[k] \in Int /\ sum[k] >= 0 /\ sum[k] < 2^k
            /\ Low(sum[Host], n) = sum[n]
<1> DEFINE sum == PartialSums(g, Host)
<1>1. Host = 32 /\ Sizes = {8, 16, 32} /\ 32 \in Nat /\ 32 - 1 = 31
  BY DEF Host, Sizes
<1>2. \A i \in 0 .. 31 : g[i] \in Int
  BY PowerStep
<1>3. /\ sum[0] = 0
      /\ \A k \in 0 .. 31 : sum[k + 1] = sum[k] + g[k]
      /\ \A k \in 0 .. 32 : sum[k] \in Int
  BY <1>1, <1>2, SumsAre
<1> HIDE DEF sum
<1>4. \A k \in 0 .. 32 : sum[k] >= 0 /\ sum[k] < 2^k
  <2> DEFINE X == {k \in 0 .. 32 : sum[k] >= 0 /\ sum[k] < 2^k}
  <2>1. 0 \in X
    BY <1>3, SMT
  <2>2. ASSUME NEW k \in 0 .. 31, k \in X PROVE k + 1 \in X
    <3>1. PICK b \in {0, 1} : g[k] = 2^k * b
      OBVIOUS
    <3>2. sum[k + 1] = sum[k] + (2^k * b) /\ sum[k] \in Int /\ sum[k] >= 0 /\ sum[k] < 2^k
      BY <1>3, <2>2, <3>1
    <3>3. sum[k + 1] >= 0 /\ sum[k + 1] < 2^(k + 1)
      <4> DEFINE M == 2^k
      <4>1. M \in Int /\ M >= 1 /\ 2^(k + 1) = 2 * M
        BY PowerStep
      <4>2. sum[k + 1] = sum[k] + (M * b) /\ sum[k] < M
        BY <3>2
      <4> HIDE DEF M
      <4>3. CASE b = 0
        BY <3>2, <4>1, <4>2, <4>3, SMT
      <4>4. CASE b = 1
        BY <3>2, <4>1, <4>2, <4>4, SMT
      <4>5. QED
        BY <4>3, <4>4
    <3>4. QED
      BY <3>3
  <2> HIDE DEF X
  <2>3. \A k \in 0 .. 32 : k \in X
    BY <1>1, <2>1, <2>2, Induction
  <2>4. QED
    BY <2>3 DEF X
<1>5. \A k \in 0 .. 32 : k < n \/ \E c \in Int : 2^k = 2^n * c
  <2> DEFINE X == {k \in 0 .. 32 : k < n \/ \E c \in Int : 2^k = 2^n * c}
  <2>1. 0 \in X
    BY <1>1
  <2>2. ASSUME NEW k \in 0 .. 31, k \in X PROVE k + 1 \in X
    <3>1. CASE k + 1 < n
      BY <3>1
    <3>2. CASE k + 1 = n
      <4>1. 2^n \in Int /\ 2^(k + 1) = 2^n * 1
        BY <3>2, Widths, SMT
      <4>2. QED
        BY <4>1
    <3>3. CASE k >= n
      <4>1. PICK c \in Int : 2^k = 2^n * c
        BY <1>1, <2>2, <3>3
      <4> DEFINE M == 2^n
                 K == 2^k
      <4>2. M \in Int /\ 2^(k + 1) = 2 * K /\ K = M * c
        BY <4>1, Widths, PowerStep
      <4> HIDE DEF M, K
      <4>3. 2^(k + 1) = M * (2 * c) /\ (2 * c) \in Int
        BY <4>2, SMT
      <4>4. QED
        BY <4>3 DEF M
    <3>4. QED
      BY <1>1, <3>1, <3>2, <3>3
  <2> HIDE DEF X
  <2>3. \A k \in 0 .. 32 : k \in X
    BY <1>1, <2>1, <2>2, Induction
  <2>4. QED
    BY <2>3 DEF X
<1>6. \A k \in 0 .. 32 : k >= n => \E c \in Int : sum[k] = sum[n] + (2^n * c)
  <2> DEFINE X == {k \in 0 .. 32 : k >= n => \E c \in Int : sum[k] = sum[n] + (2^n * c)}
  <2>1. 0 \in X
    BY <1>1
  <2>2. ASSUME NEW k \in 0 .. 31, k \in X PROVE k + 1 \in X
    <3>1. CASE k + 1 < n
      BY <1>1, <3>1
    <3>2. CASE k + 1 = n
      <4>1. sum[n] \in Int /\ 2^n \in Int
        BY <1>3, <3>2, Widths
      <4>2. sum[k + 1] = sum[n] + (2^n * 0)
        BY <3>2, <4>1, SMT
      <4>3. QED
        BY <4>2
    <3>3. CASE k >= n
      <4>1. PICK c \in Int : sum[k] = sum[n] + (2^n * c)
        BY <2>2, <3>3
      <4>2. PICK e \in Int : 2^k = 2^n * e
        <5>1. k \in 0 .. 32 /\ ~(k < n)
          BY <1>1, <3>3
        <5>2. QED
          BY <1>5, <5>1
      <4>3. PICK b \in {0, 1} : g[k] = 2^k * b
        OBVIOUS
      <4> DEFINE M == 2^n
                 s == sum[n]
      <4>4. M \in Int /\ s \in Int /\ sum[k + 1] = (s + (M * c)) + ((M * e) * b)
        <5>1. n \in 0 .. 32
          BY <1>1
        <5>2. M \in Int /\ s \in Int
          BY <1>3, <5>1, Widths
        <5>3. sum[k + 1] = sum[k] + g[k]
          BY <1>3
        <5>4. QED
          BY <4>1, <4>2, <4>3, <5>2, <5>3
      <4> HIDE DEF M, s
      <4>5. sum[k + 1] = s + (M * (c + (e * b))) /\ (c + (e * b)) \in Int
        BY <4>4, SMT
      <4>6. QED
        BY <4>5 DEF M, s
    <3>4. QED
      BY <1>1, <3>1, <3>2, <3>3
  <2> HIDE DEF X
  <2>3. \A k \in 0 .. 32 : k \in X
    BY <1>1, <2>1, <2>2, Induction
  <2>4. QED
    BY <2>3 DEF X
<1>7. Low(sum[Host], n) = sum[n]
  <2>1. n \in 0 .. 32 /\ 32 >= n /\ 32 \in 0 .. 32
    BY <1>1
  <2>2. PICK c \in Int : sum[32] = sum[n] + (2^n * c)
    BY <1>6, <2>1
  <2> DEFINE M == 2^n
             s == sum[n]
  <2>3. M \in Int /\ s \in Int /\ s >= 0 /\ s < M /\ sum[32] \in Int /\ sum[32] = s + (M * c)
    BY <1>3, <1>4, <2>1, <2>2, Widths
  <2>4. Low(sum[32], n) = s
    <3> HIDE DEF s
    <3>1. sum[32] = (2^n * c) + s
      <4> HIDE DEF M
      <4>1. sum[32] = (M * c) + s
        BY <2>3, SMT
      <4>2. QED
        BY <4>1 DEF M
    <3>2. QED
      BY <2>3, <3>1, LowUnique
  <2>5. QED
    BY <1>1, <2>4
<1>8. QED
  BY <1>3, <1>4, <1>7 DEF sum

(* What two words share and what either has add up to their sum, and what  *)
(* they differ in is the difference of the two, for their lowest n bits.   *)
LEMMA BitsAddUp ==
  ASSUME Byte = 8, NEW n \in Sizes, NEW x \in Int, NEW y \in Int
  PROVE  LET a == Low(PartialSums(AndBits(x, y), Host)[Host], n)
             o == Low(PartialSums(OrBits(x, y), Host)[Host], n)
             e == Low(PartialSums(XorBits(x, y), Host)[Host], n)
         IN /\ PartialSums(AndBits(x, y), Host)[Host] \in Int
            /\ PartialSums(OrBits(x, y), Host)[Host] \in Int
            /\ PartialSums(XorBits(x, y), Host)[Host] \in Int
            /\ a + o = Low(x, n) + Low(y, n) /\ e = o - a
<1> DEFINE A == PartialSums(AndBits(x, y), Host)
           O == PartialSums(OrBits(x, y), Host)
           E == PartialSums(XorBits(x, y), Host)
<1>1. Host = 32 /\ Sizes = {8, 16, 32} /\ 32 \in Nat /\ 32 - 1 = 31
  BY DEF Host, Sizes
<1>2. ASSUME NEW i \in 0 .. 31
      PROVE  \E b, c \in {0, 1} :
               /\ b = Bit(x, i) /\ c = Bit(y, i)
               /\ AndBits(x, y)[i] = 2^i * (b * c)
               /\ OrBits(x, y)[i] = 2^i * (b + (c - (b * c)))
               /\ XorBits(x, y)[i] = 2^i * ((b + c) % 2)
  BY <1>1, BitIs DEF AndBits, OrBits, XorBits
<1>3. \A b, c \in {0, 1} : /\ (b * c) \in {0, 1} /\ (b + (c - (b * c))) \in {0, 1}
                           /\ ((b + c) % 2) \in {0, 1}
                           /\ (b + c) % 2 = (b + (c - (b * c))) - (b * c)
  <2>1. ASSUME NEW b \in {0, 1}, NEW c \in {0, 1}
        PROVE  /\ (b * c) \in {0, 1} /\ (b + (c - (b * c))) \in {0, 1}
               /\ ((b + c) % 2) \in {0, 1} /\ (b + c) % 2 = (b + (c - (b * c))) - (b * c)
    <3>1. CASE b = 0
      BY <3>1, SMT
    <3>2. CASE b = 1
      BY <3>2, SMT
    <3>3. QED
      BY <3>1, <3>2
  <2>2. QED
    BY <2>1
<1>4. /\ A[0] = 0 /\ (\A k \in 0 .. 31 : A[k + 1] = A[k] + AndBits(x, y)[k])
      /\ (\A k \in 0 .. 32 : A[k] \in Int) /\ Low(A[Host], n) = A[n]
  <2>1. ASSUME NEW i \in 0 .. 31 PROVE \E d \in {0, 1} : AndBits(x, y)[i] = 2^i * d
    <3>1. PICK b \in {0, 1}, c \in {0, 1} : AndBits(x, y)[i] = 2^i * (b * c)
      BY <1>2
    <3>2. (b * c) \in {0, 1}
      BY <1>3
    <3>3. QED
      BY <3>1, <3>2
  <2>2. QED
    BY <2>1, BitSum
<1>5. /\ O[0] = 0 /\ (\A k \in 0 .. 31 : O[k + 1] = O[k] + OrBits(x, y)[k])
      /\ (\A k \in 0 .. 32 : O[k] \in Int) /\ Low(O[Host], n) = O[n]
  <2>1. ASSUME NEW i \in 0 .. 31 PROVE \E d \in {0, 1} : OrBits(x, y)[i] = 2^i * d
    <3>1. PICK b \in {0, 1}, c \in {0, 1} : OrBits(x, y)[i] = 2^i * (b + (c - (b * c)))
      BY <1>2
    <3>2. (b + (c - (b * c))) \in {0, 1}
      BY <1>3
    <3>3. QED
      BY <3>1, <3>2
  <2>2. QED
    BY <2>1, BitSum
<1>6. /\ E[0] = 0 /\ (\A k \in 0 .. 31 : E[k + 1] = E[k] + XorBits(x, y)[k])
      /\ (\A k \in 0 .. 32 : E[k] \in Int) /\ Low(E[Host], n) = E[n]
  <2>1. ASSUME NEW i \in 0 .. 31 PROVE \E d \in {0, 1} : XorBits(x, y)[i] = 2^i * d
    <3>1. PICK b \in {0, 1}, c \in {0, 1} : XorBits(x, y)[i] = 2^i * ((b + c) % 2)
      BY <1>2
    <3>2. ((b + c) % 2) \in {0, 1}
      BY <1>3
    <3>3. QED
      BY <3>1, <3>2
  <2>2. QED
    BY <2>1, BitSum
<1> HIDE DEF A, O, E
<1>7. \A k \in 0 .. 32 : A[k] + O[k] = (x % 2^k) + (y % 2^k) /\ E[k] = O[k] - A[k]
  <2> DEFINE X == {k \in 0 .. 32 : A[k] + O[k] = (x % 2^k) + (y % 2^k) /\ E[k] = O[k] - A[k]}
  <2>1. 0 \in X
    <3>1. 2^0 = 1
      BY SMT
    <3>2. x % 1 = 0 /\ y % 1 = 0
      BY SMT
    <3>3. QED
      BY <1>4, <1>5, <1>6, <3>1, <3>2
  <2>2. ASSUME NEW k \in 0 .. 31, k \in X PROVE k + 1 \in X
    <3>1. PICK b \in {0, 1}, c \in {0, 1} :
            /\ b = Bit(x, k) /\ c = Bit(y, k)
            /\ AndBits(x, y)[k] = 2^k * (b * c)
            /\ OrBits(x, y)[k] = 2^k * (b + (c - (b * c)))
            /\ XorBits(x, y)[k] = 2^k * ((b + c) % 2)
      BY <1>2
    <3> DEFINE M == 2^k
               p == x % M
               q == y % M
               s == A[k]
               t == O[k]
    <3>2. /\ M \in Int /\ p \in Int /\ q \in Int /\ s \in Int /\ t \in Int
          /\ s + t = p + q /\ E[k] = t - s
      BY <1>4, <1>5, <2>2, PowerStep, BitIs
    <3>3. /\ x % 2^(k + 1) = p + (M * b) /\ y % 2^(k + 1) = q + (M * c)
          /\ A[k + 1] = s + (M * (b * c)) /\ O[k + 1] = t + (M * (b + (c - (b * c))))
          /\ E[k + 1] = (t - s) + (M * ((b + c) % 2))
      BY <1>4, <1>5, <1>6, <3>1, <3>2, BitIs
    <3> HIDE DEF M, p, q, s, t
    <3>4. /\ A[k + 1] + O[k + 1] = (p + (M * b)) + (q + (M * c))
          /\ E[k + 1] = O[k + 1] - A[k + 1]
      <4>1. CASE b = 0 /\ c = 0
        BY <3>2, <3>3, <4>1, SMT
      <4>2. CASE b = 0 /\ c = 1
        BY <3>2, <3>3, <4>2, SMT
      <4>3. CASE b = 1 /\ c = 0
        BY <3>2, <3>3, <4>3, SMT
      <4>4. CASE b = 1 /\ c = 1
        BY <3>2, <3>3, <4>4, SMT
      <4>5. QED
        BY <4>1, <4>2, <4>3, <4>4
    <3>5. QED
      BY <3>3, <3>4
  <2> HIDE DEF X
  <2>3. \A k \in 0 .. 32 : k \in X
    BY <1>1, <2>1, <2>2, Induction
  <2>4. QED
    BY <2>3 DEF X
<1>8. n \in 0 .. 32 /\ Host \in 0 .. 32
  BY <1>1
<1>9. QED
  BY <1>4, <1>5, <1>6, <1>7, <1>8 DEF A, O, E, Low

(* The flags of a result stay flags.                                       *)
LEMMA FlagsSet ==
  ASSUME Byte = 8, NEW n \in Sizes, NEW res \in Int, NEW f \in FlagRecord
  PROVE  SetPSZ(f, res, n) \in FlagRecord
<1> DEFINE pf == Flag(Cardinality({i \in 0 .. Byte - 1 : Bit(res, i) = 1}) % 2 = 0)
           zf == Flag(Low(res, n) = 0)
           sf == sign(sign_ext(res, n))
<1>1. pf \in 0 .. 1 /\ zf \in 0 .. 1 /\ sf \in 0 .. 1
  BY ExtIs DEF Flag
<1>2. SetPSZ(f, res, n) = [[[f EXCEPT !.PF = pf] EXCEPT !.ZF = zf] EXCEPT !.SF = sf]
  BY DEF SetPSZ
<1> HIDE DEF pf, zf, sf
<1>3. QED
  BY <1>1, <1>2 DEF FlagRecord

(* After and, or and xor the carry and the overflow are clear.             *)
LEMMA LogicalIs ==
  ASSUME Byte = 8, NEW n \in Sizes, NEW res \in Int, NEW f \in FlagRecord
  PROVE  LET out == Logical(f, res, n)
         IN out.val = Low(res, n) /\ out.flags.CF = 0 /\ out.flags.OF = 0
<1> DEFINE g == SetPSZ(f, res, n)
           h == [[g EXCEPT !.CF = 0] EXCEPT !.OF = 0]
<1>1. g \in FlagRecord
  BY FlagsSet
<1>2. Logical(f, res, n) = [val |-> Low(res, n), flags |-> h]
  BY DEF Logical
<1> HIDE DEF g
<1>3. h.CF = 0 /\ h.OF = 0
  BY <1>1 DEF FlagRecord
<1> HIDE DEF h
<1>4. QED
  BY <1>2, <1>3

(* ShiftsScale is about other instructions than these.                     *)
LEMMA NoShift ==
  ASSUME NEW op, op \notin {"and", "neg", "not", "shl", "sal", "shr", "sar"},
         NEW f, NEW src, NEW dest, NEW n, NEW out, Run(op, f, src, dest, n, out)
  PROVE  ShiftsScale'
<1>1. last'.op = op
  BY DEF Run
<1>2. QED
  BY <1>1 DEF ShiftsScale, Did

(* and, or and xor on every two words.                                     *)
LEMMA LogicScales ==
  ASSUME Byte = 8, Logic
  PROVE  ShiftsScale'
<1>1. PICK f \in Flags, src \in Values, dest \in Values, n \in Sizes :
        \/ Run("and", f, src, dest, n, alu_and(f, src, dest, n))
        \/ Run("or", f, src, dest, n, alu_or(f, src, dest, n))
        \/ Run("xor", f, src, dest, n, alu_xor(f, src, dest, n))
  BY DEF Logic
<1>2. f \in FlagRecord /\ src \in Int /\ dest \in Int
  BY OperandsAre
<1>3. CASE Run("and", f, src, dest, n, alu_and(f, src, dest, n))
  <2>1. /\ last'.op = "and" /\ last'.f = f /\ last'.src = src /\ last'.dest = dest
        /\ last'.n = n /\ last'.out = alu_and(f, src, dest, n)
    BY <1>3 DEF Run
  <2> DEFINE A == PartialSums(AndBits(src, dest), Host)[Host]
             O == PartialSums(OrBits(src, dest), Host)[Host]
             E == PartialSums(XorBits(src, dest), Host)[Host]
  <2>2. A \in Int /\ O \in Int /\ E \in Int
    BY <1>2, BitsAddUp
  <2>3. /\ alu_and(f, src, dest, n) = Logical(f, A, n)
        /\ alu_or(f, src, dest, n) = Logical(f, O, n)
        /\ alu_xor(f, src, dest, n) = Logical(f, E, n)
    BY BitwiseAre
  <2>4. Low(A, n) + Low(O, n) = Low(src, n) + Low(dest, n) /\ Low(E, n) = Low(O, n) - Low(A, n)
    BY <1>2, BitsAddUp
  <2> HIDE DEF A, O, E
  <2>5. /\ alu_and(f, src, dest, n).val = Low(A, n) /\ alu_or(f, src, dest, n).val = Low(O, n)
        /\ alu_xor(f, src, dest, n).val = Low(E, n)
        /\ alu_and(f, src, dest, n).flags.CF = 0 /\ alu_and(f, src, dest, n).flags.OF = 0
    BY <1>2, <2>2, <2>3, LogicalIs
  <2>6. alu_or(In, last.src, last.dest, N)' = alu_or(f, src, dest, n)
    BY <2>1 DEF In, N
  <2>7. alu_xor(In, last.src, last.dest, N)' = alu_xor(f, src, dest, n)
    BY <2>1 DEF In, N
  <2>8. U(last.src)' = Low(src, n) /\ U(last.dest)' = Low(dest, n)
    BY <2>1 DEF U, N, Low
  <2>9. Out' = alu_and(f, src, dest, n)
    BY <2>1 DEF Out
  <2>10. QED
    BY <2>1, <2>4, <2>5, <2>6, <2>7, <2>8, <2>9 DEF ShiftsScale, Did
<1>4. CASE Run("or", f, src, dest, n, alu_or(f, src, dest, n))
  BY <1>4, NoShift
<1>5. CASE Run("xor", f, src, dest, n, alu_xor(f, src, dest, n))
  BY <1>5, NoShift
<1>6. QED
  BY <1>1, <1>3, <1>4, <1>5

(* neg and not leave what adds up to 0, or to -1, with their operand.      *)
LEMMA ComplementsAddUp ==
  ASSUME Byte = 8, NEW n \in Sizes, NEW x \in Int
  PROVE  /\ Low(Low(-Low(x, n), n) + x + 0, n) = 0
         /\ Low(Low((-x) - 1, n) + x + 1, n) = 0
<1> DEFINE M == 2^n
           l == Low(x, n)
           q == x \div M
           v == Low(-l, n)
           p == (-l) \div M
           w == Low((-x) - 1, n)
           s == ((-x) - 1) \div M
<1>1. M \in Int /\ l \in Int /\ q \in Int /\ x = (M * q) + l /\ M > 0
  <2>1. M \in Int /\ M = 2^(n - 1) + 2^(n - 1) /\ 2^(n - 1) \in Int /\ 2^(n - 1) > 1
    BY Widths
  <2>2. M > 0
    BY <2>1
  <2>3. QED
    BY <2>1, <2>2, LowIs
<1>2. v \in Int /\ p \in Int /\ -l = (M * p) + v
  <2>1. -l \in Int
    BY <1>1
  <2> HIDE DEF l
  <2>2. QED
    BY <2>1, LowIs
<1>3. w \in Int /\ s \in Int /\ (-x) - 1 = (M * s) + w
  <2>1. ((-x) - 1) \in Int
    OBVIOUS
  <2>2. QED
    BY <2>1, LowIs
<1> HIDE DEF l, q, v, p, w, s
<1>4. Low((v + x) + 0, n) = 0
  <2>1. (v + x) + 0 = (2^n * (q - p)) + 0 /\ (q - p) \in Int /\ ((v + x) + 0) \in Int
    <3> HIDE DEF M
    <3>1. (v + x) + 0 = (M * (q - p)) + 0 /\ (q - p) \in Int /\ ((v + x) + 0) \in Int
      BY <1>1, <1>2, SMT
    <3>2. QED
      BY <3>1 DEF M
  <2>2. 0 < 2^n
    BY <1>1
  <2>3. QED
    BY <2>1, <2>2, LowUnique
<1>5. Low((w + x) + 1, n) = 0
  <2>1. (w + x) + 1 = (2^n * (-s)) + 0 /\ (-s) \in Int /\ ((w + x) + 1) \in Int
    <3> HIDE DEF M
    <3>1. (w + x) + 1 = (M * (-s)) + 0 /\ (-s) \in Int /\ ((w + x) + 1) \in Int
      BY <1>1, <1>3, SMT
    <3>2. QED
      BY <3>1 DEF M
  <2>2. 0 < 2^n
    BY <1>1
  <2>3. QED
    BY <2>1, <2>2, LowUnique
<1>6. QED
  BY <1>4, <1>5 DEF v, w, l

(* neg and not on every word.                                              *)
LEMMA OneOperandScales ==
  ASSUME Byte = 8, OneOperand
  PROVE  ShiftsScale'
<1>1. PICK f \in Flags, x \in Values, n \in Sizes :
        \/ Run("inc", f, 1, x, n, inc_rm(f, x, n))
        \/ Run("dec", f, 1, x, n, dec_rm(f, x, n))
        \/ Run("neg", f, x, 0, n, neg_rm(f, x, n))
        \/ Run("not", f, x, 0, n, not_rm(f, x, n))
  BY DEF OneOperand
<1>2. x \in Int
  BY OperandsAre
<1>3. CASE Run("neg", f, x, 0, n, neg_rm(f, x, n))
  <2>1. last'.op = "neg" /\ last'.src = x /\ last'.n = n /\ last'.out = neg_rm(f, x, n)
    BY <1>3 DEF Run
  <2>2. neg_rm(f, x, n).val = Low(-Low(x, n), n)
    BY DEF neg_rm
  <2>3. Flag(Did({"not"}))' = 0
    BY <2>1 DEF Flag, Did
  <2>4. U(Out.val + last.src + Flag(Did({"not"})))' = Low(Low(-Low(x, n), n) + x + 0, n)
    BY <2>1, <2>2, <2>3 DEF U, N, Out, Low
  <2>5. QED
    BY <1>2, <2>1, <2>4, ComplementsAddUp DEF ShiftsScale, Did
<1>4. CASE Run("not", f, x, 0, n, not_rm(f, x, n))
  <2>1. last'.op = "not" /\ last'.src = x /\ last'.n = n /\ last'.out = not_rm(f, x, n)
    BY <1>4 DEF Run
  <2>2. not_rm(f, x, n).val = Low((-x) - 1, n)
    BY DEF not_rm
  <2>3. Flag(Did({"not"}))' = 1
    BY <2>1 DEF Flag, Did
  <2>4. U(Out.val + last.src + Flag(Did({"not"})))' = Low(Low((-x) - 1, n) + x + 1, n)
    BY <2>1, <2>2, <2>3 DEF U, N, Out, Low
  <2>5. QED
    BY <1>2, <2>1, <2>4, ComplementsAddUp DEF ShiftsScale, Did
<1>5. CASE Run("inc", f, 1, x, n, inc_rm(f, x, n))
  BY <1>5, NoShift
<1>6. CASE Run("dec", f, 1, x, n, dec_rm(f, x, n))
  BY <1>6, NoShift
<1>7. QED
  BY <1>1, <1>3, <1>4, <1>5, <1>6

(* A number that fits the width as an integer comes back from its bits.    *)
LEMMA FitsComesBack ==
  ASSUME Byte = 8, NEW n \in Sizes, NEW x \in Int, x >= -(2^(n - 1)), x < 2^(n - 1)
  PROVE  AsInt(x, n) = x /\ AsInt(Low(x, n), n) = x
<1> DEFINE M == 2^n
           H == 2^(n - 1)
           l == Low(x, n)
           q == x \div M
<1>1. M \in Int /\ H \in Int /\ M = H + H /\ H > 1 /\ l \in Int /\ l >= 0 /\ l < M
      /\ x >= -H /\ x < H /\ q \in Int /\ x = (M * q) + l
  BY Widths, LowIs
<1>2. AsInt(x, n) = IF l < H THEN l ELSE l - M
  BY AsIntIs
<1>3. Low(l, n) = l
  <2> HIDE DEF q, l
  <2>1. l = (2^n * 0) + l
    BY <1>1, SMT
  <2>2. QED
    BY <1>1, <2>1, LowUnique
<1>4. AsInt(l, n) = IF l < H THEN l ELSE l - M
  <2> HIDE DEF l
  <2>1. AsInt(l, n) = IF Low(l, n) < H THEN Low(l, n) ELSE Low(l, n) - M
    BY <1>1, AsIntIs
  <2>2. QED
    BY <1>3, <2>1
<1>5. (IF l < H THEN l ELSE l - M) = x
  <2> HIDE DEF M, H, l, q
  <2>1. CASE x >= 0
    <3>1. l = x
      <4>1. x = (M * 0) + x /\ x < M /\ M > 0
        BY <1>1, <2>1, SMT
      <4>2. x % M = x
        BY <1>1, <2>1, <4>1, ModUnique
      <4>3. QED
        BY <4>2 DEF l, M, Low
    <3>2. QED
      BY <1>1, <3>1, SMT
  <2>2. CASE x < 0
    <3>1. l = x + M
      <4>1. x = (M * (-1)) + (x + M) /\ x + M < M /\ x + M >= 0 /\ M > 0 /\ (x + M) \in Int /\ -1 \in Int
        BY <1>1, <2>2, SMT
      <4>2. x % M = x + M
        BY <1>1, <4>1, ModUnique
      <4>3. QED
        BY <4>2 DEF l, M, Low
    <3>2. QED
      BY <1>1, <3>1, SMT
  <2>3. QED
    BY <1>1, <2>1, <2>2
<1>6. QED
  BY <1>2, <1>4, <1>5 DEF l

(* A quotient rounded down is no further from 0 than the dividend.         *)
LEMMA QuotientStays ==
  ASSUME NEW x \in Int, NEW K \in Int, K >= 1, NEW lo \in Int, NEW hi \in Int,
         lo <= 0, hi >= 0, x >= lo, x < hi
  PROVE  x \div K \in Int /\ x \div K >= lo /\ x \div K < hi
<1> DEFINE q == x \div K
           r == x % K
<1>1. q \in Int /\ r \in Int /\ r >= 0 /\ r < K /\ x = (K * q) + r
  <2>1. K > 0
    BY SMT
  <2>2. QED
    BY <2>1, ModIs
<1> HIDE DEF q, r
<1>2. q < hi
  <2>1. SUFFICES ASSUME q >= hi PROVE FALSE
    BY <1>1
  <2>2. K * q >= q
    BY <1>1, <2>1, SMT
  <2>3. QED
    BY <1>1, <2>1, <2>2, SMT
<1>3. q >= lo
  <2>1. SUFFICES ASSUME q < lo PROVE FALSE
    BY <1>1
  <2>2. K * (q + 1) <= q + 1
    <3>1. q + 1 <= 0
      BY <1>1, <2>1
    <3> DEFINE p == q + 1
    <3>2. p \in Int /\ p <= 0
      BY <1>1, <3>1
    <3> HIDE DEF p
    <3>3. K * p <= p
      BY <3>2, SMT
    <3>4. QED
      BY <3>3 DEF p
  <2>3. K * (q + 1) = (K * q) + K
    BY <1>1, SMT
  <2>4. QED
    BY <1>1, <2>1, <2>2, <2>3, SMT
<1>4. QED
  BY <1>1, <1>2, <1>3 DEF q

(* The count of a shift that stays below the operand size.                 *)
LEMMA ShiftCount ==
  ASSUME Byte = 8, NEW n \in Sizes, NEW k \in Int, k >= 1, k <= n - 1
  PROVE  /\ Host = 32 /\ k - 1 \in 0 .. 31 /\ k \in 0 .. 31 /\ k <= Host /\ k < Host /\ k # 0
         /\ 2^k \in Int /\ 2^k >= 1 /\ 2^(k - 1) \in Int /\ 2^(k - 1) >= 1 /\ 2^k = 2 * 2^(k - 1)
<1>1. Host = 32 /\ Sizes = {8, 16, 32}
  BY DEF Host, Sizes
<1>2. n <= 32 /\ n \in Int
  BY <1>1
<1>3. /\ k - 1 \in 0 .. 31 /\ k \in 0 .. 31 /\ k <= Host /\ k < Host /\ k # 0
      /\ (k - 1) + 1 = k
  BY <1>1, <1>2
<1>4. 2^(k - 1) \in Int /\ 2^(k - 1) >= 1 /\ 2^((k - 1) + 1) \in Int /\ 2^((k - 1) + 1) = 2 * 2^(k - 1)
  BY <1>3, PowerStep
<1>5. 2^k \in Int /\ 2^k >= 1
  BY <1>3, PowerStep
<1>6. QED
  BY <1>1, <1>3, <1>4, <1>5

(* The bit that the last step to the left pushes out of the lowest n bits. *)
LEMMA BitPushedOut ==
  ASSUME Byte = 8, NEW n \in Sizes, NEW y \in Int
  PROVE  Bit(y % Word, n - 1) = ((2 * y) \div 2^n) % 2
<1> DEFINE M == 2^n
           H == 2^(n - 1)
           q == y \div Word
           z == y % Word
           t == z \div H
           r == z % H
<1>1. PICK c \in Int : c >= 1 /\ Word = M * c
  BY Widths
<1>2. M \in Int /\ H \in Int /\ M = H + H /\ H > 0 /\ Word \in Int /\ Word > 0
  <2>1. M \in Int /\ H \in Int /\ M = H + H /\ H > 1 /\ Word \in Int /\ Word >= M
    BY Widths
  <2>2. QED
    BY <2>1
<1>3. q \in Int /\ z \in Int /\ y = (Word * q) + z
  BY <1>2, ModIs
<1> HIDE DEF q, z
<1>4. t \in Int /\ r \in Int /\ r >= 0 /\ r < H /\ z = (H * t) + r
  BY <1>2, <1>3, ModIs
<1> HIDE DEF M, H, t, r
<1> DEFINE e == c * q
           f == 2 * r
<1>5. e \in Int /\ f \in Int /\ f >= 0 /\ f < M
  BY <1>1, <1>2, <1>3, <1>4
<1>6. 2 * y = (M * ((2 * e) + t)) + f
  <2>1. y = ((M * c) * q) + ((H * t) + r)
    BY <1>1, <1>3, <1>4
  <2>2. (M * c) * q = M * e /\ M * e = (2 * H) * e
    BY <1>1, <1>2, <1>3, SMT
  <2> HIDE DEF e
  <2>3. 2 * y = (2 * (M * e)) + ((2 * (H * t)) + f)
    BY <1>2, <1>4, <1>5, <2>1, <2>2, SMT
  <2>4. 2 * (H * t) = M * t
    BY <1>2, <1>4, SMT
  <2>5. QED
    BY <1>2, <1>4, <1>5, <2>3, <2>4, SMT
<1> HIDE DEF e, f
<1>7. (2 * y) \div M = (2 * e) + t
  <2>1. (2 * y) \in Int /\ ((2 * e) + t) \in Int /\ M > 0
    BY <1>2, <1>4, <1>5
  <2>2. QED
    BY <1>2, <1>5, <1>6, <2>1, ModUnique
<1>8. ((2 * e) + t) % 2 = t % 2
  BY <1>4, <1>5, SMT
<1>9. Bit(z, n - 1) = t % 2
  BY DEF Bit, t, H
<1>10. QED
  BY <1>7, <1>8, <1>9 DEF M, z

(* What ShiftsScale says of one shift, in the words of Alu.                *)
Scaled(op, src, dest, n, out) ==
  LET k == Low(src, n) IN k >= 1 /\ k <= n - 1 =>
    CASE op \in {"shl", "sal"} -> /\ out.val = Low(Low(dest, n) * 2^k, n)
                                  /\ out.flags.CF = ((Low(dest, n) * 2^k) \div 2^n) % 2
      [] op \in {"shr"} -> /\ out.val = Low(dest, n) \div 2^k
                           /\ out.flags.CF = (Low(dest, n) \div 2^(k - 1)) % 2
      [] op \in {"sar"} -> /\ AsInt(out.val, n) = AsInt(dest, n) \div 2^k
                           /\ out.flags.CF = (AsInt(dest, n) \div 2^(k - 1)) % 2

(* A shift to the left.                                                    *)
LEMMA LeftScales ==
  ASSUME Byte = 8, NEW n \in Sizes, NEW src \in Int, NEW dest \in Int, NEW f \in FlagRecord
  PROVE  /\ Scaled("shl", src, dest, n, alu_shl(f, src, dest, n))
         /\ Scaled("sal", src, dest, n, alu_sal(f, src, dest, n))
<1> DEFINE k == Low(src, n)
           d == Low(dest, n)
           res == Doubled(d, k)
           cf == IF k = 0 THEN f.CF ELSE Bit(Doubled(d, k - 1), n - 1)
           of == IF k = 1 THEN Flag(res \div 2^(n - 1) # cf) ELSE f.OF
           g == SetPSZ(f, res, n)
           h == [[g EXCEPT !.CF = cf] EXCEPT !.OF = of]
           out == alu_shl(f, src, dest, n)
<1>1. k \in Int /\ d \in Int
  BY LowIs
<1>2. out = [val |-> Low(res, n), flags |-> h]
  BY DEF alu_shl
<1>3. ASSUME k >= 1, k <= n - 1
      PROVE  /\ out.val = Low(d * 2^k, n)
             /\ out.flags.CF = ((d * 2^k) \div 2^n) % 2
  <2>1. /\ Host = 32 /\ k < Host /\ k # 0 /\ k - 1 < Host /\ ~(k >= Host) /\ ~(k - 1 >= Host)
        /\ 2^k \in Int /\ 2^(k - 1) \in Int /\ 2^k = 2 * 2^(k - 1)
    <3> HIDE DEF k
    <3>1. QED
      BY <1>1, <1>3, ShiftCount
  <2>2. res = (d * 2^k) % Word /\ Doubled(d, k - 1) = (d * 2^(k - 1)) % Word
    BY <2>1 DEF Doubled
  <2> HIDE DEF k, d
  <2>3. /\ (d * 2^k) \in Int /\ (d * 2^(k - 1)) \in Int /\ d * 2^k = 2 * (d * 2^(k - 1))
    <3> DEFINE p == 2^(k - 1)
    <3>1. p \in Int /\ 2^k = 2 * p
      BY <2>1
    <3> HIDE DEF p
    <3>2. d * (2 * p) = 2 * (d * p) /\ (d * p) \in Int /\ (d * (2 * p)) \in Int
      BY <1>1, <3>1, SMT
    <3>3. QED
      BY <3>1, <3>2 DEF p
  <2>4. res \in Int /\ Low(res, n) = Low(d * 2^k, n)
    BY <2>2, <2>3, LowOfWord
  <2>5. cf = ((d * 2^k) \div 2^n) % 2
    BY <2>1, <2>2, <2>3, BitPushedOut
  <2>6. g \in FlagRecord
    <3> HIDE DEF res
    <3>1. QED
      BY <2>4, FlagsSet
  <2> HIDE DEF g, cf, of, res
  <2>7. h.CF = cf
    BY <2>6 DEF FlagRecord
  <2> HIDE DEF h, out
  <2>8. QED
    BY <1>2, <2>4, <2>5, <2>7
<1>4. Scaled("shl", src, dest, n, out) /\ Scaled("sal", src, dest, n, out)
  <2> HIDE DEF out
  <2>1. QED
    BY <1>3 DEF Scaled
<1>5. QED
  BY <1>4 DEF alu_sal

(* A shift to the right, of the operand as a natural number or an integer. *)
LEMMA RightIs ==
  ASSUME Byte = 8, NEW n \in Sizes, NEW k \in Int, k >= 1, k <= n - 1, NEW d \in Int,
         NEW f \in FlagRecord
  PROVE  LET out == Right(f, k, d, n)
         IN /\ d \div 2^k \in Int
            /\ out.val = Low(d \div 2^k, n)
            /\ out.flags.CF = (d \div 2^(k - 1)) % 2
<1> DEFINE t == d \div 2^k
           res == Halved(d, k) % Word
           cf == IF k = 0 THEN f.CF ELSE Bit(Halved(d, k - 1), 0)
           g == SetPSZ(f, res, n)
           h == [g EXCEPT !.CF = cf]
           out == Right(f, k, d, n)
<1>1. out = [val |-> Low(res, n), flags |-> h]
  BY DEF Right
<1>2. /\ Host = 32 /\ k # 0 /\ ~(k > Host) /\ ~(k - 1 > Host)
      /\ 2^k \in Int /\ 2^k > 0 /\ 2^(k - 1) \in Int /\ 2^(k - 1) > 0
  BY ShiftCount
<1>3. t \in Int /\ d \div 2^(k - 1) \in Int
  BY <1>2, ModIs
<1>4. res = t % Word
  BY <1>2 DEF Halved
<1>5. cf = (d \div 2^(k - 1)) % 2
  <2>1. Halved(d, k - 1) = d \div 2^(k - 1)
    BY <1>2 DEF Halved
  <2> DEFINE e == d \div 2^(k - 1)
  <2>2. e \div 2^0 = e
    <3>1. 2^0 = 1
      BY SMT
    <3> HIDE DEF e
    <3>2. e \in Int
      BY <1>3 DEF e
    <3>3. e = (1 * e) + 0
      BY <3>2, SMT
    <3>4. e \div 1 = e
      BY <3>2, <3>3, ModUnique
    <3>5. QED
      BY <3>1, <3>4
  <2>3. QED
    BY <1>2, <2>1, <2>2 DEF Bit
<1> HIDE DEF t, res, cf
<1>6. res \in Int /\ Low(res, n) = Low(t, n)
  BY <1>3, <1>4, LowOfWord
<1>7. g \in FlagRecord
  BY <1>6, FlagsSet
<1> HIDE DEF g
<1>8. h.CF = cf
  BY <1>7 DEF FlagRecord
<1> HIDE DEF h, out
<1>9. t \in Int /\ out.val = Low(t, n) /\ out.flags.CF = (d \div 2^(k - 1)) % 2
  BY <1>1, <1>3, <1>5, <1>6, <1>8
<1>10. QED
  BY <1>9 DEF t, out

(* shr scales the natural number and sar the integer.                      *)
LEMMA RightScales ==
  ASSUME Byte = 8, NEW n \in Sizes, NEW src \in Int, NEW dest \in Int, NEW f \in FlagRecord
  PROVE  /\ Scaled("shr", src, dest, n, alu_shr(f, src, dest, n))
         /\ Scaled("sar", src, dest, n, alu_sar(f, src, dest, n))
<1> DEFINE k == Low(src, n)
           d == Low(dest, n)
           s == AsInt(dest, n)
           H == 2^(n - 1)
           M == 2^n
<1>1. k \in Int /\ d \in Int /\ d >= 0 /\ d < M /\ s \in Int /\ s >= -H /\ s < H
      /\ H \in Int /\ H > 1 /\ M \in Int /\ M = H + H
  BY Widths, LowIs, AsIntIs
<1>2. alu_shr(f, src, dest, n) = Right(f, k, d, n) /\ alu_sar(f, src, dest, n) = Right(f, k, s, n)
  BY DEF alu_shr, alu_sar
<1>3. ASSUME k >= 1, k <= n - 1
      PROVE  /\ alu_shr(f, src, dest, n).val = d \div 2^k
             /\ alu_shr(f, src, dest, n).flags.CF = (d \div 2^(k - 1)) % 2
             /\ AsInt(alu_sar(f, src, dest, n).val, n) = s \div 2^k
             /\ alu_sar(f, src, dest, n).flags.CF = (s \div 2^(k - 1)) % 2
  <2> HIDE DEF k, d, s
  <2>1. 2^k \in Int /\ 2^k >= 1
    BY <1>1, <1>3, ShiftCount
  <2>2. /\ d \div 2^k \in Int
        /\ Right(f, k, d, n).val = Low(d \div 2^k, n)
        /\ Right(f, k, d, n).flags.CF = (d \div 2^(k - 1)) % 2
    BY <1>1, <1>3, RightIs
  <2>3. /\ s \div 2^k \in Int
        /\ Right(f, k, s, n).val = Low(s \div 2^k, n)
        /\ Right(f, k, s, n).flags.CF = (s \div 2^(k - 1)) % 2
    BY <1>1, <1>3, RightIs
  <2>4. Low(d \div 2^k, n) = d \div 2^k
    <3> DEFINE t == d \div 2^k
    <3>1. t >= 0 /\ t < M
      <4> DEFINE K == 2^k
      <4>1. K \in Int /\ K >= 1
        BY <2>1
      <4> HIDE DEF K, M
      <4>2. d \div K >= 0 /\ d \div K < M
        <5>1. 0 \in Int /\ 0 <= 0 /\ M >= 0
          BY <1>1
        <5>2. QED
          BY <1>1, <4>1, <5>1, QuotientStays
      <4>3. QED
        BY <4>2 DEF K
    <3> HIDE DEF t
    <3>2. t \in Int
      BY <2>2 DEF t
    <3>3. t = (2^n * 0) + t
      BY <1>1, <3>2, SMT
    <3>4. Low(t, n) = t
      BY <3>1, <3>2, <3>3, LowUnique
    <3>5. QED
      BY <3>4 DEF t
  <2>5. AsInt(Low(s \div 2^k, n), n) = s \div 2^k
    <3> DEFINE t == s \div 2^k
    <3>1. t >= -H /\ t < H
      <4> DEFINE K == 2^k
      <4>1. K \in Int /\ K >= 1
        BY <2>1
      <4> HIDE DEF K, H
      <4>2. s \div K >= -H /\ s \div K < H
        <5>1. -H \in Int /\ -H <= 0 /\ H >= 0
          BY <1>1
        <5>2. QED
          BY <1>1, <4>1, <5>1, QuotientStays
      <4>3. QED
        BY <4>2 DEF K
    <3> HIDE DEF t
    <3>2. t \in Int
      BY <2>3 DEF t
    <3>3. AsInt(Low(t, n), n) = t
      BY <3>1, <3>2, FitsComesBack
    <3>4. QED
      BY <3>3 DEF t
  <2>6. QED
    BY <1>2, <2>2, <2>3, <2>4, <2>5
<1>4. QED
  BY <1>3 DEF Scaled

(* In terms of the operands that the step leaves in last.                   *)
LEMMA StepScales ==
  ASSUME Byte = 8, NEW n \in Sizes, NEW op \in {"shl", "sal", "shr", "sar"}, NEW f,
         NEW src \in Int, NEW dest \in Int, NEW out,
         Run(op, f, src, dest, n, out), Scaled(op, src, dest, n, out)
  PROVE  ShiftsScale'
<1>1. last'.op = op /\ last'.src = src /\ last'.dest = dest /\ last'.n = n /\ last'.out = out
  BY DEF Run
<1>2. \A x : Low(x, n) = x % 2^n /\ AsInteger(x, n) = AsInt(x, n)
  BY DEF Low, AsInt, AsInteger
<1>3. Out' = out /\ N' = n
  BY <1>1 DEF Out, N
<1>4. /\ U(last.src)' = Low(src, n) /\ U(last.dest)' = Low(dest, n)
      /\ S(last.dest)' = AsInt(dest, n) /\ S(Out.val)' = AsInt(out.val, n)
      /\ U(U(last.dest) * 2^U(last.src))' = Low(Low(dest, n) * 2^Low(src, n), n)
  BY <1>1, <1>2, <1>3 DEF U, S
<1>5. Low(src, n) \in Int /\ n \in Int
  BY LowIs, Widths
<1>6. Did({op})'
  BY <1>1 DEF Did
<1> DEFINE k == Low(src, n)
<1>7. k \in 1 .. n - 1 <=> k >= 1 /\ k <= n - 1
  BY <1>5
<1>8. CASE op \in {"shl", "sal"}
  <2>1. k \in 1 .. n - 1 => /\ out.val = Low(Low(dest, n) * 2^k, n)
                            /\ out.flags.CF = ((Low(dest, n) * 2^k) \div 2^n) % 2
    BY <1>7, <1>8 DEF Scaled
  <2>2. QED
    BY <1>1, <1>3, <1>4, <1>8, <2>1 DEF ShiftsScale, Did
<1>9. CASE op = "shr"
  <2>1. k \in 1 .. n - 1 => /\ out.val = Low(dest, n) \div 2^k
                            /\ out.flags.CF = (Low(dest, n) \div 2^(k - 1)) % 2
    BY <1>7, <1>9 DEF Scaled
  <2>2. QED
    BY <1>1, <1>3, <1>4, <1>9, <2>1 DEF ShiftsScale, Did
<1>10. CASE op = "sar"
  <2>1. k \in 1 .. n - 1 => /\ AsInt(out.val, n) = AsInt(dest, n) \div 2^k
                            /\ out.flags.CF = (AsInt(dest, n) \div 2^(k - 1)) % 2
    BY <1>7, <1>10 DEF Scaled
  <2>2. QED
    BY <1>1, <1>3, <1>4, <1>10, <2>1 DEF ShiftsScale, Did
<1>11. QED
  BY <1>8, <1>9, <1>10

(* Every shift that runs.                                                  *)
LEMMA ShiftScales ==
  ASSUME Byte = 8, Shift
  PROVE  ShiftsScale'
<1>1. PICK f \in Flags, src \in Values, dest \in Values, n \in Sizes :
        \/ Run("shl", f, src, dest, n, alu_shl(f, src, dest, n))
        \/ Run("sal", f, src, dest, n, alu_sal(f, src, dest, n))
        \/ Run("shr", f, src, dest, n, alu_shr(f, src, dest, n))
        \/ Run("sar", f, src, dest, n, alu_sar(f, src, dest, n))
  BY DEF Shift
<1>2. f \in FlagRecord /\ src \in Int /\ dest \in Int
  BY OperandsAre
<1>3. /\ Scaled("shl", src, dest, n, alu_shl(f, src, dest, n))
      /\ Scaled("sal", src, dest, n, alu_sal(f, src, dest, n))
      /\ Scaled("shr", src, dest, n, alu_shr(f, src, dest, n))
      /\ Scaled("sar", src, dest, n, alu_sar(f, src, dest, n))
  BY <1>2, LeftScales, RightScales
<1>4. QED
  BY <1>1, <1>2, <1>3, StepScales

(* PairsAreExact is about other instructions than these.                   *)
LEMMA NoPair ==
  ASSUME NEW op, op \notin {"cbw", "movs", "cltd", "mul", "imul", "div", "idiv"},
         NEW f, NEW src, NEW dest, NEW n, NEW out, Run(op, f, src, dest, n, out)
  PROVE  PairsAreExact'
<1>1. last'.op = op
  BY DEF Run
<1>2. QED
  BY <1>1 DEF PairsAreExact, Did

(* A smaller operand that is extended keeps its value as an integer.       *)
LEMMA ExtensionKeeps ==
  ASSUME Byte = 8, NEW n \in Sizes, NEW m \in Sizes, m < n, NEW x \in Int
  PROVE  AsInt(Low(sign_ext(x, m), n), n) = AsInt(x, m)
<1> DEFINE a == AsInt(x, m)
           e == sign_ext(x, m)
           l == Low(x, m)
           K == 2^m
           J == 2^(m - 1)
           H == 2^(n - 1)
<1>1. /\ e = (IF l < J THEN l ELSE (l - K) + Word) /\ e \in Int
      /\ a = (IF l < J THEN l ELSE l - K) /\ a \in Int /\ a >= -J /\ a < J
  BY ExtIs, AsIntIs
<1>2. J \in Int /\ H \in Int /\ K \in Int /\ Word \in Int /\ l \in Int
  BY Widths, LowIs
<1>3. J <= H
  <2>1. Sizes = {8, 16, 32}
    BY DEF Sizes, Host
  <2> HIDE DEF J, H
  <2>2. (m = 8 \/ m = 16 \/ m = 32) /\ (n = 8 \/ n = 16 \/ n = 32) /\ m < n
    BY <2>1
  <2>3. (m = 8 \/ m = 16) /\ (n = 16 \/ n = 32) /\ (m = 16 => n = 32)
    BY <2>2, SMT
  <2>4. 2^7 <= 2^15 /\ 2^7 <= 2^31 /\ 2^15 <= 2^31
    BY SMT
  <2>5. CASE m = 8 /\ n = 16
    <3>1. m - 1 = 7 /\ n - 1 = 15
      BY <2>5, SMT
    <3>2. QED
      BY <2>4, <3>1 DEF J, H
  <2>6. CASE m = 8 /\ n = 32
    <3>1. m - 1 = 7 /\ n - 1 = 31
      BY <2>6, SMT
    <3>2. QED
      BY <2>4, <3>1 DEF J, H
  <2>7. CASE m = 16 /\ n = 32
    <3>1. m - 1 = 15 /\ n - 1 = 31
      BY <2>7, SMT
    <3>2. QED
      BY <2>4, <3>1 DEF J, H
  <2>8. QED
    BY <2>3, <2>5, <2>6, <2>7
<1>4. Low(e, n) = Low(a, n)
  <2>1. PICK k \in Int : k >= 1 /\ Word = 2^n * k
    BY Widths
  <2>2. CASE l < J
    BY <1>1, <2>2
  <2>3. CASE ~(l < J)
    <3>1. e = a + (2^n * k)
      <4> HIDE DEF e, a, l, J, K
      <4>1. e = (l - K) + Word /\ a = l - K
        BY <1>1, <2>3
      <4>2. QED
        BY <2>1, <4>1
    <3> HIDE DEF e, a
    <3>2. QED
      BY <1>1, <2>1, <3>1, LowOfSum
  <2>4. QED
    BY <2>2, <2>3
<1>5. a >= -H /\ a < H
  <2> HIDE DEF a, J, H
  <2>1. QED
    BY <1>1, <1>2, <1>3
<1> HIDE DEF a
<1>6. AsInt(Low(a, n), n) = a
  BY <1>1, <1>5, FitsComesBack
<1>7. QED
  BY <1>4, <1>6 DEF a

(* cltd of a whole word is its sign in every bit.                          *)
LEMMA CltdIs ==
  ASSUME Byte = 8, NEW x \in Int
  PROVE  /\ Host \in Sizes
         /\ (AsInt(cltd(x, Host), Host) * 2^Host) + Low(x, Host) = AsInt(x, Host)
<1> DEFINE M == 2^Host
           H == 2^(Host - 1)
           l == Low(x, Host)
<1>1. Host \in Sizes
  BY DEF Sizes
<1>2. /\ M \in Int /\ H \in Int /\ H > 1 /\ M = H + H /\ l \in Int /\ l >= 0 /\ l < M
      /\ AsInt(x, Host) = (IF l < H THEN l ELSE l - M)
  BY <1>1, Widths, LowIs, AsIntIs
<1>3. Low(l, Host) = l
  <2> HIDE DEF l
  <2>1. l = (M * 0) + l
    BY <1>2, SMT
  <2>2. QED
    BY <1>1, <1>2, <2>1, LowUnique
<1>4. AsInt(l, Host) = IF l < H THEN l ELSE l - M
  BY <1>3 DEF AsInt
<1>5. AsInt(0, Host) = 0 /\ AsInt(M - 1, Host) = -1
  <2>1. 0 >= -H /\ 0 < H /\ -1 >= -H /\ -1 < H
    BY <1>2
  <2>2. AsInt(0, Host) = 0 /\ AsInt(-1, Host) = -1
    BY <1>1, <2>1, FitsComesBack
  <2>3. Low(M - 1, Host) = Low(-1, Host)
    <3>1. (M - 1) = -1 + (2^Host * 1)
      BY <1>2
    <3>2. QED
      BY <1>1, <1>2, <3>1, LowOfSum
  <2>4. QED
    BY <2>2, <2>3 DEF AsInt
<1>6. cltd(x, Host) = IF AsInt(l, Host) < 0 THEN M - 1 ELSE 0
  BY DEF cltd
<1>7. (AsInt(cltd(x, Host), Host) * M) + l = AsInt(x, Host)
  <2>1. CASE l < H
    <3>1. cltd(x, Host) = 0
      <4> HIDE DEF l, M, H
      <4>1. QED
        BY <1>2, <1>4, <1>6, <2>1
    <3> HIDE DEF l, M, H
    <3>2. QED
      BY <1>2, <1>5, <2>1, <3>1, SMT
  <2>2. CASE ~(l < H)
    <3>1. cltd(x, Host) = M - 1
      <4> HIDE DEF l, M, H
      <4>1. QED
        BY <1>2, <1>4, <1>6, <2>2
    <3> HIDE DEF l, M, H
    <3>2. QED
      BY <1>2, <1>5, <2>2, <3>1, SMT
  <2>3. QED
    BY <2>1, <2>2
<1>8. QED
  BY <1>1, <1>7

(* Every conversion that runs.                                             *)
LEMMA ConvertIsExact ==
  ASSUME Byte = 8, Convert
  PROVE  PairsAreExact'
<1>1. PICK x \in Values, n \in Sizes \ {Byte} :
        \/ Run("cbw", {}, x, 0, n, cbw_a(x, n))
        \/ Run("cltd", {}, x, 0, n, cltd(x, n))
        \/ \E m \in Sizes : m < n /\ Run("movs", m, x, 0, n, mov_srm2r(x, m, n))
  BY DEF Convert
<1>2. x \in Int
  BY OperandsAre
<1>3. \A z, w : AsInteger(z, w) = AsInt(z, w)
  BY DEF AsInteger, AsInt, Low
<1>4. CASE Run("cbw", {}, x, 0, n, cbw_a(x, n))
  <2>1. last'.op = "cbw" /\ last'.src = x /\ last'.n = n /\ last'.out = cbw_a(x, n)
    BY <1>4 DEF Run
  <2>2. n \div 2 \in Sizes /\ n \div 2 < n
    <3>1. Sizes = {8, 16, 32}
      BY DEF Sizes, Host
    <3>2. n = 16 \/ n = 32
      BY <3>1
    <3>3. 16 \div 2 = 8 /\ 32 \div 2 = 16
      BY SMT
    <3>4. QED
      BY <3>1, <3>2, <3>3
  <2>3. AsInt(cbw_a(x, n), n) = AsInt(x, n \div 2)
    BY <1>2, <2>2, ExtensionKeeps DEF cbw_a
  <2>4. S(Out)' = AsInt(cbw_a(x, n), n) /\ AsInteger(last.src, N \div 2)' = AsInt(x, n \div 2)
    BY <1>3, <2>1 DEF S, N, Out
  <2>5. QED
    BY <2>1, <2>3, <2>4 DEF PairsAreExact, Did
<1>5. CASE Run("cltd", {}, x, 0, n, cltd(x, n))
  <2>1. last'.op = "cltd" /\ last'.src = x /\ last'.n = n /\ last'.out = cltd(x, n)
    BY <1>5 DEF Run
  <2>2. N' = n /\ S(Out)' = AsInt(cltd(x, n), n) /\ S(last.src)' = AsInt(x, n) /\ U(last.src)' = Low(x, n)
    BY <1>3, <2>1 DEF S, N, Out, U, Low
  <2>3. n = Host => (AsInt(cltd(x, n), n) * 2^n) + Low(x, n) = AsInt(x, n)
    BY <1>2, CltdIs
  <2>4. QED
    BY <2>1, <2>2, <2>3 DEF PairsAreExact, Did
<1>6. ASSUME NEW m \in Sizes, m < n, Run("movs", m, x, 0, n, mov_srm2r(x, m, n))
      PROVE  PairsAreExact'
  <2>1. /\ last'.op = "movs" /\ last'.f = m /\ last'.src = x /\ last'.n = n
        /\ last'.out = mov_srm2r(x, m, n)
    BY <1>6 DEF Run
  <2>2. AsInt(mov_srm2r(x, m, n), n) = AsInt(x, m)
    BY <1>2, <1>6, ExtensionKeeps DEF mov_srm2r
  <2>3. S(Out)' = AsInt(mov_srm2r(x, m, n), n) /\ AsInteger(last.src, last.f)' = AsInt(x, m)
    BY <1>3, <2>1 DEF S, N, Out
  <2>4. QED
    BY <2>1, <2>2, <2>3 DEF PairsAreExact, Did
<1>7. QED
  BY <1>1, <1>4, <1>5, <1>6

(* A product of two integers of n bits, by the squares it stays within.    *)
LEMMA ProductFits ==
  ASSUME NEW s \in Int, NEW d \in Int, NEW H \in Int, H >= 1, s >= -H, s < H, d >= -H, d < H
  PROVE  (s * d) \in Int /\ s * d <= H * H /\ s * d >= -(H * H) /\ H * H < (H + H) * H
<1>1. ASSUME NEW a \in Int, NEW b \in Int, a >= 0, a <= H, b >= 0, b <= H
      PROVE  (a * b) \in Int /\ a * b >= 0 /\ a * b <= H * H
  <2>1. a * b <= H * b
    BY <1>1, SMT
  <2>2. H * b <= H * H
    BY <1>1, SMT
  <2>3. (a * b) \in Int /\ a * b >= 0
    BY <1>1, SMT
  <2>4. (H * b) \in Int /\ (H * H) \in Int
    BY <1>1, SMT
  <2>5. QED
    BY <2>1, <2>2, <2>3, <2>4
<1> DEFINE p == s * d
<1>2. CASE s >= 0 /\ d >= 0
  <2>1. p >= 0 /\ p <= H * H
    BY <1>1, <1>2
  <2>2. QED
    BY <2>1, SMT
<1>3. CASE s >= 0 /\ d < 0
  <2>1. s * (-d) >= 0 /\ s * (-d) <= H * H
    BY <1>1, <1>3
  <2>2. QED
    BY <2>1, SMT
<1>4. CASE s < 0 /\ d >= 0
  <2>1. (-s) * d >= 0 /\ (-s) * d <= H * H
    BY <1>1, <1>4
  <2>2. QED
    BY <2>1, SMT
<1>5. CASE s < 0 /\ d < 0
  <2>1. (-s) * (-d) >= 0 /\ (-s) * (-d) <= H * H
    BY <1>1, <1>5
  <2>2. QED
    BY <2>1, SMT
<1>6. QED
  BY <1>2, <1>3, <1>4, <1>5

(* The quotient by M = 2 H of a number within H times M on either side.    *)
LEMMA HighFits ==
  ASSUME NEW x \in Int, NEW H \in Int, H >= 1, NEW M \in Int, M = H + H, x < M * H, x >= -(M * H)
  PROVE  x \div M >= -H /\ x \div M < H
<1> DEFINE q == x \div M
           r == x % M
<1>1. M > 0 /\ q \in Int /\ r \in Int /\ r >= 0 /\ r < M /\ x = (M * q) + r
  <2>1. M > 0
    BY SMT
  <2>2. QED
    BY <2>1, ModIs
<1> HIDE DEF q, r
<1>2. q < H
  <2>1. SUFFICES ASSUME q >= H PROVE FALSE
    BY <1>1
  <2>2. M * q >= M * H
    BY <1>1, <2>1, SMT
  <2>3. QED
    BY <1>1, <2>2, SMT
<1>3. q >= -H
  <2>1. SUFFICES ASSUME q + 1 <= -H PROVE FALSE
    BY <1>1
  <2>2. M * (q + 1) <= M * (-H)
    BY <1>1, <2>1, SMT
  <2>3. M * (q + 1) = (M * q) + M /\ M * (-H) = -(M * H)
    BY <1>1, SMT
  <2>4. QED
    BY <1>1, <2>2, <2>3, SMT
<1>4. QED
  BY <1>2, <1>3 DEF q

(* The register pair after mul, and its flags.                             *)
LEMMA MulIs ==
  ASSUME Byte = 8, NEW n \in Sizes, NEW src \in Int, NEW dest \in Int, NEW f \in FlagRecord
  PROVE  LET out == mul_rm2a(f, src, dest, n)
         IN /\ (out.hi * 2^n) + out.lo = Low(dest, n) * Low(src, n)
            /\ out.flags.CF = Flag(out.hi # 0) /\ out.flags.OF = Flag(out.hi # 0)
<1> DEFINE M == 2^n
           a == Low(src, n)
           b == Low(dest, n)
           p == a * b
           q == p \div M
           l == Low(p, n)
           c == Flag(q # 0)
           g == [[f EXCEPT !.CF = c] EXCEPT !.OF = c]
           out == mul_rm2a(f, src, dest, n)
<1>1. M \in Int /\ a \in Int /\ b \in Int
  BY Widths, LowIs
<1>2. out.lo = l /\ out.hi = q /\ out.flags = g
  BY DEF mul_rm2a, alu_mul
<1>3. p \in Int
  <2> HIDE DEF a, b
  <2>1. QED
    BY <1>1
<1> HIDE DEF p
<1>4. q \in Int /\ l \in Int /\ p = (M * q) + l
  BY <1>3, LowIs
<1>5. g.CF = c /\ g.OF = c
  <2> HIDE DEF c
  <2>1. QED
    BY DEF FlagRecord
<1> HIDE DEF M, q, l, g, a, b
<1>6. (q * M) + l = b * a
  <2>1. (q * M) + l = p
    BY <1>1, <1>3, <1>4, SMT
  <2>2. p = b * a
    BY <1>1, SMT DEF p
  <2>3. QED
    BY <2>1, <2>2
<1> HIDE DEF out
<1>7. /\ (out.hi * M) + out.lo = b * a
      /\ out.flags.CF = Flag(out.hi # 0) /\ out.flags.OF = Flag(out.hi # 0)
  BY <1>2, <1>5, <1>6
<1>8. QED
  BY <1>7 DEF out, M, a, b

(* The register pair after imul.                                           *)
LEMMA ImulIs ==
  ASSUME Byte = 8, NEW n \in Sizes, NEW src \in Int, NEW dest \in Int, NEW f
  PROVE  LET out == imul_rm2a(f, src, dest, n)
         IN (AsInt(out.hi, n) * 2^n) + out.lo = AsInt(dest, n) * AsInt(src, n)
<1> DEFINE M == 2^n
           H == 2^(n - 1)
           s == AsInt(src, n)
           d == AsInt(dest, n)
           p == s * d
           q == p \div M
           l == Low(p, n)
           out == imul_rm2a(f, src, dest, n)
<1>1. /\ M \in Int /\ H \in Int /\ H > 1 /\ M = H + H
      /\ s \in Int /\ s >= -H /\ s < H /\ d \in Int /\ d >= -H /\ d < H
  BY Widths, AsIntIs
<1>2. out.lo = l /\ out.hi = Low(q, n)
  BY DEF imul_rm2a, alu_imul
<1>3. p \in Int /\ p < M * H /\ p >= -(M * H)
  <2> HIDE DEF s, d, M, H
  <2>1. p \in Int /\ p <= H * H /\ p >= -(H * H) /\ H * H < (H + H) * H
    <3>1. H >= 1
      BY <1>1
    <3>2. QED
      BY <1>1, <3>1, ProductFits
  <2>2. (H * H) \in Int /\ (M * H) \in Int /\ H * H < M * H
    BY <1>1, <2>1
  <2> HIDE DEF p
  <2>3. QED
    BY <2>1, <2>2
<1> HIDE DEF p
<1>4. q \in Int /\ l \in Int /\ p = (M * q) + l
  BY <1>3, LowIs
<1>5. q >= -H /\ q < H
  <2> HIDE DEF M, H
  <2>1. H >= 1
    BY <1>1
  <2>2. QED
    BY <1>1, <1>3, <2>1, HighFits
<1> HIDE DEF q, l
<1>6. AsInt(Low(q, n), n) = q
  BY <1>4, <1>5, FitsComesBack
<1> HIDE DEF M, H, s, d, out
<1>7. (AsInt(out.hi, n) * M) + out.lo = d * s
  <2>1. (q * M) + l = p
    BY <1>1, <1>3, <1>4, SMT
  <2>2. p = d * s
    BY <1>1, SMT DEF p
  <2>3. QED
    BY <1>2, <1>6, <2>1, <2>2
<1>8. QED
  BY <1>7 DEF out, M, s, d

(* In terms of the operands that the step leaves in last.                   *)
LEMMA MultiplyIsExact ==
  ASSUME Byte = 8, Multiply
  PROVE  PairsAreExact'
<1>1. PICK f \in Flags, src \in Values, dest \in Values, n \in Sizes :
        \/ Run("mul", f, src, dest, n, mul_rm2a(f, src, dest, n))
        \/ Run("imul", f, src, dest, n, imul_rm2a(f, src, dest, n))
  BY DEF Multiply
<1>2. f \in FlagRecord /\ src \in Int /\ dest \in Int
  BY OperandsAre
<1>3. \A z, w : AsInteger(z, w) = AsInt(z, w)
  BY DEF AsInteger, AsInt, Low
<1>4. CASE Run("mul", f, src, dest, n, mul_rm2a(f, src, dest, n))
  <2> DEFINE out == mul_rm2a(f, src, dest, n)
  <2>1. /\ last'.op = "mul" /\ last'.src = src /\ last'.dest = dest /\ last'.n = n
        /\ last'.out = out
    BY <1>4 DEF Run
  <2>2. /\ (out.hi * 2^n) + out.lo = Low(dest, n) * Low(src, n)
        /\ out.flags.CF = Flag(out.hi # 0) /\ out.flags.OF = Flag(out.hi # 0)
    BY <1>2, MulIs
  <2> HIDE DEF out
  <2>3. Out' = out /\ N' = n /\ U(last.src)' = Low(src, n) /\ U(last.dest)' = Low(dest, n)
    BY <2>1 DEF Out, N, U, Low
  <2>4. QED
    BY <2>1, <2>2, <2>3 DEF PairsAreExact, Did
<1>5. CASE Run("imul", f, src, dest, n, imul_rm2a(f, src, dest, n))
  <2> DEFINE out == imul_rm2a(f, src, dest, n)
  <2>1. /\ last'.op = "imul" /\ last'.src = src /\ last'.dest = dest /\ last'.n = n
        /\ last'.out = out
    BY <1>5 DEF Run
  <2>2. (AsInt(out.hi, n) * 2^n) + out.lo = AsInt(dest, n) * AsInt(src, n)
    BY <1>2, ImulIs
  <2> HIDE DEF out
  <2>3. /\ Out' = out /\ N' = n /\ S(last.src)' = AsInt(src, n) /\ S(last.dest)' = AsInt(dest, n)
        /\ S(Out.hi)' = AsInt(out.hi, n)
    BY <1>3, <2>1 DEF Out, N, S
  <2>4. QED
    BY <2>1, <2>2, <2>3 DEF PairsAreExact, Did
<1>6. QED
  BY <1>1, <1>4, <1>5

(* The quotient cut toward 0 and its remainder, which has the sign of the  *)
(* dividend.                                                               *)
LEMMA IdivIs ==
  ASSUME NEW s \in Int, s # 0, NEW d \in Int
  PROVE  LET q == alu_idiv(s, d)
             r == alu_imod(s, d)
         IN /\ q \in Int /\ r \in Int /\ r = d - (s * q)
            /\ Abs(r) < Abs(s) /\ (r # 0 => (r < 0) = (d < 0))
<1> DEFINE a == Abs(s)
           b == Abs(d)
           p == b \div a
           t == b % a
           q == alu_idiv(s, d)
           r == alu_imod(s, d)
<1>1. /\ a \in Int /\ a > 0 /\ b \in Int /\ b >= 0
      /\ a = (IF s < 0 THEN -s ELSE s) /\ b = (IF d < 0 THEN -d ELSE d)
  BY DEF Abs
<1>2. q = (IF (d < 0) = (s < 0) THEN p ELSE -p) /\ r = d - (s * q)
  BY DEF alu_idiv, alu_imod
<1> HIDE DEF a, b, q, r
<1>3. p \in Int /\ t \in Int /\ t >= 0 /\ t < a /\ b = (a * p) + t
  BY <1>1, ModIs
<1> HIDE DEF p, t
<1>4. q \in Int /\ r \in Int
  <2>1. q \in Int
    BY <1>2, <1>3
  <2>2. QED
    BY <1>2, <2>1
<1>5. r = IF d < 0 THEN -t ELSE t
  <2>1. CASE d < 0 /\ s < 0
    <3>1. q = p /\ a = -s /\ b = -d
      BY <1>1, <1>2, <2>1
    <3>2. -d = ((-s) * p) + t /\ r = d - (s * p)
      BY <1>2, <1>3, <3>1
    <3>3. (-s) * p = -(s * p) /\ (s * p) \in Int
      BY <1>3, SMT
    <3>4. QED
      BY <1>3, <2>1, <3>2, <3>3
  <2>2. CASE d < 0 /\ ~(s < 0)
    <3>1. q = -p /\ a = s /\ b = -d
      BY <1>1, <1>2, <2>2
    <3>2. -d = (s * p) + t /\ r = d - (s * (-p))
      BY <1>2, <1>3, <3>1
    <3>3. s * (-p) = -(s * p) /\ (s * p) \in Int
      BY <1>3, SMT
    <3>4. QED
      BY <1>3, <2>2, <3>2, <3>3
  <2>3. CASE ~(d < 0) /\ s < 0
    <3>1. q = -p /\ a = -s /\ b = d
      BY <1>1, <1>2, <2>3
    <3>2. d = ((-s) * p) + t /\ r = d - (s * (-p))
      BY <1>2, <1>3, <3>1
    <3>3. s * (-p) = -(s * p) /\ (-s) * p = -(s * p) /\ (s * p) \in Int
      BY <1>3, SMT
    <3>4. QED
      BY <1>3, <2>3, <3>2, <3>3
  <2>4. CASE ~(d < 0) /\ ~(s < 0)
    <3>1. q = p /\ a = s /\ b = d
      BY <1>1, <1>2, <2>4
    <3>2. d = (s * p) + t /\ r = d - (s * p) /\ (s * p) \in Int
      BY <1>2, <1>3, <3>1
    <3>3. QED
      BY <1>3, <2>4, <3>2
  <2>5. QED
    BY <2>1, <2>2, <2>3, <2>4
<1>6. Abs(r) < a /\ (r # 0 => (r < 0) = (d < 0))
  <2>1. Abs(r) = t
    BY <1>3, <1>5 DEF Abs
  <2>2. r # 0 => (r < 0) = (d < 0)
    <3>1. CASE d < 0
      BY <1>3, <1>5, <3>1
    <3>2. CASE ~(d < 0)
      BY <1>3, <1>5, <3>2
    <3>3. QED
      BY <3>1, <3>2
  <2>3. QED
    BY <1>3, <2>1, <2>2
<1>7. QED
  BY <1>2, <1>4, <1>6 DEF a, q, r

(* The register pair after div, of a dividend that fits its lower half.    *)
LEMMA DivIs ==
  ASSUME Byte = 8, NEW n \in Sizes, NEW src \in Int, NEW hi \in Int, NEW lo \in Int,
         Low(src, n) # 0, Low(hi, n) = 0
  PROVE  LET out == div_rm2a(src, hi, lo, n)
         IN (out.lo * Low(src, n)) + out.hi = Low(lo, n) /\ out.hi < Low(src, n)
<1> DEFINE M == 2^n
           a == Low(src, n)
           d == Low(lo, n)
           q == d \div a
           r == d % a
           out == div_rm2a(src, hi, lo, n)
<1>1. M \in Int /\ a \in Int /\ a > 0 /\ a < M /\ d \in Int /\ d >= 0 /\ d < M
  <2>1. M \in Int /\ a \in Int /\ a >= 0 /\ a < M /\ d \in Int /\ d >= 0 /\ d < M
    BY Widths, LowIs
  <2>2. a > 0
    BY <2>1
  <2>3. QED
    BY <2>1, <2>2
<1>2. (Low(hi, n) * 2^n) + Low(lo, n) = d
  BY <1>1
<1>3. out.lo = Low(d, n) \div a /\ out.hi = Low(r, n)
  BY <1>2 DEF div_rm2a, alu_div, alu_mod
<1> HIDE DEF a, d
<1>4. q \in Int /\ r \in Int /\ r >= 0 /\ r < a /\ d = (a * q) + r
  BY <1>1, ModIs
<1>5. Low(d, n) = d /\ Low(r, n) = r
  <2> HIDE DEF r
  <2>1. d = (2^n * 0) + d /\ r = (2^n * 0) + r /\ r < 2^n
    BY <1>1, <1>4
  <2>2. QED
    BY <1>1, <1>4, <2>1, LowUnique
<1>6. out.lo = q /\ out.hi = r
  BY <1>3, <1>5
<1> HIDE DEF q, r, out
<1>7. (q * a) + r = d
  BY <1>1, <1>4, SMT
<1>8. (out.lo * a) + out.hi = d /\ out.hi < a
  BY <1>4, <1>6, <1>7
<1>9. QED
  BY <1>8 DEF a, d, out

(* The register pair after idiv, when the quotient fits.                   *)
LEMMA IdivPairIs ==
  ASSUME Byte = 8, NEW n \in Sizes, NEW src \in Int, NEW hi \in Int, NEW lo \in Int,
         Low(src, n) # 0
  PROVE  LET out == idiv_rm2a(src, hi, lo, n)
             dividend == (AsInt(hi, n) * 2^n) + Low(lo, n)
             s == AsInt(src, n)
             q == alu_idiv(s, dividend)
         IN /\ q \in Int
            /\ q >= -(2^(n - 1)) /\ q < 2^(n - 1) =>
                 /\ (AsInt(out.lo, n) * s) + AsInt(out.hi, n) = dividend
                 /\ Abs(AsInt(out.hi, n)) < Abs(s)
                 /\ AsInt(out.hi, n) # 0 => (AsInt(out.hi, n) < 0) = (dividend < 0)
<1> DEFINE M == 2^n
           H == 2^(n - 1)
           s == AsInt(src, n)
           a == AsInt(hi, n)
           b == Low(lo, n)
           d == (a * M) + b
           q == alu_idiv(s, d)
           r == alu_imod(s, d)
           out == idiv_rm2a(src, hi, lo, n)
<1>1. /\ M \in Int /\ H \in Int /\ M = H + H /\ H > 1 /\ s \in Int /\ s >= -H /\ s < H
      /\ a \in Int /\ b \in Int
  BY Widths, LowIs, AsIntIs
<1>2. s # 0
  <2> DEFINE l == Low(src, n)
  <2>1. l \in Int /\ l # 0 /\ l < M /\ s = IF l < H THEN l ELSE l - M
    BY LowIs, AsIntIs
  <2> HIDE DEF l, M, H, s
  <2>2. QED
    BY <1>1, <2>1
<1>3. out.lo = Low(q, n) /\ out.hi = Low(r, n)
  BY DEF idiv_rm2a
<1>4. d \in Int
  <2> HIDE DEF M, a, b
  <2>1. QED
    BY <1>1
<1> HIDE DEF s, d
<1>5. /\ q \in Int /\ r \in Int /\ r = d - (s * q)
      /\ Abs(r) < Abs(s) /\ (r # 0 => (r < 0) = (d < 0))
  BY <1>1, <1>2, <1>4, IdivIs
<1> HIDE DEF q, r
<1>6. r >= -H /\ r < H
  <2> HIDE DEF H
  <2>1. QED
    BY <1>1, <1>5 DEF Abs
<1>7. AsInt(Low(r, n), n) = r
  BY <1>5, <1>6, FitsComesBack
<1>8. ASSUME q >= -H, q < H
      PROVE  /\ (AsInt(out.lo, n) * s) + AsInt(out.hi, n) = d
             /\ Abs(AsInt(out.hi, n)) < Abs(s)
             /\ AsInt(out.hi, n) # 0 => (AsInt(out.hi, n) < 0) = (d < 0)
  <2>1. AsInt(Low(q, n), n) = q
    BY <1>5, <1>8, FitsComesBack
  <2> HIDE DEF out
  <2>2. (q * s) + r = d
    BY <1>1, <1>4, <1>5, SMT
  <2>3. QED
    BY <1>3, <1>5, <1>7, <2>1, <2>2
<1>9. QED
  BY <1>5, <1>8 DEF M, H, s, a, b, d, q, out

(* Every division that runs.                                               *)
LEMMA DivideIsExact ==
  ASSUME Byte = 8, Divide
  PROVE  PairsAreExact'
<1>1. PICK src \in Dividends, hi \in Dividends, lo \in Dividends, n \in Sizes :
        /\ Low(src, n) # 0
        /\ \/ Run("div", hi, src, lo, n, div_rm2a(src, hi, lo, n))
           \/ Run("idiv", hi, src, lo, n, idiv_rm2a(src, hi, lo, n))
  BY DEF Divide
<1>2. src \in Int /\ hi \in Int /\ lo \in Int
  <2>1. Word \in Int
    <3>1. 8 \in Sizes
      BY DEF Sizes
    <3>2. QED
      BY <3>1, Widths
  <2>2. QED
    BY <2>1, OperandAssumption
<1>3. \A z, w : AsInteger(z, w) = AsInt(z, w)
  BY DEF AsInteger, AsInt, Low
<1>4. CASE Run("div", hi, src, lo, n, div_rm2a(src, hi, lo, n))
  <2> DEFINE out == div_rm2a(src, hi, lo, n)
  <2>1. /\ last'.op = "div" /\ last'.f = hi /\ last'.src = src /\ last'.dest = lo
        /\ last'.n = n /\ last'.out = out
    BY <1>4 DEF Run
  <2>2. Low(hi, n) = 0 => (out.lo * Low(src, n)) + out.hi = Low(lo, n) /\ out.hi < Low(src, n)
    BY <1>1, <1>2, DivIs
  <2> HIDE DEF out
  <2>3. /\ Out' = out /\ U(last.f)' = Low(hi, n) /\ U(last.src)' = Low(src, n)
        /\ U(last.dest)' = Low(lo, n)
    BY <2>1 DEF Out, N, U, Low
  <2>4. QED
    BY <2>1, <2>2, <2>3 DEF PairsAreExact, Did
<1>5. CASE Run("idiv", hi, src, lo, n, idiv_rm2a(src, hi, lo, n))
  <2> DEFINE out == idiv_rm2a(src, hi, lo, n)
             s == AsInt(src, n)
             d == (AsInt(hi, n) * 2^n) + Low(lo, n)
             q == alu_idiv(s, d)
             H == 2^(n - 1)
  <2>1. /\ last'.op = "idiv" /\ last'.f = hi /\ last'.src = src /\ last'.dest = lo
        /\ last'.n = n /\ last'.out = out
    BY <1>5 DEF Run
  <2>2. /\ q \in Int
        /\ q >= -H /\ q < H =>
             /\ (AsInt(out.lo, n) * s) + AsInt(out.hi, n) = d
             /\ Abs(AsInt(out.hi, n)) < Abs(s)
             /\ AsInt(out.hi, n) # 0 => (AsInt(out.hi, n) < 0) = (d < 0)
    BY <1>1, <1>2, IdivPairIs
  <2>3. q \in -H .. H - 1 => q >= -H /\ q < H
    <3>1. H \in Int
      BY Widths
    <3> HIDE DEF q, H
    <3>2. QED
      BY <2>2, <3>1
  <2> HIDE DEF out
  <2>4. /\ Out' = out /\ N' = n /\ S(last.src)' = s
        /\ S(Out.hi)' = AsInt(out.hi, n) /\ S(Out.lo)' = AsInt(out.lo, n)
        /\ (S(last.f) * 2^N + U(last.dest))' = d
    BY <1>3, <2>1 DEF Out, N, U, S, Low
  <2>5. alu_idiv(S(last.src), S(last.f) * 2^N + U(last.dest))' = q
    BY <2>4
  <2> HIDE DEF s, d, q, H
  <2>6. QED
    BY <2>1, <2>2, <2>3, <2>4, <2>5 DEF PairsAreExact, Did, H
<1>6. QED
  BY <1>1, <1>4, <1>5

(* A step of another action runs no shift and no product.                  *)
LEMMA OthersScaleNothing ==
  ASSUME AddSub \/ Multiply \/ Convert \/ Divide \/ MemoryOperand \/ RegisterWrite
  PROVE  ShiftsScale'
<1>1. CASE AddSub
  BY <1>1, NoShift DEF AddSub
<1>2. CASE Multiply
  BY <1>2, NoShift DEF Multiply
<1>3. CASE Convert
  BY <1>3, NoShift DEF Convert
<1>4. CASE Divide
  BY <1>4, NoShift DEF Divide
<1>5. CASE MemoryOperand
  BY <1>5, NoShift DEF MemoryOperand
<1>6. CASE RegisterWrite
  BY <1>6, NoShift DEF RegisterWrite
<1>7. QED
  BY <1>1, <1>2, <1>3, <1>4, <1>5, <1>6

(* Nor is one of these a product, a division or a conversion.              *)
LEMMA OthersPairNothing ==
  ASSUME AddSub \/ OneOperand \/ Logic \/ Shift \/ MemoryOperand \/ RegisterWrite
  PROVE  PairsAreExact'
<1>1. CASE AddSub
  BY <1>1, NoPair DEF AddSub
<1>2. CASE OneOperand
  BY <1>2, NoPair DEF OneOperand
<1>3. CASE Logic
  BY <1>3, NoPair DEF Logic
<1>4. CASE Shift
  BY <1>4, NoPair DEF Shift
<1>5. CASE MemoryOperand
  BY <1>5, NoPair DEF MemoryOperand
<1>6. CASE RegisterWrite
  BY <1>6, NoPair DEF RegisterWrite
<1>7. QED
  BY <1>1, <1>2, <1>3, <1>4, <1>5, <1>6

(* alu.c computes with the integers: for every operand, operand size and   *)
(* flag before, each of its operations and of the instructions that call   *)
(* it leaves the result, the register pair and the flags that the          *)
(* operation means in the integers and the natural numbers of the width.   *)
THEOREM AluIsRight ==
  ASSUME Byte = 8
  PROVE  IntegerSpec => []AluIsExact
<1>1. last = Nothing => ShiftsScale /\ PairsAreExact
  BY DEF Nothing, ShiftsScale, PairsAreExact, Did
<1>2. IntegerStep => ShiftsScale' /\ PairsAreExact'
  <2>1. IntegerStep => ShiftsScale'
    BY LogicScales, OneOperandScales, ShiftScales, OthersScaleNothing DEF IntegerStep
  <2>2. IntegerStep => PairsAreExact'
    BY ConvertIsExact, MultiplyIsExact, DivideIsExact, OthersPairNothing DEF IntegerStep
  <2>3. QED
    BY <2>1, <2>2
<1>3. ShiftsScale /\ PairsAreExact /\ last' = last => ShiftsScale' /\ PairsAreExact'
  <2>1. last' = last => (ShiftsScale <=> ShiftsScale')
    BY DEF ShiftsScale, Did, In, Out, N, U, S
  <2>2. last' = last => (PairsAreExact <=> PairsAreExact')
    BY DEF PairsAreExact, Did, Out, N, U, S
  <2>3. QED
    BY <2>1, <2>2
<1>4. (ShiftsScale /\ PairsAreExact) /\ [IntegerStep]_last => (ShiftsScale /\ PairsAreExact)'
  BY <1>2, <1>3
<1>5. IntegerSpec => [](ShiftsScale /\ PairsAreExact)
  BY <1>1, <1>4, PTL DEF IntegerSpec
<1>6. SumsAreExact /\ (ShiftsScale /\ PairsAreExact) => AluIsExact
  BY DEF AluIsExact
<1>7. QED
  BY <1>5, <1>6, SumsAreRight, PTL
-----------------------------------------------------------------------------
(* Machines of the types of the code.                                      *)
Words == 0 .. Word - 1
EflagsRecords == [CF : 0 .. 1, ZF : 0 .. 1, INTR : 0 .. 1]
Machines ==
  [gpr : [Registers -> Words], eip : Words, cs : 0 .. 2^(2 * Byte) - 1, eflags : EflagsRecords,
   mem : [Words -> 0 .. 2^Byte - 1]]

(* A machine is its five parts.                                            *)
LEMMA FieldsAre ==
  ASSUME NEW m \in Machines
  PROVE  /\ m.gpr \in [Registers -> Words] /\ m.eip \in Words /\ m.cs \in 0 .. 2^(2 * Byte) - 1
         /\ m.eflags \in EflagsRecords /\ m.mem \in [Words -> 0 .. 2^Byte - 1]
         /\ m = [gpr |-> m.gpr, eip |-> m.eip, cs |-> m.cs, eflags |-> m.eflags, mem |-> m.mem]
BY DEF Machines

(* Five parts of the right kind make a machine.                            *)
LEMMA MachineFrom ==
  ASSUME NEW g \in [Registers -> Words], NEW e \in Words, NEW c \in 0 .. 2^(2 * Byte) - 1,
         NEW f \in EflagsRecords, NEW x \in [Words -> 0 .. 2^Byte - 1]
  PROVE  [gpr |-> g, eip |-> e, cs |-> c, eflags |-> f, mem |-> x] \in Machines
BY DEF Machines

(* An exchange of one part, written out.                                   *)
LEMMA Updates ==
  ASSUME NEW m \in Machines, NEW g, NEW e, NEW x
  PROVE  /\ [m EXCEPT !.gpr = g] = [gpr |-> g, eip |-> m.eip, cs |-> m.cs, eflags |-> m.eflags, mem |-> m.mem]
         /\ [m EXCEPT !.eip = e] = [gpr |-> m.gpr, eip |-> e, cs |-> m.cs, eflags |-> m.eflags, mem |-> m.mem]
         /\ [m EXCEPT !.mem = x] = [gpr |-> m.gpr, eip |-> m.eip, cs |-> m.cs, eflags |-> m.eflags, mem |-> x]
<1>1. m = [gpr |-> m.gpr, eip |-> m.eip, cs |-> m.cs, eflags |-> m.eflags, mem |-> m.mem]
  BY FieldsAre
<1> DEFINE G == m.gpr
           E == m.eip
           C == m.cs
           F == m.eflags
           M == m.mem
<1> HIDE DEF G, E, C, F, M
<1>2. QED
  BY <1>1 DEF G, E, C, F, M

(* The bytes of v stand at address a.                                      *)
Holds(m, a, len, v) == \A i \in 0 .. len - 1 : m.mem[a + i] = Low(v \div 2^(Byte * i), Byte)

(* What differs from x to y neither moves the stack nor changes it from    *)
(* address at on.                                                          *)
Same(x, y, at) ==
  /\ Esp(y) = Esp(x) /\ y.gpr[REG_EBP] = x.gpr[REG_EBP] /\ y.cs = x.cs
  /\ \A a \in at .. Word - 1 : y.mem[a] = x.mem[a]

(* The numbers of the code's widths.                                       *)
LEMMA WordIs ==
  ASSUME Byte = 8
  PROVE  /\ Word \in Int /\ Word > 65536 /\ Word = 65536 * 65536 /\ Word = 2^32 /\ 2^Byte = 256 /\ 2^(2 * Byte) = 65536
         /\ 2^(Byte * 0) = 1 /\ 2^(Byte * 1) = 256 /\ 2^(Byte * 2) = 65536 /\ 2^(Byte * 3) = 16777216
<1>1. Host = 32 /\ Word = 2^32 /\ 2 * Byte = 16
  BY SMT DEF Host, Word
<1>2. Byte * 0 = 0 /\ Byte * 1 = 8 /\ Byte * 2 = 16 /\ Byte * 3 = 24
  BY SMT
<1>3. 2^0 = 1 /\ 2^8 = 256 /\ 2^16 = 65536 /\ 2^24 = 16777216 /\ 2^32 = 4294967296
  BY SMT
<1>4. QED
  BY <1>1, <1>2, <1>3, SMT

(* An address is taken modulo the word, which is seen only at a wrap.      *)
LEMMA AddressIs ==
  ASSUME Byte = 8, NEW x \in Int
  PROVE  /\ Address(x) \in 0 .. Word - 1
         /\ x \in 0 .. Word - 1 => Address(x) = x
         /\ x < 0 /\ x + Word >= 0 => Address(x) = x + Word
<1> DEFINE W == Word
<1>1. W \in Int /\ W > 0
  BY WordIs, SMT
<1> HIDE DEF W
<1>2. x % W \in Int /\ x % W >= 0 /\ x % W < W
  BY <1>1, ModIs, SMT
<1>3. ASSUME x >= 0, x < W PROVE x % W = x
  <2>1. x = (W * 0) + x
    BY <1>1, SMT
  <2>2. QED
    BY <1>1, <1>3, <2>1, ModUnique, SMT
<1>4. ASSUME x < 0, x + W >= 0 PROVE x % W = x + W
  <2>1. x = (W * (-1)) + (x + W) /\ (x + W) \in Int /\ x + W < W
    BY <1>1, <1>4, SMT
  <2>2. QED
    BY <1>1, <1>4, <2>1, ModUnique, SMT
<1>5. QED
  BY <1>1, <1>2, <1>3, <1>4, SMT DEF Address, W

(* A machine with one part exchanged has all the others.                   *)
LEMMA WithGpr ==
  ASSUME NEW m \in Machines, NEW g \in [Registers -> Words]
  PROVE  LET x == [m EXCEPT !.gpr = g]
         IN x \in Machines /\ x.gpr = g /\ x.eip = m.eip /\ x.cs = m.cs /\ x.eflags = m.eflags /\ x.mem = m.mem
BY FieldsAre, MachineFrom, Updates

(* The same for eip.                                                       *)
LEMMA WithEip ==
  ASSUME NEW m \in Machines, NEW e \in Words
  PROVE  LET x == [m EXCEPT !.eip = e]
         IN x \in Machines /\ x.gpr = m.gpr /\ x.eip = e /\ x.cs = m.cs /\ x.eflags = m.eflags /\ x.mem = m.mem
BY FieldsAre, MachineFrom, Updates

(* The same for the memory.                                                *)
LEMMA WithMem ==
  ASSUME NEW m \in Machines, NEW y \in [Words -> 0 .. 2^Byte - 1]
  PROVE  LET x == [m EXCEPT !.mem = y]
         IN x \in Machines /\ x.gpr = m.gpr /\ x.eip = m.eip /\ x.cs = m.cs /\ x.eflags = m.eflags /\ x.mem = y
BY FieldsAre, MachineFrom, Updates

(* Registers hold words.                                                   *)
LEMMA RegistersAre ==
  ASSUME Byte = 8, NEW m \in Machines
  PROVE  /\ \A r \in Registers : m.gpr[r] \in Words /\ m.gpr[r] \in Int
         /\ Esp(m) \in Words /\ Esp(m) \in Int /\ Esp(m) >= 0 /\ Esp(m) < Word
         /\ m.eip \in Words /\ m.eip \in Int
         /\ Word \in Int /\ Word > 65536 /\ REG_ESP \in Registers /\ REG_EBP \in Registers /\ REG_EBP # REG_ESP
<1>1. m.gpr \in [Registers -> Words] /\ m.eip \in Words
  BY FieldsAre
<1>2. Word \in Int /\ Word > 65536 /\ \A w \in Words : w \in Int /\ w >= 0 /\ w < Word
  BY WordIs, SMT DEF Words
<1>3. REG_ESP \in Registers /\ REG_EBP \in Registers /\ REG_EBP # REG_ESP
  BY SMT DEF REG_ESP, REG_EBP, Registers
<1>4. QED
  BY <1>1, <1>2, <1>3 DEF Esp

(* A move of esp exchanges the registers.                                  *)
LEMMA MoveIsUpdate ==
  ASSUME NEW m, NEW d
  PROVE  MoveEsp(m, d) = [m EXCEPT !.gpr = [m.gpr EXCEPT ![REG_ESP] = Address(m.gpr[REG_ESP] + d)]]
BY DEF MoveEsp

(* A move of esp without a wrap moves esp and nothing else.                *)
LEMMA MoveIs ==
  ASSUME Byte = 8, NEW m \in Machines, NEW d \in Int, Esp(m) + d >= 0, Esp(m) + d < Word
  PROVE  LET x == MoveEsp(m, d)
         IN /\ x \in Machines /\ Esp(x) = Esp(m) + d
            /\ \A r \in Registers \ {REG_ESP} : x.gpr[r] = m.gpr[r]
            /\ x.eip = m.eip /\ x.cs = m.cs /\ x.eflags = m.eflags /\ x.mem = m.mem
<1> DEFINE g == [m.gpr EXCEPT ![REG_ESP] = Address(m.gpr[REG_ESP] + d)]
<1>1. Esp(m) \in Int /\ Word \in Int /\ REG_ESP \in Registers
  BY RegistersAre
<1>2. Address(m.gpr[REG_ESP] + d) = Esp(m) + d /\ Esp(m) + d \in Words
  BY <1>1, AddressIs DEF Esp, Words
<1>3. /\ g \in [Registers -> Words] /\ g[REG_ESP] = Esp(m) + d
      /\ \A r \in Registers \ {REG_ESP} : g[r] = m.gpr[r]
  <2>1. m.gpr \in [Registers -> Words]
    BY FieldsAre
  <2>2. QED
    BY <1>1, <1>2, <2>1
<1>4. MoveEsp(m, d) = [m EXCEPT !.gpr = g]
  BY MoveIsUpdate
<1> HIDE DEF g
<1>5. QED
  BY <1>3, <1>4, WithGpr DEF Esp

(* The next instruction begins behind this one; nothing else changes.      *)
LEMMA AfterIs ==
  ASSUME Byte = 8, NEW m \in Machines, NEW len \in Int
  PROVE  LET x == After(m, len)
         IN /\ x \in Machines /\ x.eip = Address(m.eip + len)
            /\ x.gpr = m.gpr /\ Esp(x) = Esp(m) /\ x.cs = m.cs /\ x.eflags = m.eflags /\ x.mem = m.mem
<1>1. m.eip + len \in Int
  BY RegistersAre
<1>2. Address(m.eip + len) \in Words
  BY <1>1, AddressIs DEF Words
<1>3. After(m, len) = [m EXCEPT !.eip = Address(m.eip + len)]
  BY DEF After
<1>4. QED
  BY <1>2, <1>3, WithEip DEF Esp

(* The low eight bits are a byte.                                          *)
LEMMA LowByte ==
  ASSUME Byte = 8, NEW x \in Int
  PROVE  Low(x, Byte) \in 0 .. 255
<1>1. Low(x, Byte) = x % 256
  BY WordIs, SMT DEF Low
<1>2. QED
  BY <1>1, SMT

(* The places of the bytes of a word are positive.                         *)
LEMMA BytePower ==
  ASSUME Byte = 8, NEW i \in 0 .. 3
  PROVE  2^(Byte * i) \in Int /\ 2^(Byte * i) > 0
<1>1. i = 0 \/ i = 1 \/ i = 2 \/ i = 3
  BY SMT
<1>2. CASE i = 0
  BY <1>2, WordIs, SMT
<1>3. CASE i = 1
  BY <1>3, WordIs, SMT
<1>4. CASE i = 2
  BY <1>4, WordIs, SMT
<1>5. CASE i = 3
  BY <1>5, WordIs, SMT
<1>6. QED
  BY <1>1, <1>2, <1>3, <1>4, <1>5

(* The memory is a byte for each address.                                  *)
LEMMA MemoryIs ==
  ASSUME Byte = 8, NEW m \in Machines
  PROVE  /\ m.mem \in [0 .. Word - 1 -> 0 .. 255] /\ DOMAIN m.mem = 0 .. Word - 1
         /\ \A a \in 0 .. Word - 1 : m.mem[a] \in 0 .. 255
<1>1. 2^Byte - 1 = 255
  BY WordIs, SMT
<1> DEFINE top == 2^Byte - 1
<1>2. m.mem \in [0 .. Word - 1 -> 0 .. top]
  BY FieldsAre DEF Words
<1>3. top = 255
  BY <1>1
<1> HIDE DEF top
<1>4. m.mem \in [0 .. Word - 1 -> 0 .. 255]
  BY <1>2, <1>3
<1>5. QED
  BY <1>4

(* A store without a wrap changes the bytes it is about.                   *)
LEMMA StoreIs ==
  ASSUME Byte = 8, NEW m \in Machines, NEW a \in Int, a >= 0, NEW len \in {1, 2, 4}, a + len <= Word,
         NEW v \in Int
  PROVE  LET out == Store(m, a, len, v)
         IN /\ out \in Machines /\ out.gpr = m.gpr /\ out.eip = m.eip /\ out.cs = m.cs /\ out.eflags = m.eflags
            /\ \A b \in 0 .. Word - 1 : b < a \/ b >= a + len => out.mem[b] = m.mem[b]
            /\ Holds(out, a, len, v)
<1> DEFINE out == Store(m, a, len, v)
           W == Word
           B(i) == Low(v \div 2^(Byte * i), Byte)
<1>1. W \in Int /\ W > 65536 /\ Byte \in Sizes /\ 2^Byte = 256
  BY WordIs, SMT DEF Sizes
<1>2. \A i \in 0 .. len - 1 : B(i) \in 0 .. 255
  <2>1. ASSUME NEW i \in 0 .. len - 1 PROVE B(i) \in 0 .. 255
    <3>1. i \in 0 .. 3
      OBVIOUS
    <3>2. 2^(Byte * i) \in Int /\ 2^(Byte * i) > 0
      BY <3>1, BytePower
    <3>3. v \div 2^(Byte * i) \in Int
      BY <3>2, ModIs
    <3>4. QED
      BY <3>3, LowByte
  <2>2. QED
    BY <2>1, SMT
<1>3. ASSUME NEW b \in 0 .. W - 1
      PROVE  /\ b >= a => Address(b - a) = b - a
             /\ b < a => Address(b - a) = (b - a) + W
  BY <1>1, <1>3, AddressIs, SMT DEF W
<1>4. m.mem \in [0 .. W - 1 -> 0 .. 255]
  BY MemoryIs DEF W
<1> DEFINE y == [b \in 0 .. W - 1 |-> IF Address(b - a) < len THEN B(Address(b - a)) ELSE m.mem[b]]
<1>5. out = [m EXCEPT !.mem = y]
  <2>1. DOMAIN m.mem = 0 .. W - 1
    BY <1>4
  <2>2. QED
    BY <2>1 DEF Store
<1> HIDE DEF out
<1> HIDE DEF B, W
<1>7. ASSUME NEW b \in 0 .. W - 1, b < a \/ b >= a + len PROVE y[b] = m.mem[b]
  <2>1. ~(Address(b - a) < len)
    BY <1>1, <1>3, <1>7, SMT DEF W
  <2>2. QED
    BY <2>1
<1>8. ASSUME NEW i \in 0 .. len - 1 PROVE y[a + i] = B(i) /\ a + i \in 0 .. W - 1
  <2>1. a + i \in 0 .. W - 1 /\ (a + i) - a = i /\ a + i >= a /\ i < len
    BY <1>1, SMT DEF W
  <2>2. Address((a + i) - a) = i
    BY <1>3, <2>1
  <2>3. QED
    BY <2>1, <2>2
<1>9. y \in [0 .. W - 1 -> 0 .. 255]
  <2>1. ASSUME NEW b \in 0 .. W - 1 PROVE y[b] \in 0 .. 255
    <3>1. CASE b < a \/ b >= a + len
      BY <1>4, <1>7, <3>1
    <3>2. CASE ~(b < a \/ b >= a + len)
      <4>1. PICK i \in 0 .. len - 1 : a + i = b
        <5>1. b - a \in 0 .. len - 1 /\ a + (b - a) = b
          BY <1>1, <3>2, SMT
        <5>2. QED
          BY <5>1
      <4>2. y[a + i] = B(i) /\ B(i) \in 0 .. 255
        BY <1>2, <1>8
      <4>3. QED
        BY <4>1, <4>2
    <3>3. QED
      BY <3>1, <3>2
  <2>2. QED
    BY <2>1
<1> HIDE DEF y
<1>10. y \in [Words -> 0 .. 2^Byte - 1]
  BY <1>1, <1>9, SMT DEF Words, W
<1>11. /\ out \in Machines /\ out.gpr = m.gpr /\ out.eip = m.eip /\ out.cs = m.cs /\ out.eflags = m.eflags
       /\ out.mem = y
  BY <1>5, <1>10, WithMem
<1>12. Holds(out, a, len, v)
  BY <1>8, <1>11 DEF Holds, B
<1>13. QED
  BY <1>7, <1>11, <1>12 DEF out, W

(* A number comes back from its bytes.                                     *)
LEMMA BytesComeBack ==
  ASSUME Byte = 8, NEW v \in Int, v >= 0
  PROVE  LET b(i) == Low(v \div 2^(Byte * i), Byte)
         IN /\ v < 256 => b(0) = v
            /\ v < 65536 => b(0) + (256 * b(1)) = v
            /\ v < Word => ((b(0) + (256 * b(1))) + (65536 * b(2))) + (16777216 * b(3)) = v
<1> DEFINE q(k) == v \div k
           p1 == v \div 256
           p2 == v \div 65536
           p3 == v \div 16777216
           b0 == v % 256
           b1 == p1 % 256
           b2 == p2 % 256
           b3 == p3 % 256
<1>1. /\ Low(v \div 2^(Byte * 0), Byte) = b0 /\ Low(v \div 2^(Byte * 1), Byte) = b1
      /\ Low(v \div 2^(Byte * 2), Byte) = b2 /\ Low(v \div 2^(Byte * 3), Byte) = b3
  <2>1. v \div 1 = v
    BY SMT
  <2>2. QED
    BY <2>1, WordIs, SMT DEF Low
<1>2. /\ p1 \in Int /\ b0 \in Int /\ b0 >= 0 /\ b0 < 256 /\ v = (256 * p1) + b0
      /\ p2 \in Int /\ p2 >= 0 /\ v - (65536 * p2) >= 0 /\ v - (65536 * p2) < 65536
      /\ p3 \in Int /\ p3 >= 0 /\ v - (16777216 * p3) >= 0 /\ v - (16777216 * p3) < 16777216
  BY SMT
<1>3. /\ b1 \in Int /\ b1 >= 0 /\ b1 < 256 /\ p1 - b1 = 256 * (p1 \div 256) /\ (p1 \div 256) \in Int
      /\ b2 \in Int /\ b2 >= 0 /\ b2 < 256 /\ p2 - b2 = 256 * (p2 \div 256) /\ (p2 \div 256) \in Int
      /\ b3 \in Int /\ b3 >= 0 /\ b3 < 256 /\ p3 - b3 = 256 * (p3 \div 256) /\ (p3 \div 256) \in Int
  BY <1>2, SMT
<1> DEFINE c1 == p1 \div 256
           c2 == p2 \div 256
           c3 == p3 \div 256
<1>4. c1 \in Int /\ c2 \in Int /\ c3 \in Int /\ p1 = (256 * c1) + b1 /\ p2 = (256 * c2) + b2 /\ p3 = (256 * c3) + b3
  BY <1>2, <1>3, SMT
<1> HIDE DEF p1, p2, p3, b0, b1, b2, b3, c1, c2, c3
<1>5. c1 = p2 /\ c2 = p3
  BY <1>2, <1>3, <1>4, SMT
<1>6. v < 256 => b0 = v
  BY <1>2, <1>3, <1>4, SMT
<1>7. v < 65536 => b0 + (256 * b1) = v
  BY <1>2, <1>3, <1>4, <1>5, SMT
<1>8. v < Word => ((b0 + (256 * b1)) + (65536 * b2)) + (16777216 * b3) = v
  <2>1. Word = 4294967296
    BY WordIs, SMT
  <2>2. v < Word => c3 = 0
    BY <1>2, <1>3, <1>4, <2>1, SMT
  <2>3. QED
    BY <1>2, <1>3, <1>4, <1>5, <2>2, SMT
<1>9. QED
  BY <1>1, <1>6, <1>7, <1>8, SMT

(* A sum of one, two or four terms, written out.                           *)
LEMMA FewTerms ==
  ASSUME NEW len \in {1, 2, 4}, NEW s, NEW g, s[0] = 0,
         \A k \in 0 .. len - 1 : s[k + 1] = s[k] + g[k] /\ g[k] \in Int
  PROVE  /\ s[1] = g[0] /\ g[0] \in Int
         /\ len # 1 => s[2] = g[0] + g[1] /\ g[1] \in Int
         /\ len = 4 => s[4] = ((g[0] + g[1]) + g[2]) + g[3] /\ g[2] \in Int /\ g[3] \in Int
<1>1. 0 \in 0 .. len - 1 /\ (len # 1 => 1 \in 0 .. len - 1)
      /\ (len = 4 => 2 \in 0 .. len - 1 /\ 3 \in 0 .. len - 1)
  OBVIOUS
<1>2. s[0 + 1] = s[0] + g[0] /\ g[0] \in Int
  BY <1>1
<1>3. len # 1 => s[1 + 1] = s[1] + g[1] /\ g[1] \in Int
  BY <1>1
<1>4. len = 4 => s[2 + 1] = s[2] + g[2] /\ g[2] \in Int
  BY <1>1
<1>5. len = 4 => s[3 + 1] = s[3] + g[3] /\ g[3] \in Int
  BY <1>1
<1>6. s[1] = g[0]
  BY <1>2
<1>7. len # 1 => s[2] = g[0] + g[1]
  BY <1>3, <1>6
<1>8. len = 4 => s[3] = (g[0] + g[1]) + g[2]
  BY <1>4, <1>7
<1>9. len = 4 => s[4] = ((g[0] + g[1]) + g[2]) + g[3]
  BY <1>5, <1>8
<1>10. QED
  BY <1>2, <1>3, <1>4, <1>5, <1>6, <1>7, <1>9

(* The bytes that a number is put together from are its bytes.             *)
Together(b0, b1, b2, b3) == ((b0 + (256 * b1)) + (65536 * b2)) + (16777216 * b3)
DigitsOf(v, b0, b1, b2, b3) ==
  /\ Low(v \div 2^(Byte * 0), Byte) = b0 /\ Low(v \div 2^(Byte * 1), Byte) = b1
  /\ Low(v \div 2^(Byte * 2), Byte) = b2 /\ Low(v \div 2^(Byte * 3), Byte) = b3

(* Dividing by the powers of 256 finds those bytes again.                  *)
LEMMA DigitsAre ==
  ASSUME Byte = 8, NEW b0 \in 0 .. 255, NEW b1 \in 0 .. 255, NEW b2 \in 0 .. 255, NEW b3 \in 0 .. 255
  PROVE  DigitsOf(Together(b0, b1, b2, b3), b0, b1, b2, b3)
<1> DEFINE v == Together(b0, b1, b2, b3)
           q0 == (b1 + (256 * b2)) + (65536 * b3)
           q1 == b2 + (256 * b3)
           r2 == b0 + (256 * b1)
           r3 == (b0 + (256 * b1)) + (65536 * b2)
<1>1. v \in Int /\ q0 \in Int /\ q1 \in Int /\ r2 \in Int /\ r3 \in Int /\ b0 \in Int /\ b1 \in Int /\ b2 \in Int /\ b3 \in Int
  BY SMT DEF Together
<1>2. /\ v = (256 * q0) + b0 /\ v = (65536 * q1) + r2 /\ v = (16777216 * b3) + r3
      /\ q0 = (256 * q1) + b1 /\ q1 = (256 * b3) + b2 /\ b3 = (256 * 0) + b3
      /\ b0 >= 0 /\ b0 < 256 /\ b1 >= 0 /\ b1 < 256 /\ b2 >= 0 /\ b2 < 256 /\ b3 >= 0 /\ b3 < 256
      /\ r2 >= 0 /\ r2 < 65536 /\ r3 >= 0 /\ r3 < 16777216
  BY SMT DEF Together
<1> HIDE DEF v, q0, q1, r2, r3
<1>3. 256 \in Int /\ 256 > 0 /\ 65536 \in Int /\ 65536 > 0 /\ 16777216 \in Int /\ 16777216 > 0 /\ 0 \in Int
  BY SMT
<1>4. v % 256 = b0 /\ v \div 256 = q0
  BY ONLY <1>1, <1>2, <1>3, ModUnique
<1>5. v \div 65536 = q1 /\ v \div 16777216 = b3
  BY ONLY <1>1, <1>2, <1>3, ModUnique
<1>6. q0 % 256 = b1 /\ q1 % 256 = b2 /\ b3 % 256 = b3
  BY ONLY <1>1, <1>2, <1>3, ModUnique
<1>7. v \div 1 = v
  BY <1>1, SMT
<1>8. QED
  BY <1>4, <1>5, <1>6, <1>7, WordIs, SMT DEF Low, DigitsOf, v

(* A load without a wrap puts the bytes together, and so gives back what   *)
(* they hold.                                                              *)
Reads(m, a, len) ==
  /\ Load(m, a, len) \in Int /\ Load(m, a, len) >= 0 /\ Load(m, a, len) < 2^(Byte * len)
  /\ Holds(m, a, len, Load(m, a, len))
  /\ \A v \in Int : v >= 0 /\ v < 2^(Byte * len) /\ Holds(m, a, len, v) => Load(m, a, len) = v

(* A load gives back the value whose bytes stand at the address.           *)
LEMMA LoadIs ==
  ASSUME Byte = 8, NEW m \in Machines, NEW a \in Int, a >= 0, NEW len \in {1, 2, 4}, a + len <= Word
  PROVE  Reads(m, a, len)
<1> DEFINE g == [i \in 0 .. len - 1 |-> m.mem[Address(a + i)] * 2^(Byte * i)]
           s == PartialSums(g, len)
           W == Word
           b == [i \in 0 .. 3 |-> m.mem[a + i]]
           p == [i \in 0 .. 3 |-> 2^(Byte * i)]
<1>1. W \in Int /\ W > 65536
  BY WordIs, SMT
<1>2. ASSUME NEW i \in 0 .. len - 1
      PROVE  /\ g[i] = b[i] * p[i] /\ b[i] \in 0 .. 255 /\ p[i] \in Int
             /\ i \in 0 .. 3 /\ b[i] = m.mem[a + i]
  <2>1. a + i \in 0 .. W - 1 /\ i \in 0 .. 3
    BY <1>1
  <2>2. Address(a + i) = a + i
    BY <2>1, AddressIs
  <2>3. 2^(Byte * i) \in Int
    BY <2>1, BytePower
  <2>4. m.mem[a + i] \in 0 .. 255
    BY <2>1, MemoryIs
  <2>5. QED
    BY <2>1, <2>2, <2>3, <2>4
<1>3. Load(m, a, len) = s[len]
  BY DEF Load
<1>4. p[0] = 1 /\ p[1] = 256 /\ p[2] = 65536 /\ p[3] = 16777216
  <2>1. 0 \in 0 .. 3 /\ 1 \in 0 .. 3 /\ 2 \in 0 .. 3 /\ 3 \in 0 .. 3
    BY SMT
  <2>2. QED
    BY <2>1, WordIs, SMT
<1> HIDE DEF b, p, g
<1>5. \A i \in 0 .. len - 1 : g[i] \in Int
  BY <1>2
<1>6. s[0] = 0 /\ \A k \in 0 .. len - 1 : s[k + 1] = s[k] + g[k]
  <2>1. len \in Nat
    OBVIOUS
  <2>2. QED
    BY <1>5, <2>1, SumsAre
<1> HIDE DEF s
<1>7. /\ len = 1 => s[len] = b[0] /\ s[len] \in Int /\ s[len] >= 0 /\ s[len] < 256
      /\ len = 2 => s[len] = b[0] + (256 * b[1]) /\ s[len] \in Int /\ s[len] >= 0 /\ s[len] < 65536
      /\ len = 4 => /\ s[len] = ((b[0] + (256 * b[1])) + (65536 * b[2])) + (16777216 * b[3])
                    /\ s[len] \in Int /\ s[len] >= 0 /\ s[len] < 4294967296
  <2>1. /\ s[1] = g[0]
        /\ len # 1 => s[2] = g[0] + g[1]
        /\ len = 4 => s[4] = ((g[0] + g[1]) + g[2]) + g[3]
    BY <1>5, <1>6, FewTerms
  <2>2. /\ g[0] = b[0] * p[0] /\ b[0] \in 0 .. 255
        /\ len # 1 => g[1] = b[1] * p[1] /\ b[1] \in 0 .. 255
        /\ len = 4 => g[2] = b[2] * p[2] /\ b[2] \in 0 .. 255 /\ g[3] = b[3] * p[3] /\ b[3] \in 0 .. 255
    <3>1. 0 \in 0 .. len - 1 /\ (len # 1 => 1 \in 0 .. len - 1)
          /\ (len = 4 => 2 \in 0 .. len - 1 /\ 3 \in 0 .. len - 1)
      OBVIOUS
    <3>2. QED
      BY <1>2, <3>1
  <2>3. /\ g[0] = b[0]
        /\ len # 1 => g[1] = 256 * b[1]
        /\ len = 4 => g[2] = 65536 * b[2] /\ g[3] = 16777216 * b[3]
    BY <1>4, <2>2, SMT
  <2>4. CASE len = 1
    BY <2>1, <2>2, <2>3, <2>4, SMT
  <2>5. CASE len = 2
    <3>1. s[2] = b[0] + (256 * b[1]) /\ b[0] \in 0 .. 255 /\ b[1] \in 0 .. 255
      BY <2>1, <2>2, <2>3, <2>5, SMT
    <3> DEFINE c == b[0]
               d == b[1]
               t == s[2]
    <3>4. t = c + (256 * d) /\ c \in Int /\ c >= 0 /\ c <= 255 /\ d \in Int /\ d >= 0 /\ d <= 255
      BY <3>1, SMT
    <3> HIDE DEF c, d, t
    <3>5. t \in Int /\ t >= 0 /\ t < 65536
      BY <3>4, SMT
    <3>2. s[2] \in Int /\ s[2] >= 0 /\ s[2] < 65536
      BY <3>5 DEF t
    <3>3. QED
      BY <2>5, <3>1, <3>2, SMT
  <2>6. CASE len = 4
    <3>1. /\ s[4] = ((b[0] + (256 * b[1])) + (65536 * b[2])) + (16777216 * b[3])
          /\ b[0] \in 0 .. 255 /\ b[1] \in 0 .. 255 /\ b[2] \in 0 .. 255 /\ b[3] \in 0 .. 255
      BY <2>1, <2>2, <2>3, <2>6, SMT
    <3> DEFINE c0 == b[0]
               c1 == b[1]
               c2 == b[2]
               c3 == b[3]
               t == s[4]
    <3>4. /\ t = ((c0 + (256 * c1)) + (65536 * c2)) + (16777216 * c3)
          /\ c0 \in Int /\ c0 >= 0 /\ c0 <= 255 /\ c1 \in Int /\ c1 >= 0 /\ c1 <= 255
          /\ c2 \in Int /\ c2 >= 0 /\ c2 <= 255 /\ c3 \in Int /\ c3 >= 0 /\ c3 <= 255
      BY <3>1, SMT
    <3> HIDE DEF c0, c1, c2, c3, t
    <3>5. t \in Int /\ t >= 0 /\ t < 4294967296
      BY <3>4, SMT
    <3>2. s[4] \in Int /\ s[4] >= 0 /\ s[4] < 4294967296
      BY <3>5, SMT DEF t
    <3>3. QED
      BY <2>6, <3>1, <3>2, SMT
  <2>7. QED
    BY <2>4, <2>5, <2>6, SMT
<1>8. /\ len = 1 => 2^(Byte * len) = 256
      /\ len = 2 => 2^(Byte * len) = 65536
      /\ len = 4 => 2^(Byte * len) = 4294967296
  <2>1. Byte * 1 = 8 /\ Byte * 2 = 16 /\ Byte * 4 = 32
    BY SMT
  <2>2. 2^(Byte * 1) = 256 /\ 2^(Byte * 2) = 65536 /\ 2^(Byte * 4) = 4294967296
    BY <2>1, Powers, SMT
  <2>3. CASE len = 1
    BY <2>2, <2>3, SMT
  <2>4. CASE len = 2
    BY <2>2, <2>4, SMT
  <2>5. CASE len = 4
    BY <2>2, <2>5, SMT
  <2>6. QED
    BY <2>3, <2>4, <2>5, SMT
<1>9. ASSUME NEW v \in Int, v >= 0, v < 2^(Byte * len), Holds(m, a, len, v) PROVE s[len] = v
  <2>1. \A i \in 0 .. len - 1 : b[i] = Low(v \div 2^(Byte * i), Byte)
    BY <1>2, <1>9 DEF Holds
  <2> DEFINE c(i) == Low(v \div 2^(Byte * i), Byte)
  <2>2. /\ v < 256 => c(0) = v
        /\ v < 65536 => c(0) + (256 * c(1)) = v
        /\ v < 4294967296 => ((c(0) + (256 * c(1))) + (65536 * c(2))) + (16777216 * c(3)) = v
    BY <1>9, BytesComeBack, WordIs, Powers, SMT
  <2>3. \A i \in 0 .. len - 1 : b[i] = c(i)
    BY <2>1
  <2> HIDE DEF c
  <2>4. b[0] = c(0) /\ (len # 1 => b[1] = c(1)) /\ (len = 4 => b[2] = c(2) /\ b[3] = c(3))
    <3>1. 0 \in 0 .. len - 1 /\ (len # 1 => 1 \in 0 .. len - 1) /\ (len = 4 => 2 \in 0 .. len - 1 /\ 3 \in 0 .. len - 1)
      BY SMT
    <3>2. QED
      BY <2>3, <3>1
  <2>5. CASE len = 1
    BY <1>7, <1>8, <1>9, <2>2, <2>4, <2>5, SMT
  <2>6. CASE len = 2
    BY <1>7, <1>8, <1>9, <2>2, <2>4, <2>6, SMT
  <2>7. CASE len = 4
    BY <1>7, <1>8, <1>9, <2>2, <2>4, <2>7, SMT
  <2>8. QED
    BY <2>5, <2>6, <2>7
<1>10. s[len] \in Int /\ s[len] >= 0 /\ s[len] < 2^(Byte * len)
  BY <1>7, <1>8, SMT
<1>11. Holds(m, a, len, s[len])
  <2> DEFINE t == s[len]
             c(i) == Low(t \div 2^(Byte * i), Byte)
             b0 == b[0]
             b1 == IF len # 1 THEN b[1] ELSE 0
             b2 == IF len = 4 THEN b[2] ELSE 0
             b3 == IF len = 4 THEN b[3] ELSE 0
  <2>1. /\ b0 \in 0 .. 255 /\ b1 \in 0 .. 255 /\ b2 \in 0 .. 255 /\ b3 \in 0 .. 255
    <3>1. 0 \in 0 .. len - 1 /\ (len # 1 => 1 \in 0 .. len - 1) /\ (len = 4 => 2 \in 0 .. len - 1 /\ 3 \in 0 .. len - 1)
      BY SMT
    <3>2. b[0] \in 0 .. 255 /\ (len # 1 => b[1] \in 0 .. 255) /\ (len = 4 => b[2] \in 0 .. 255 /\ b[3] \in 0 .. 255)
      BY <1>2, <3>1
    <3>3. 0 \in 0 .. 255
      BY SMT
    <3>4. QED
      BY <3>2, <3>3
  <2>2. t = ((b0 + (256 * b1)) + (65536 * b2)) + (16777216 * b3)
    <3>1. CASE len = 1
      <4>1. t = b0 /\ b1 = 0 /\ b2 = 0 /\ b3 = 0
        BY <1>7, <3>1
      <4> HIDE DEF t, b0, b1, b2, b3
      <4>2. QED
        BY <2>1, <4>1, SMT
    <3>2. CASE len = 2
      <4>1. t = b0 + (256 * b1) /\ b2 = 0 /\ b3 = 0
        BY <1>7, <3>2
      <4> HIDE DEF t, b0, b1, b2, b3
      <4>2. QED
        BY <2>1, <4>1, SMT
    <3>3. CASE len = 4
      BY <1>7, <3>3
    <3>4. QED
      BY <3>1, <3>2, <3>3
  <2> HIDE DEF t, b0, b1, b2, b3
  <2>3. c(0) = b0 /\ c(1) = b1 /\ c(2) = b2 /\ c(3) = b3
    <3> HIDE DEF c
    <3>1. Byte = 8
      OBVIOUS
    <3>2. /\ Low(t \div 2^(Byte * 0), Byte) = b0 /\ Low(t \div 2^(Byte * 1), Byte) = b1
          /\ Low(t \div 2^(Byte * 2), Byte) = b2 /\ Low(t \div 2^(Byte * 3), Byte) = b3
      <4>1. t = Together(b0, b1, b2, b3)
        BY <2>2 DEF Together
      <4>2. DigitsOf(Together(b0, b1, b2, b3), b0, b1, b2, b3)
        BY ONLY <2>1, <3>1, DigitsAre
      <4>3. QED
        BY <4>1, <4>2 DEF DigitsOf
    <3>3. QED
      BY <3>2 DEF c
  <2> HIDE DEF c
  <2>4. ASSUME NEW i \in 0 .. len - 1 PROVE c(i) = b[i]
    <3>1. i = 0 \/ (i = 1 /\ len # 1) \/ (i = 2 /\ len = 4) \/ (i = 3 /\ len = 4)
      BY SMT
    <3>2. QED
      BY <2>3, <3>1 DEF b0, b1, b2, b3
  <2>5. QED
    BY <1>2, <2>4 DEF Holds, c, t
<1>12. QED
  BY <1>3, <1>9, <1>10, <1>11 DEF Reads

(* What is pushed stands at the new stack pointer.                         *)
LEMMA PushIs ==
  ASSUME Byte = 8, NEW m \in Machines, NEW len \in {2, 4}, NEW v \in Int, v >= 0, len <= Esp(m)
  PROVE  LET out == PushBytes(m, len, v)
         IN /\ out \in Machines /\ Esp(out) = Esp(m) - len
            /\ \A r \in Registers \ {REG_ESP} : out.gpr[r] = m.gpr[r]
            /\ out.eip = m.eip /\ out.cs = m.cs /\ out.eflags = m.eflags
            /\ \A a \in Esp(m) .. Word - 1 : out.mem[a] = m.mem[a]
            /\ Holds(out, Esp(m) - len, len, v)
<1> DEFINE x == MoveEsp(m, -len)
           e == Esp(m)
           out == Store(x, e - len, len, v)
<1>1. e \in Int /\ e >= 0 /\ e < Word /\ Word \in Int /\ len \in Int /\ e + (-len) = e - len
  BY RegistersAre
<1>2. /\ x \in Machines /\ Esp(x) = e - len /\ x.eip = m.eip /\ x.cs = m.cs /\ x.eflags = m.eflags
      /\ x.mem = m.mem /\ \A r \in Registers \ {REG_ESP} : x.gpr[r] = m.gpr[r]
  BY <1>1, MoveIs
<1>3. Address(e - len) = e - len
  BY <1>1, AddressIs
<1>4. PushBytes(m, len, v) = out
  BY <1>3 DEF PushBytes
<1>5. len \in {1, 2, 4} /\ e - len \in Int /\ e - len >= 0 /\ (e - len) + len <= Word /\ (e - len) + len = e
  BY <1>1
<1> HIDE DEF x, e
<1>6. /\ out \in Machines /\ out.gpr = x.gpr /\ out.eip = x.eip /\ out.cs = x.cs /\ out.eflags = x.eflags
      /\ \A b \in 0 .. Word - 1 : b < e - len \/ b >= (e - len) + len => out.mem[b] = x.mem[b]
      /\ Holds(out, e - len, len, v)
  BY <1>2, <1>5, StoreIs
<1> HIDE DEF out
<1>7. \A a \in e .. Word - 1 : out.mem[a] = m.mem[a]
  BY <1>1, <1>2, <1>5, <1>6
<1>8. Esp(out) = Esp(x)
  BY <1>6 DEF Esp
<1>9. QED
  BY <1>2, <1>4, <1>6, <1>7, <1>8 DEF e

(* What a store left behind is read back as long as nothing was stored     *)
(* there.                                                                  *)
LEMMA ReadBack ==
  ASSUME Byte = 8, NEW m \in Machines, NEW a \in Int, NEW len \in {1, 2, 4}, a >= 0, a + len <= Word,
         NEW v \in Int, v >= 0, v < 2^(Byte * len), Holds(m, a, len, v)
  PROVE  Load(m, a, len) = v
<1>1. Reads(m, a, len)
  BY LoadIs
<1> DEFINE P(w) == Holds(m, a, len, w)
           L == Load(m, a, len)
           t == 2^(Byte * len)
<1>2. \A w \in Int : w >= 0 /\ w < t /\ P(w) => L = w
  BY <1>1 DEF Reads
<1>3. P(v) /\ v < t
  OBVIOUS
<1> HIDE DEF P, L, t
<1>4. L = v
  BY <1>2, <1>3, SMT
<1>5. QED
  BY <1>4 DEF L

(* Bytes stand as long as memory is as it was.                             *)
LEMMA HoldsStill ==
  ASSUME Byte = 8, NEW m, NEW x, NEW at \in Int, NEW a \in Int, NEW len \in {1, 2, 4},
         a >= at, a + len <= Word, \A c \in at .. Word - 1 : m.mem[c] = x.mem[c], NEW v, Holds(x, a, len, v)
  PROVE  Holds(m, a, len, v)
<1>1. Word \in Int
  BY WordIs
<1>2. ASSUME NEW i \in 0 .. len - 1 PROVE m.mem[a + i] = x.mem[a + i]
  <2>1. a + i \in at .. Word - 1
    BY <1>1
  <2>2. QED
    BY <2>1
<1>3. QED
  BY <1>2 DEF Holds

(* The sizes of operands in bytes and in bits.                             *)
LEMMA SizesOfLoads ==
  ASSUME Byte = 8
  PROVE  /\ Sizes = {8, 16, 32} /\ Host = 32 /\ 8 \div Byte = 1 /\ 16 \div Byte = 2 /\ 32 \div Byte = 4
         /\ 2^(Byte * 2) = 2^16 /\ 2^(Byte * 4) = Word
<1>1. Host = 32 /\ Sizes = {8, 16, 32} /\ Word = 2^32
  BY DEF Host, Sizes, Word
<1>2. Byte * 2 = 16 /\ Byte * 4 = 32 /\ 8 \div 8 = 1 /\ 16 \div 8 = 2 /\ 32 \div 8 = 4
  BY SMT
<1>3. QED
  BY <1>1, <1>2

(* What an instruction that leaves something on the stack carries.         *)
LEMMA OpeningIs ==
  ASSUME Byte = 8, NEW o \in Openings
  PROVE  /\ o.item \in {"save", "call", "call_indirect", "frame", "all", "int", "irq"}
         /\ o.item = "save" => o.n \in Sizes /\ o.r \in Scratch /\ o.v \in Pushed
         /\ o.item = "call" => o.n \in {16, 32} /\ o.rel \in Pushed
         /\ o.item = "call_indirect" => o.rel \in Pushed
         /\ o.item = "frame" => o.locals \in Locals
         /\ o.item \in {"int", "irq"} => o.gate \in Gates
<1>1. 2 * Byte = 16 /\ Host = 32
  BY DEF Host
<1>2. QED
  BY <1>1 DEF Openings

(* Pushed values are words.                                                *)
LEMMA PushedAre ==
  ASSUME Byte = 8, NEW v \in Pushed
  PROVE  v \in Words /\ v \in Int /\ v >= 0 /\ v < Word
<1>1. Word \in Int
  BY WordIs
<1>2. QED
  BY <1>1, ExecutionAssumption DEF Words

(* The value that push stores, and how wide it is.                         *)
LEMMA PushedValueIs ==
  ASSUME Byte = 8, NEW o \in Openings, o.item = "save"
  PROVE  LET k == PopSize(o.n) \div Byte
         IN /\ k \in {2, 4} /\ PopSize(o.n) = Byte * k /\ PopSize(o.n) \in {16, 32} /\ Bytes(o) = k
            /\ PushedValue(o) \in Int /\ PushedValue(o) >= 0 /\ PushedValue(o) < 2^(Byte * k)
            /\ \A m : push(m, o.n, o.v) = PushBytes(m, k, PushedValue(o))
<1>1. o.n \in Sizes /\ o.v \in Int /\ o.n \in {8, 16, 32}
  BY OpeningIs, PushedAre, SizesOfLoads
<1>2. Bytes(o) = PopSize(o.n) \div Byte
  BY DEF Bytes
<1>3. CASE o.n = 8
  <2>1. PopSize(o.n) = 32 /\ PopSize(o.n) \div Byte = 4 /\ Byte * 4 = 32
    BY <1>3, SizesOfLoads DEF PopSize
  <2>2. PushedValue(o) = sign_ext(o.v, o.n)
    BY <1>3 DEF PushedValue
  <2>3. sign_ext(o.v, o.n) \in Int /\ sign_ext(o.v, o.n) >= 0 /\ sign_ext(o.v, o.n) < Word
    BY <1>1, ExtIs
  <2>4. \A m : push(m, o.n, o.v) = PushBytes(m, 4, sign_ext(o.v, o.n))
    BY <1>3 DEF push
  <2>5. QED
    BY <1>2, <2>1, <2>2, <2>3, <2>4, SizesOfLoads
<1>4. CASE o.n = 16
  <2>1. PopSize(o.n) = 16 /\ PopSize(o.n) \div Byte = 2 /\ Byte * 2 = 16 /\ o.n \div Byte = 2
    BY <1>4, SizesOfLoads DEF PopSize
  <2>2. PushedValue(o) = Low(o.v, o.n)
    BY <1>4 DEF PushedValue
  <2>3. Low(o.v, o.n) \in Int /\ Low(o.v, o.n) >= 0 /\ Low(o.v, o.n) < 2^o.n
    BY <1>1, LowIs
  <2>4. \A m : push(m, o.n, o.v) = PushBytes(m, 2, Low(o.v, o.n))
    BY <1>4, <2>1 DEF push
  <2>5. 2^(Byte * 2) = 2^o.n
    BY <1>4, SizesOfLoads
  <2>6. QED
    BY <1>2, <2>1, <2>2, <2>3, <2>4, <2>5
<1>5. CASE o.n = 32
  <2>1. PopSize(o.n) = 32 /\ PopSize(o.n) \div Byte = 4 /\ Byte * 4 = 32 /\ o.n \div Byte = 4
    BY <1>5, SizesOfLoads DEF PopSize
  <2>2. PushedValue(o) = Low(o.v, o.n)
    BY <1>5 DEF PushedValue
  <2>3. Low(o.v, o.n) \in Int /\ Low(o.v, o.n) >= 0 /\ Low(o.v, o.n) < 2^o.n
    BY <1>1, LowIs
  <2>4. \A m : push(m, o.n, o.v) = PushBytes(m, 4, Low(o.v, o.n))
    BY <1>5, <2>1 DEF push
  <2>5. 2^(Byte * 4) = 2^o.n
    BY <1>5, SizesOfLoads DEF Word
  <2>6. QED
    BY <1>2, <2>1, <2>2, <2>3, <2>4, <2>5
<1>6. QED
  BY <1>1, <1>3, <1>4, <1>5

FromStack(m, e, c, f) == [m EXCEPT !.eip = e, !.cs = c, !.eflags = f]

(* iret's three exchanges touch neither registers nor memory.              *)
LEMMA IretUpdate ==
  ASSUME NEW m \in Machines, NEW e, NEW c, NEW f
  PROVE  FromStack(m, e, c, f) = [gpr |-> m.gpr, eip |-> e, cs |-> c, eflags |-> f, mem |-> m.mem]
<1> DEFINE Rec(e1, c1, f1) == [gpr |-> m.gpr, eip |-> e1, cs |-> c1, eflags |-> f1, mem |-> m.mem]
           E == m.eip
           C == m.cs
           F == m.eflags
<1>1. m = Rec(E, C, F)
  BY FieldsAre
<1>2. [Rec(E, C, F) EXCEPT !.eip = e] = Rec(e, C, F)
  OBVIOUS
<1>3. [Rec(e, C, F) EXCEPT !.cs = c] = Rec(e, c, F)
  OBVIOUS
<1>4. [Rec(e, c, F) EXCEPT !.eflags = f] = Rec(e, c, f)
  OBVIOUS
<1> HIDE DEF Rec, E, C, F
<1>5. [[[m EXCEPT !.eip = e] EXCEPT !.cs = c] EXCEPT !.eflags = f] = Rec(e, c, f)
  BY <1>1, <1>2, <1>3, <1>4
<1>6. QED
  BY <1>5 DEF Rec, FromStack

ToGate(m, v, c, e) == [m EXCEPT !.eflags.INTR = v, !.cs = c, !.eip = e]

(* Nor do those of an interrupt's entry.                                   *)
LEMMA RaiseUpdate ==
  ASSUME NEW m \in Machines, NEW e, NEW c, NEW v
  PROVE  ToGate(m, v, c, e) = [gpr |-> m.gpr, eip |-> e, cs |-> c, eflags |-> [m.eflags EXCEPT !.INTR = v], mem |-> m.mem]
<1> DEFINE Rec(e1, c1, f1) == [gpr |-> m.gpr, eip |-> e1, cs |-> c1, eflags |-> f1, mem |-> m.mem]
           E == m.eip
           C == m.cs
           F == m.eflags
           f == [F EXCEPT !.INTR = v]
<1> HIDE DEF f
<1>1. m = Rec(E, C, F)
  BY FieldsAre
<1>2. [Rec(E, C, F) EXCEPT !.eflags = f] = Rec(E, C, f)
  OBVIOUS
<1>3. [Rec(E, C, f) EXCEPT !.cs = c] = Rec(E, c, f)
  OBVIOUS
<1>4. [Rec(E, c, f) EXCEPT !.eip = e] = Rec(e, c, f)
  OBVIOUS
<1> HIDE DEF Rec, E, C, F
<1>5. [[[m EXCEPT !.eflags = f] EXCEPT !.cs = c] EXCEPT !.eip = e] = Rec(e, c, f)
  BY <1>1, <1>2, <1>3, <1>4
<1>6. QED
  BY <1>5 DEF ToGate, Rec, f, F

(* A write of a register leaves the others alone.                          *)
LEMMA RegisterWritten ==
  ASSUME Byte = 8, NEW g \in [Registers -> Words], NEW r \in Registers, NEW n \in {16, 32}, NEW v \in Int
  PROVE  LET x == operand_write(g, r, n, v)
         IN x \in [Registers -> Words] /\ \A s \in Registers \ {r} : x[s] = g[s]
<1> DEFINE h == g[r]
           a == Low(v, n)
           new == h + (a - Low(h \div 2^0, n)) * 2^0
           k == h \div 2^n
           b == Low(h, n)
           W == Word
<1>1. operand_write(g, r, n, v) = [g EXCEPT ![r] = new]
  <2>1. n # Byte
    OBVIOUS
  <2>2. QED
    BY <2>1 DEF operand_write
<1>2. h \in Int /\ h >= 0 /\ h < W /\ W \in Int /\ n \in Sizes
  <2>1. h \in 0 .. Word - 1
    BY DEF Words
  <2>2. QED
    BY <2>1, WordIs, SizesOfLoads, SMT
<1>3. /\ a \in Int /\ a >= 0 /\ a < 2^n
      /\ b \in Int /\ b >= 0 /\ b < 2^n
      /\ k \in Int /\ h = (2^n * k) + b
  BY <1>2, LowIs
<1>4. new = h + (a - b)
  <2>1. 2^0 = 1 /\ h \div 1 = h
    BY <1>2, SMT
  <2>2. new = h + (a - Low(h, n)) * 1
    BY <2>1
  <2> HIDE DEF new, a, h
  <2>3. QED
    BY <1>2, <1>3, <2>2, SMT DEF b
<1> HIDE DEF h, a, new, k, b, W
<1>5. new \in Int /\ new >= 0 /\ new < W
  <2>1. CASE n = 16
    <3>1. 2^n = 65536
      BY <2>1, Powers
    <3>2. W = 65536 * 65536
      BY WordIs DEF W
    <3>3. QED
      BY <1>2, <1>3, <1>4, <3>1, <3>2, SMT
  <2>2. CASE n = 32
    <3>1. 2^n = W
      BY <2>2 DEF W, Word, Host
    <3>2. b = h
      <4>1. Low(h, n) = h % W
        BY <3>1 DEF Low
      <4>2. h = (W * 0) + h
        BY <1>2, SMT
      <4>3. h % W = h
        BY <1>2, <4>2, ModUnique, SMT
      <4>4. QED
        BY <4>1, <4>3 DEF b
    <3>3. QED
      BY <1>2, <1>3, <1>4, <3>1, <3>2, SMT
  <2>3. QED
    BY <2>1, <2>2
<1>6. new \in Words
  BY <1>2, <1>5, SMT DEF Words, W
<1>7. QED
  BY <1>1, <1>6

(* The same for eflags.                                                    *)
LEMMA WithEflags ==
  ASSUME NEW m \in Machines, NEW f \in EflagsRecords
  PROVE  LET x == [m EXCEPT !.eflags = f]
         IN x \in Machines /\ x.gpr = m.gpr /\ x.eip = m.eip /\ x.cs = m.cs /\ x.eflags = f /\ x.mem = m.mem
<1>1. m = [gpr |-> m.gpr, eip |-> m.eip, cs |-> m.cs, eflags |-> m.eflags, mem |-> m.mem]
  BY FieldsAre
<1> DEFINE G == m.gpr
           E == m.eip
           C == m.cs
           F == m.eflags
           M == m.mem
           x == [m EXCEPT !.eflags = f]
<1>2. /\ G \in [Registers -> Words] /\ E \in Words /\ C \in 0 .. 2^(2 * Byte) - 1
      /\ M \in [Words -> 0 .. 2^Byte - 1]
  BY FieldsAre
<1>3. m = [gpr |-> G, eip |-> E, cs |-> C, eflags |-> F, mem |-> M]
  BY <1>1
<1> HIDE DEF G, E, C, F, M
<1>4. x = [gpr |-> G, eip |-> E, cs |-> C, eflags |-> f, mem |-> M]
  BY <1>3
<1>5. [gpr |-> G, eip |-> E, cs |-> C, eflags |-> f, mem |-> M] \in Machines
  BY <1>2, MachineFrom
<1> HIDE DEF x
<1>6. x \in Machines /\ x.gpr = G /\ x.eip = E /\ x.cs = C /\ x.eflags = f /\ x.mem = M
  BY <1>4, <1>5
<1>7. QED
  BY <1>6 DEF x, G, E, C, M

(* A machine with one register set has all else.                           *)
LEMMA RegisterSet ==
  ASSUME Byte = 8, NEW m \in Machines, NEW r \in Registers, NEW w \in Words
  PROVE  LET x == [m EXCEPT !.gpr[r] = w]
         IN /\ x \in Machines /\ x.gpr = [m.gpr EXCEPT ![r] = w]
            /\ x.eip = m.eip /\ x.cs = m.cs /\ x.eflags = m.eflags /\ x.mem = m.mem
<1> DEFINE g == [m.gpr EXCEPT ![r] = w]
<1>1. g \in [Registers -> Words]
  BY FieldsAre
<1>2. [m EXCEPT !.gpr[r] = w] = [m EXCEPT !.gpr = g]
  OBVIOUS
<1> HIDE DEF g
<1>3. QED
  BY <1>1, <1>2, WithGpr DEF g
-----------------------------------------------------------------------------
(* What each instruction leaves on the stack of the machine it enters.     *)
Entered(o, b, e) ==
  /\ e \in Machines /\ Esp(e) = Esp(b) - Bytes(o)
  /\ \A a \in Esp(b) .. Word - 1 : e.mem[a] = b.mem[a]
  /\ o.item # "frame" => e.gpr[REG_EBP] = b.gpr[REG_EBP]
  /\ o.item \notin {"int", "irq"} => e.cs = b.cs
  /\ o.item = "save" => Holds(e, Esp(e), Bytes(o), PushedValue(o))
  /\ o.item = "call" => Holds(e, Esp(e), 4, Address(b.eip + 1 + o.n \div Byte))
  /\ o.item = "call_indirect" => Holds(e, Esp(e), 4, Address(b.eip + 3))
  /\ o.item = "frame" => e.gpr[REG_EBP] = Esp(b) - 4 /\ Holds(e, Esp(b) - 4, 4, b.gpr[REG_EBP])
  /\ o.item = "all" => \A r \in Registers : Holds(e, Esp(e) + 4 * (7 - r), 4, b.gpr[r])
  /\ o.item \in {"int", "irq"} =>
       /\ Holds(e, Esp(e), 4, IF o.item = "int" THEN Address(b.eip + 2) ELSE b.eip)
       /\ Holds(e, Esp(e) + 4, 4, b.cs)
       /\ Holds(e, Esp(e) + 8, 4, EflagsWord(b.eflags))

(* A push leaves its value on top of the stack.                            *)
LEMMA EnterSave ==
  ASSUME Byte = 8, NEW b \in Machines, NEW o \in Openings, o.item = "save", Bytes(o) <= Esp(b)
  PROVE  Entered(o, b, Enter(o, b))
<1> DEFINE k == Bytes(o)
           v == PushedValue(o)
           p == PushBytes(b, k, v)
           e == After(p, 1)
<1>1. k \in {2, 4} /\ v \in Int /\ v >= 0 /\ push(b, o.n, o.v) = PushBytes(b, k, v)
  BY PushedValueIs
<1>2. Enter(o, b) = e
  BY <1>1 DEF Enter
<1> HIDE DEF k, v
<1>3. /\ p \in Machines /\ Esp(p) = Esp(b) - k
      /\ \A r \in Registers \ {REG_ESP} : p.gpr[r] = b.gpr[r]
      /\ p.cs = b.cs /\ \A a \in Esp(b) .. Word - 1 : p.mem[a] = b.mem[a]
      /\ Holds(p, Esp(b) - k, k, v)
  BY <1>1, PushIs DEF k
<1> HIDE DEF p
<1>4. e \in Machines /\ e.gpr = p.gpr /\ Esp(e) = Esp(p) /\ e.cs = p.cs /\ e.mem = p.mem
  BY <1>3, AfterIs
<1> HIDE DEF e
<1>5. e.gpr[REG_EBP] = b.gpr[REG_EBP]
  BY <1>3, <1>4, RegistersAre
<1>6. Holds(e, Esp(e), k, v)
  BY <1>3, <1>4 DEF Holds
<1>7. QED
  BY <1>2, <1>3, <1>4, <1>5, <1>6 DEF Entered, k, v

(* call leaves the address behind itself.                                  *)
LEMMA EnterCall ==
  ASSUME Byte = 8, NEW b \in Machines, NEW o \in Openings, o.item = "call", Bytes(o) <= Esp(b)
  PROVE  Entered(o, b, Enter(o, b))
<1> DEFINE v == Address(b.eip + 1 + o.n \div Byte)
           p == PushBytes(b, 4, v)
           d == sign_ext(o.rel, o.n) + 1 + o.n \div Byte
           e == After(p, d)
<1>1. Bytes(o) = 4
  BY DEF Bytes
<1>2. o.n \in Sizes /\ o.n \div Byte \in Int /\ o.rel \in Int
  BY OpeningIs, PushedAre, SizesOfLoads
<1>3. v \in Int /\ v >= 0
  <2>1. b.eip + 1 + o.n \div Byte \in Int /\ Word \in Int
    BY <1>2, RegistersAre
  <2>2. QED
    BY <2>1, AddressIs
<1>4. d \in Int
  <2>1. sign_ext(o.rel, o.n) \in Int
    BY <1>2, ExtIs
  <2>2. QED
    BY <1>2, <2>1
<1>5. Enter(o, b) = e
  BY DEF Enter, call_near, jmp_near
<1> HIDE DEF v, d
<1>6. /\ p \in Machines /\ Esp(p) = Esp(b) - 4
      /\ \A r \in Registers \ {REG_ESP} : p.gpr[r] = b.gpr[r]
      /\ p.cs = b.cs /\ \A a \in Esp(b) .. Word - 1 : p.mem[a] = b.mem[a]
      /\ Holds(p, Esp(b) - 4, 4, v)
  BY <1>1, <1>3, PushIs
<1> HIDE DEF p
<1>7. e \in Machines /\ e.gpr = p.gpr /\ Esp(e) = Esp(p) /\ e.cs = p.cs /\ e.mem = p.mem
  BY <1>4, <1>6, AfterIs
<1> HIDE DEF e
<1>8. e.gpr[REG_EBP] = b.gpr[REG_EBP]
  BY <1>6, <1>7, RegistersAre
<1>9. Holds(e, Esp(e), 4, v)
  BY <1>6, <1>7 DEF Holds
<1>10. QED
  BY <1>1, <1>5, <1>6, <1>7, <1>8, <1>9 DEF Entered, v

(* So does an indirect call, above whose frame the argument stands.        *)
LEMMA EnterCallIndirect ==
  ASSUME Byte = 8, NEW b \in Machines, NEW o \in Openings, o.item = "call_indirect", Bytes(o) <= Esp(b)
  PROVE  Entered(o, b, Enter(o, b))
<1> DEFINE l == Low(o.rel, Host)
           p == PushBytes(b, 4, l)
           q == After(p, 1)
           v == Address(q.eip + 2)
           x == PushBytes(q, 4, v)
           e == [x EXCEPT !.eip = o.rel]
<1>1. Bytes(o) = 8
  BY DEF Bytes
<1>2. o.rel \in Words /\ o.rel \in Int
  BY OpeningIs, PushedAre
<1>3. l \in Int /\ l >= 0
  <2>1. Host \in Sizes
    BY SizesOfLoads
  <2>2. QED
    BY <1>2, <2>1, LowIs
<1>4. push(b, Host, o.rel) = p
  BY SizesOfLoads DEF push
<1>5. Enter(o, b) = e
  BY <1>4 DEF Enter, call_near_indirect
<1> HIDE DEF l
<1>6. /\ p \in Machines /\ Esp(p) = Esp(b) - 4 /\ p.eip = b.eip
      /\ \A r \in Registers \ {REG_ESP} : p.gpr[r] = b.gpr[r]
      /\ p.cs = b.cs /\ \A a \in Esp(b) .. Word - 1 : p.mem[a] = b.mem[a]
  <2>1. 4 <= Esp(b)
    BY <1>1, RegistersAre
  <2>2. QED
    BY <1>3, <2>1, PushIs
<1> HIDE DEF p
<1>7. /\ q \in Machines /\ q.gpr = p.gpr /\ Esp(q) = Esp(p) /\ q.cs = p.cs /\ q.mem = p.mem
      /\ q.eip = Address(b.eip + 1)
  BY <1>6, AfterIs
<1> HIDE DEF q
<1>8. v = Address(b.eip + 3) /\ v \in Int /\ v >= 0
  <2>1. b.eip \in Int /\ b.eip + 1 \in Int /\ (b.eip + 1) + 2 = b.eip + 3 /\ b.eip + 3 \in Int /\ Word \in Int
    BY RegistersAre
  <2>2. \A z, y \in Int : Address(Address(z) + y) = Address(z + y)
    BY AddressWraps
  <2> DEFINE z == b.eip + 1
  <2>6. z \in Int /\ 2 \in Int
    BY <2>1
  <2> HIDE DEF z
  <2>7. Address(Address(z) + 2) = Address(z + 2)
    BY <2>2, <2>6, Zenon
  <2>3. Address(Address(b.eip + 1) + 2) = Address((b.eip + 1) + 2)
    BY <2>7 DEF z
  <2>4. v = Address((b.eip + 1) + 2)
    BY <1>7, <2>3
  <2>5. QED
    BY <2>1, <2>4, AddressIs
<1> HIDE DEF v
<1>9. /\ x \in Machines /\ Esp(x) = Esp(q) - 4
      /\ \A r \in Registers \ {REG_ESP} : x.gpr[r] = q.gpr[r]
      /\ x.cs = q.cs /\ \A a \in Esp(q) .. Word - 1 : x.mem[a] = q.mem[a]
      /\ Holds(x, Esp(q) - 4, 4, v)
  <2>1. 4 <= Esp(q)
    BY <1>1, <1>6, <1>7, RegistersAre
  <2>2. QED
    BY <1>7, <1>8, <2>1, PushIs
<1> HIDE DEF x
<1>10. e \in Machines /\ e.gpr = x.gpr /\ e.cs = x.cs /\ e.mem = x.mem
  BY <1>2, <1>9, WithEip
<1> HIDE DEF e
<1>11. Esp(e) = Esp(b) - 8
  BY <1>6, <1>7, <1>9, <1>10, RegistersAre DEF Esp
<1>12. e.gpr[REG_EBP] = b.gpr[REG_EBP]
  BY <1>6, <1>7, <1>9, <1>10, RegistersAre
<1>13. \A a \in Esp(b) .. Word - 1 : e.mem[a] = b.mem[a]
  BY <1>6, <1>7, <1>9, <1>10, RegistersAre
<1>14. Holds(e, Esp(e), 4, v)
  <2>1. Esp(q) - 4 = Esp(e)
    BY <1>6, <1>7, <1>11, RegistersAre
  <2>2. QED
    BY <1>9, <1>10, <2>1 DEF Holds
<1>15. QED
  BY <1>1, <1>5, <1>6, <1>7, <1>8, <1>9, <1>10, <1>11, <1>12, <1>13, <1>14 DEF Entered

(* A frame begins with the ebp from before, and ebp points at it.          *)
LEMMA EnterFrame ==
  ASSUME Byte = 8, NEW b \in Machines, NEW o \in Openings, o.item = "frame", Bytes(o) <= Esp(b)
  PROVE  Entered(o, b, Enter(o, b))
<1> DEFINE w == b.gpr[REG_EBP]
           p == PushBytes(b, 4, w)
           saved == After(p, 1)
           x == [saved EXCEPT !.gpr[REG_EBP] = Esp(saved)]
           framed == After(x, 2)
           y == MoveEsp(framed, -o.locals)
           e == After(y, 3)
<1>1. Bytes(o) = 4 + o.locals /\ o.locals \in Nat
  BY OpeningIs, ExecutionAssumption DEF Bytes
<1>2. w \in Int /\ w >= 0 /\ w < Word /\ Word \in Int
  BY RegistersAre DEF Words
<1>3. Low(w, Host) = w
  <2>1. Address(w) = w
    BY <1>2, AddressIs
  <2>2. QED
    BY <2>1 DEF Low, Address, Word
<1>4. push(b, Host, w) = p
  BY <1>3, SizesOfLoads DEF push
<1>5. Enter(o, b) = e
  BY <1>4 DEF Enter
<1> HIDE DEF w
<1>6. /\ p \in Machines /\ Esp(p) = Esp(b) - 4
      /\ \A r \in Registers \ {REG_ESP} : p.gpr[r] = b.gpr[r]
      /\ p.cs = b.cs /\ \A a \in Esp(b) .. Word - 1 : p.mem[a] = b.mem[a]
      /\ Holds(p, Esp(b) - 4, 4, w)
  <2>1. 4 <= Esp(b)
    BY <1>1, RegistersAre
  <2>2. QED
    BY <1>2, <2>1, PushIs
<1> HIDE DEF p
<1>7. saved \in Machines /\ saved.gpr = p.gpr /\ Esp(saved) = Esp(p) /\ saved.cs = p.cs /\ saved.mem = p.mem
  BY <1>6, AfterIs
<1> HIDE DEF saved
<1>8. x \in Machines /\ x.gpr = [saved.gpr EXCEPT ![REG_EBP] = Esp(saved)] /\ x.cs = saved.cs /\ x.mem = saved.mem
  BY <1>7, RegistersAre, RegisterSet
<1>9. Esp(x) = Esp(b) - 4 /\ x.gpr[REG_EBP] = Esp(b) - 4
  <2>1. saved.gpr \in [Registers -> Words] /\ REG_EBP \in Registers /\ REG_ESP \in Registers /\ REG_EBP # REG_ESP
    BY <1>7, FieldsAre, RegistersAre
  <2>2. x.gpr[REG_EBP] = Esp(saved) /\ x.gpr[REG_ESP] = saved.gpr[REG_ESP]
    BY <1>8, <2>1
  <2>3. QED
    BY <1>6, <1>7, <2>2 DEF Esp
<1> HIDE DEF x
<1>10. framed \in Machines /\ framed.gpr = x.gpr /\ Esp(framed) = Esp(x) /\ framed.cs = x.cs /\ framed.mem = x.mem
  BY <1>8, AfterIs
<1> HIDE DEF framed
<1>11. /\ y \in Machines /\ Esp(y) = Esp(framed) + (-o.locals)
       /\ \A r \in Registers \ {REG_ESP} : y.gpr[r] = framed.gpr[r]
       /\ y.cs = framed.cs /\ y.mem = framed.mem
  <2>1. -o.locals \in Int /\ Esp(framed) + (-o.locals) >= 0 /\ Esp(framed) + (-o.locals) < Word
    BY <1>1, <1>9, <1>10, RegistersAre
  <2>2. QED
    BY <1>10, <2>1, MoveIs
<1> HIDE DEF y
<1>12. e \in Machines /\ e.gpr = y.gpr /\ Esp(e) = Esp(y) /\ e.cs = y.cs /\ e.mem = y.mem
  BY <1>11, AfterIs
<1> HIDE DEF e
<1>13. Esp(e) = Esp(b) - Bytes(o)
  BY <1>1, <1>9, <1>10, <1>11, <1>12, RegistersAre
<1>14. e.gpr[REG_EBP] = Esp(b) - 4
  BY <1>9, <1>10, <1>11, <1>12, RegistersAre
<1>15. e.cs = b.cs /\ e.mem = p.mem
  BY <1>6, <1>7, <1>8, <1>10, <1>11, <1>12
<1>16. Holds(e, Esp(b) - 4, 4, w)
  BY <1>6, <1>15 DEF Holds
<1>17. QED
  BY <1>5, <1>6, <1>12, <1>13, <1>14, <1>15, <1>16 DEF Entered, w

(* The first n registers of b stand on the stack of x.                     *)
Stacked(b, x, n) ==
  /\ x \in Machines /\ Esp(x) = Esp(b) - 4 * n /\ x.cs = b.cs /\ x.gpr[REG_EBP] = b.gpr[REG_EBP]
  /\ \A a \in Esp(b) .. Word - 1 : x.mem[a] = b.mem[a]
  /\ \A r \in Registers : r < n => Holds(x, Esp(b) - 4 * (r + 1), 4, b.gpr[r])

(* One more push of pusha, with those before it still standing.            *)
LEMMA OneMore ==
  ASSUME Byte = 8, NEW b \in Machines, 32 <= Esp(b), NEW n \in Registers, NEW x, Stacked(b, x, n)
  PROVE  Stacked(b, PushRegister(x, b, n), n + 1)
<1> DEFINE v == b.gpr[n]
           y == PushBytes(x, 4, v)
           s == Esp(b)
           at == s - 4 * n
<1>1. v \in Int /\ v >= 0 /\ s \in Int /\ s >= 32 /\ Word \in Int /\ s < Word /\ n \in Int /\ n >= 0 /\ n <= 7
  BY RegistersAre DEF Words, Registers
<1>2. x \in Machines /\ Esp(x) = at /\ at \in Int /\ at >= 4 /\ at <= s
  BY <1>1 DEF Stacked
<1>3. PushRegister(x, b, n) = y
  BY DEF PushRegister
<1> HIDE DEF v
<1>4. /\ y \in Machines /\ Esp(y) = at - 4
      /\ \A r \in Registers \ {REG_ESP} : y.gpr[r] = x.gpr[r]
      /\ y.cs = x.cs /\ \A a \in at .. Word - 1 : y.mem[a] = x.mem[a]
      /\ Holds(y, at - 4, 4, v)
  BY <1>1, <1>2, PushIs
<1> HIDE DEF y
<1>5. Esp(y) = s - 4 * (n + 1) /\ at - 4 = s - 4 * (n + 1)
  BY <1>1, <1>4
<1>6. y.cs = b.cs /\ y.gpr[REG_EBP] = b.gpr[REG_EBP]
  BY <1>4, RegistersAre DEF Stacked
<1>7. \A a \in s .. Word - 1 : y.mem[a] = b.mem[a]
  BY <1>1, <1>2, <1>4 DEF Stacked
<1>8. ASSUME NEW r \in Registers, r < n + 1 PROVE Holds(y, s - 4 * (r + 1), 4, b.gpr[r])
  <2>1. CASE r = n
    BY <1>4, <1>5, <2>1 DEF v
  <2>2. CASE r # n
    <3>1. r \in Int /\ r < n /\ r >= 0
      BY <1>1, <1>8, <2>2 DEF Registers
    <3>2. Holds(x, s - 4 * (r + 1), 4, b.gpr[r])
      BY <3>1 DEF Stacked
    <3> DEFINE z == s - 4 * (r + 1)
    <3>3. z \in Int /\ z >= at /\ z + 4 <= Word
      BY <1>1, <3>1
    <3> HIDE DEF z
    <3>4. Holds(x, z, 4, b.gpr[r])
      BY <3>2 DEF z
    <3>5. Holds(y, z, 4, b.gpr[r])
      BY <1>2, <1>4, <3>3, <3>4, HoldsStill
    <3>6. QED
      BY <3>5 DEF z
  <2>3. QED
    BY <2>1, <2>2
<1>9. QED
  BY <1>3, <1>4, <1>5, <1>6, <1>7, <1>8 DEF Stacked

(* pusha leaves all registers, each at its place.                          *)
LEMMA EnterAll ==
  ASSUME Byte = 8, NEW b \in Machines, NEW o \in Openings, o.item = "all", Bytes(o) <= Esp(b)
  PROVE  Entered(o, b, Enter(o, b))
<1> DEFINE P(x, r) == PushRegister(x, b, r)
           x1 == P(b, 0)
           x2 == P(x1, 1)
           x3 == P(x2, 2)
           x4 == P(x3, 3)
           x5 == P(x4, 4)
           x6 == P(x5, 5)
           x7 == P(x6, 6)
           x8 == P(x7, 7)
           e == After(x8, 1)
<1>1. Bytes(o) = 32
  BY DEF Bytes
<1> HIDE DEF P
<1>2. Enter(o, b) = e
  <2>1. PushHalf(b, b, 0) = x4
    BY DEF PushHalf, P
  <2> HIDE DEF x4
  <2>2. PushHalf(x4, b, 4) = x8
    BY DEF PushHalf, P
  <2>3. QED
    BY <2>1, <2>2 DEF Enter, pusha
<1>3. Stacked(b, b, 0)
  BY RegistersAre DEF Stacked, Registers
<1>4. \A n \in 0 .. 7 : \A x : Stacked(b, x, n) => Stacked(b, P(x, n), n + 1)
  BY <1>1, OneMore DEF P, Registers
<1> HIDE DEF x1, x2, x3, x4, x5, x6, x7, x8
<1>5. Stacked(b, x1, 1)
  BY <1>3, <1>4 DEF x1
<1>6. Stacked(b, x2, 2)
  BY <1>4, <1>5 DEF x2
<1>7. Stacked(b, x3, 3)
  BY <1>4, <1>6 DEF x3
<1>8. Stacked(b, x4, 4)
  BY <1>4, <1>7 DEF x4
<1>9. Stacked(b, x5, 5)
  BY <1>4, <1>8 DEF x5
<1>10. Stacked(b, x6, 6)
  BY <1>4, <1>9 DEF x6
<1>11. Stacked(b, x7, 7)
  BY <1>4, <1>10 DEF x7
<1>12. Stacked(b, x8, 8)
  BY <1>4, <1>11 DEF x8
<1>13. e \in Machines /\ e.gpr = x8.gpr /\ Esp(e) = Esp(x8) /\ e.cs = x8.cs /\ e.mem = x8.mem
  BY <1>12, AfterIs DEF Stacked
<1> HIDE DEF e
<1>14. Esp(b) \in Int /\ Esp(e) = Esp(b) - 32
  BY <1>12, <1>13, RegistersAre DEF Stacked
<1>15. ASSUME NEW r \in Registers PROVE Holds(e, Esp(e) + 4 * (7 - r), 4, b.gpr[r])
  <2>1. r < 8 /\ Esp(e) + 4 * (7 - r) = Esp(b) - 4 * (r + 1)
    BY <1>14 DEF Registers
  <2>2. QED
    BY <1>12, <1>13, <2>1 DEF Stacked, Holds
<1>16. QED
  BY <1>1, <1>2, <1>12, <1>13, <1>14, <1>15 DEF Entered, Stacked

(* eflags fit in a word and are found in its bits again.                   *)
LEMMA EflagsAre ==
  ASSUME NEW f \in EflagsRecords
  PROVE  /\ EflagsWord(f) \in Int /\ EflagsWord(f) >= 0 /\ EflagsWord(f) < 8
         /\ f = [CF |-> Bit(EflagsWord(f), 0), ZF |-> Bit(EflagsWord(f), 1), INTR |-> Bit(EflagsWord(f), 2)]
<1> DEFINE c == f.CF
           z == f.ZF
           i == f.INTR
           w == c + 2 * z + 4 * i
<1>1. c \in 0 .. 1 /\ z \in 0 .. 1 /\ i \in 0 .. 1 /\ f = [CF |-> c, ZF |-> z, INTR |-> i]
  BY DEF EflagsRecords
<1>2. EflagsWord(f) = w
  BY DEF EflagsWord
<1> HIDE DEF c, z, i
<1>3. w \in Int /\ w >= 0 /\ w < 8
  BY <1>1, SMT
<1>4. 2^0 = 1 /\ 2^1 = 2 /\ 2^2 = 4
  BY SMT
<1>5. (w \div 1) % 2 = c /\ (w \div 2) % 2 = z /\ (w \div 4) % 2 = i
  BY <1>1, SMT
<1>6. Bit(w, 0) = c /\ Bit(w, 1) = z /\ Bit(w, 2) = i
  BY <1>4, <1>5 DEF Bit
<1>7. QED
  BY <1>1, <1>2, <1>3, <1>6

(* An interrupt pushes eflags, cs and eip.                                 *)
LEMMA RaiseIs ==
  ASSUME Byte = 8, NEW m \in Machines, NEW gate \in Gates, 12 <= Esp(m)
  PROVE  LET e == raise_intr(m, gate)
         IN /\ e \in Machines /\ Esp(e) = Esp(m) - 12
            /\ \A a \in Esp(m) .. Word - 1 : e.mem[a] = m.mem[a]
            /\ e.gpr[REG_EBP] = m.gpr[REG_EBP]
            /\ Holds(e, Esp(e), 4, m.eip) /\ Holds(e, Esp(e) + 4, 4, m.cs)
            /\ Holds(e, Esp(e) + 8, 4, EflagsWord(m.eflags))
<1> DEFINE f == EflagsWord(m.eflags)
           s == Esp(m)
           c == m.cs
           i == m.eip
           x == PushBytes(m, 4, f)
           y == PushBytes(x, 4, c)
           z == PushBytes(y, 4, i)
           flags == [z.eflags EXCEPT !.INTR = IF gate.interrupt THEN 0 ELSE z.eflags.INTR]
           e == [gpr |-> z.gpr, eip |-> gate.offset, cs |-> gate.cs, eflags |-> flags, mem |-> z.mem]
<1>1. s \in Int /\ s >= 12 /\ s < Word /\ Word \in Int /\ i \in Int /\ i >= 0
  BY RegistersAre DEF Words
<1>2. f \in Int /\ f >= 0 /\ c \in Int /\ c >= 0
  <2>1. m.eflags \in EflagsRecords /\ c \in 0 .. 2^(2 * Byte) - 1 /\ 2^(2 * Byte) \in Int
    BY FieldsAre, WordIs, SMT
  <2>2. QED
    BY <2>1, EflagsAre
<1> HIDE DEF f, c, i
<1>3. /\ x \in Machines /\ Esp(x) = s - 4 /\ \A r \in Registers \ {REG_ESP} : x.gpr[r] = m.gpr[r]
      /\ \A a \in s .. Word - 1 : x.mem[a] = m.mem[a]
      /\ Holds(x, s - 4, 4, f)
  BY <1>1, <1>2, PushIs
<1> HIDE DEF x
<1>4. /\ y \in Machines /\ Esp(y) = (s - 4) - 4 /\ \A r \in Registers \ {REG_ESP} : y.gpr[r] = x.gpr[r]
      /\ \A a \in s - 4 .. Word - 1 : y.mem[a] = x.mem[a]
      /\ Holds(y, (s - 4) - 4, 4, c)
  BY <1>1, <1>2, <1>3, PushIs
<1> HIDE DEF y
<1>5. /\ z \in Machines /\ Esp(z) = (s - 8) - 4 /\ \A r \in Registers \ {REG_ESP} : z.gpr[r] = y.gpr[r]
      /\ \A a \in s - 8 .. Word - 1 : z.mem[a] = y.mem[a]
      /\ Holds(z, (s - 8) - 4, 4, i)
  <2>1. (s - 4) - 4 = s - 8
    BY <1>1
  <2>2. QED
    BY <1>1, <1>2, <1>4, <2>1, PushIs
<1> HIDE DEF z, s
<1>6. raise_intr(m, gate) = e
  <2>1. raise_intr(m, gate) =
          [z EXCEPT !.eflags.INTR = IF gate.interrupt THEN 0 ELSE @, !.cs = gate.cs, !.eip = gate.offset]
    BY DEF raise_intr, f, c, i, x, y, z
  <2> DEFINE v == IF gate.interrupt THEN 0 ELSE z.eflags.INTR
             k == gate.cs
             l == gate.offset
  <2>2. raise_intr(m, gate) = ToGate(z, v, k, l)
    BY <2>1 DEF ToGate
  <2>3. e = [gpr |-> z.gpr, eip |-> l, cs |-> k, eflags |-> [z.eflags EXCEPT !.INTR = v], mem |-> z.mem]
    OBVIOUS
  <2> HIDE DEF v, k, l, e
  <2>4. QED
    BY <1>5, <2>2, <2>3, RaiseUpdate
<1>7. gate.offset \in Words /\ gate.cs \in 0 .. 2^(2 * Byte) - 1
  <2>1. gate.offset = Word \div 2 /\ gate.cs = 1
    BY DEF Gates
  <2>2. Word \div 2 \in 0 .. Word - 1
    BY WordIs, SMT
  <2>3. 1 \in 0 .. 2^(2 * Byte) - 1
    BY WordIs, SMT
  <2>4. QED
    BY <2>1, <2>2, <2>3 DEF Words
<1>8. flags \in EflagsRecords
  <2>1. z.eflags \in EflagsRecords
    BY <1>5, FieldsAre
  <2>2. QED
    BY <2>1 DEF EflagsRecords
<1> HIDE DEF flags
<1>9. e \in Machines /\ e.gpr = z.gpr /\ e.mem = z.mem
  <2>1. z.gpr \in [Registers -> Words] /\ z.mem \in [Words -> 0 .. 2^Byte - 1]
    BY <1>5, FieldsAre
  <2> DEFINE k == gate.cs
             l == gate.offset
  <2>2. e = [gpr |-> z.gpr, eip |-> l, cs |-> k, eflags |-> flags, mem |-> z.mem]
    OBVIOUS
  <2>3. l \in Words /\ k \in 0 .. 2^(2 * Byte) - 1
    BY <1>7
  <2> HIDE DEF k, l, e
  <2>4. e \in Machines
    BY <1>8, <2>1, <2>2, <2>3, MachineFrom
  <2>5. QED
    BY <2>2, <2>4
<1> HIDE DEF e
<1>10. Esp(e) = s - 12 /\ Esp(e) + 4 = s - 8 /\ Esp(e) + 8 = s - 4
  <2>1. Esp(e) = Esp(z)
    BY <1>9 DEF Esp
  <2>2. QED
    BY <1>1, <1>5, <2>1
<1>11. e.gpr[REG_EBP] = m.gpr[REG_EBP]
  BY <1>3, <1>4, <1>5, <1>9, RegistersAre
<1>12. \A a \in s .. Word - 1 : e.mem[a] = m.mem[a]
  BY <1>1, <1>3, <1>4, <1>5, <1>9
<1>13. Holds(e, s - 12, 4, i)
  <2>1. (s - 8) - 4 = s - 12
    BY <1>1
  <2>2. QED
    BY <1>5, <1>9, <2>1 DEF Holds
<1>14. Holds(e, s - 8, 4, c)
  <2> DEFINE a8 == s - 8
  <2>1. (s - 4) - 4 = a8 /\ a8 \in Int /\ a8 + 4 <= Word /\ a8 >= a8
    BY <1>1
  <2>2. Holds(y, a8, 4, c) /\ \A a \in a8 .. Word - 1 : z.mem[a] = y.mem[a]
    BY <1>4, <1>5, <2>1
  <2> HIDE DEF a8
  <2>3. Holds(z, a8, 4, c)
    BY <2>1, <2>2, HoldsStill
  <2>4. QED
    BY <1>9, <2>3 DEF Holds, a8
<1>15. Holds(e, s - 4, 4, f)
  <2> DEFINE a4 == s - 4
             a8 == s - 8
  <2>1. a4 \in Int /\ a8 \in Int /\ a4 + 4 <= Word /\ a4 >= a8 /\ a4 >= a4
    BY <1>1
  <2>2. /\ Holds(x, a4, 4, f)
        /\ \A a \in a4 .. Word - 1 : y.mem[a] = x.mem[a]
        /\ \A a \in a8 .. Word - 1 : z.mem[a] = y.mem[a]
    BY <1>3, <1>4, <1>5
  <2> HIDE DEF a4, a8
  <2>3. Holds(y, a4, 4, f)
    BY <2>1, <2>2, HoldsStill
  <2>4. Holds(z, a4, 4, f)
    BY <2>1, <2>2, <2>3, HoldsStill
  <2>5. QED
    BY <1>9, <2>4 DEF Holds, a4
<1>16. QED
  BY <1>6, <1>9, <1>10, <1>11, <1>12, <1>13, <1>14, <1>15 DEF f, c, i, s

(* int and an interrupt request leave eip, cs and eflags.                  *)
LEMMA EnterInterrupt ==
  ASSUME Byte = 8, NEW b \in Machines, NEW o \in Openings, o.item \in {"int", "irq"}, Bytes(o) <= Esp(b)
  PROVE  Entered(o, b, Enter(o, b))
<1> DEFINE m == IF o.item = "int" THEN After(b, 2) ELSE b
           e == raise_intr(m, o.gate)
<1>1. Bytes(o) = 12 /\ o.gate \in Gates
  BY OpeningIs DEF Bytes
<1>2. Enter(o, b) = e
  BY DEF Enter, raise_sw_intr
<1>3. /\ m \in Machines /\ m.gpr = b.gpr /\ Esp(m) = Esp(b) /\ m.cs = b.cs /\ m.eflags = b.eflags /\ m.mem = b.mem
      /\ m.eip = IF o.item = "int" THEN Address(b.eip + 2) ELSE b.eip
  BY AfterIs
<1> HIDE DEF m
<1>4. 12 <= Esp(m)
  BY <1>1, <1>3
<1>5. /\ e \in Machines /\ Esp(e) = Esp(m) - 12
      /\ \A a \in Esp(m) .. Word - 1 : e.mem[a] = m.mem[a]
      /\ e.gpr[REG_EBP] = m.gpr[REG_EBP]
      /\ Holds(e, Esp(e), 4, m.eip) /\ Holds(e, Esp(e) + 4, 4, m.cs)
      /\ Holds(e, Esp(e) + 8, 4, EflagsWord(m.eflags))
  BY <1>1, <1>3, <1>4, RaiseIs
<1> HIDE DEF e
<1>6. QED
  BY <1>1, <1>2, <1>3, <1>5 DEF Entered

(* Each instruction leaves what its counterpart will read.                 *)
LEMMA EnterIs ==
  ASSUME Byte = 8, NEW b \in Machines, NEW o \in Openings, Bytes(o) <= Esp(b)
  PROVE  Entered(o, b, Enter(o, b))
BY OpeningIs, EnterSave, EnterCall, EnterCallIndirect, EnterFrame, EnterAll, EnterInterrupt
-----------------------------------------------------------------------------
(* Whatever ran since the stack was entered, what was left there and above *)
(* still stands, and each instruction finds what its counterpart left.     *)
Arrived(o, b, m) ==
  /\ m \in Machines /\ Esp(m) = Esp(b) - Bytes(o)
  /\ Esp(m) \in Int /\ Esp(m) >= 0 /\ Esp(b) \in Int /\ Esp(b) < Word /\ Word \in Int /\ Bytes(o) \in Int
  /\ \A a \in Esp(b) .. Word - 1 : m.mem[a] = b.mem[a]
  /\ \E e : Entered(o, b, e) /\ Same(e, m, Esp(m) + LocalBytes(o))

(* Local variables are a part of their frame.                              *)
LEMMA LocalsFit ==
  ASSUME Byte = 8, NEW o \in Openings
  PROVE  LocalBytes(o) \in Int /\ LocalBytes(o) >= 0 /\ Bytes(o) \in Int /\ LocalBytes(o) <= Bytes(o)
<1>1. CASE o.item = "frame"
  BY <1>1, OpeningIs, ExecutionAssumption DEF LocalBytes, Bytes
<1>2. CASE o.item = "save"
  BY <1>2, PushedValueIs DEF LocalBytes
<1>3. CASE o.item \notin {"frame", "save"}
  BY <1>3, OpeningIs DEF LocalBytes, Bytes
<1>4. QED
  BY <1>1, <1>2, <1>3

(* Instructions that change nothing above the local variables keep what    *)
(* was entered.                                                            *)
LEMMA ArrivedIs ==
  ASSUME Byte = 8, NEW b \in Machines, NEW m \in Machines, NEW o \in Openings, Bytes(o) <= Esp(b),
         NEW e, Entered(o, b, e), Same(e, m, Esp(e) + LocalBytes(o))
  PROVE  Arrived(o, b, m)
<1>1. LocalBytes(o) \in Int /\ LocalBytes(o) >= 0 /\ Bytes(o) \in Int /\ LocalBytes(o) <= Bytes(o)
  BY LocalsFit
<1> DEFINE s == Esp(b)
           t == Esp(m)
           at == t + LocalBytes(o)
<1>2. s \in Int /\ s < Word /\ Word \in Int /\ t \in Int /\ t >= 0
  BY RegistersAre
<1>3. Esp(e) = t /\ t = s - Bytes(o) /\ \A a \in s .. Word - 1 : e.mem[a] = b.mem[a]
  BY DEF Entered, Same
<1>4. \A a \in at .. Word - 1 : m.mem[a] = e.mem[a]
  BY <1>3 DEF Same
<1>5. at \in Int /\ at <= s
  BY <1>1, <1>2, <1>3
<1>6. \A a \in s .. Word - 1 : m.mem[a] = b.mem[a]
  <2> HIDE DEF at, s
  <2>1. s \in Int
    BY <1>2
  <2>2. QED
    BY <1>2, <1>3, <1>4, <1>5, <2>1
<1>7. Same(e, m, at)
  BY <1>3
<1>8. QED
  BY <1>1, <1>2, <1>3, <1>6, <1>7 DEF Arrived

(* A word whose bytes stand at an address is loaded.                       *)
LEMMA ReadWord ==
  ASSUME Byte = 8, NEW m \in Machines, NEW a \in Int, a >= 0, a + 4 <= Word,
         NEW v \in Words, Holds(m, a, 4, v)
  PROVE  Load(m, a, 4) = v
<1>1. v \in Int /\ v >= 0 /\ v < Word /\ 4 \in {1, 2, 4}
  BY WordIs, SMT DEF Words
<1> DEFINE t == 2^(Byte * 4)
<1>2. v < t
  BY <1>1, SizesOfLoads
<1>3. \A l \in {1, 2, 4} : a + l <= Word /\ v < 2^(Byte * l) /\ Holds(m, a, l, v) => Load(m, a, l) = v
  BY <1>1, ReadBack
<1>4. QED
  BY <1>1, <1>2, <1>3

(* ret and ret n find the address of their call.                           *)
LEMMA LeaveCall ==
  ASSUME Byte = 8, NEW b \in Machines, NEW m, NEW o \in Openings, o.item \in {"call", "call_indirect"},
         Bytes(o) <= Esp(b), Arrived(o, b, m)
  PROVE  Leave(o, m) \in Machines /\ Unwound(o, b, m, Leave(o, m))
<1> DEFINE s == Esp(m)
           v == IF o.item = "call" THEN Address(b.eip + 1 + o.n \div Byte) ELSE Address(b.eip + 3)
           l == Load(m, s, 4)
           x == MoveEsp(m, 4)
           y == [x EXCEPT !.eip = l]
           z == MoveEsp(y, 4)
<1>1. Bytes(o) = (IF o.item = "call" THEN 4 ELSE 8) /\ LocalBytes(o) = 0
  BY DEF Bytes, LocalBytes
<1>2. v \in Words
  <2>1. CASE o.item = "call"
    <3>1. o.n \in Sizes /\ o.n \div Byte \in Int
      BY <2>1, OpeningIs, SizesOfLoads
    <3>2. b.eip + 1 + o.n \div Byte \in Int
      BY <3>1, RegistersAre
    <3>3. QED
      BY <2>1, <3>2, AddressIs DEF Words
  <2>2. CASE o.item # "call"
    <3>1. b.eip + 3 \in Int
      BY RegistersAre
    <3>2. QED
      BY <2>2, <3>1, AddressIs DEF Words
  <2>3. QED
    BY <2>1, <2>2
<1>3. m \in Machines /\ s \in Int /\ s >= 0 /\ s + 4 <= Word /\ s + 4 < Word /\ s + Bytes(o) = Esp(b) /\ Esp(b) < Word
  BY <1>1 DEF Arrived
<1>4. PICK e : Entered(o, b, e) /\ Same(e, m, s + LocalBytes(o))
  BY DEF Arrived
<1>5. Holds(e, s, 4, v) /\ e.cs = b.cs /\ e.gpr[REG_EBP] = b.gpr[REG_EBP]
  <2>1. Esp(e) = s
    BY <1>4 DEF Same
  <2>2. QED
    BY <1>4, <2>1 DEF Entered
<1>6. m.cs = b.cs /\ m.gpr[REG_EBP] = b.gpr[REG_EBP] /\ \A a \in s .. Word - 1 : m.mem[a] = e.mem[a]
  BY <1>1, <1>3, <1>4, <1>5 DEF Same
<1> HIDE DEF v
<1>7. l = v
  <2> HIDE DEF s
  <2>1. s >= s
    BY <1>3
  <2>2. Holds(m, s, 4, v)
    BY <1>3, <1>5, <1>6, <2>1, HoldsStill
  <2>3. QED
    BY <1>2, <1>3, <2>2, ReadWord
<1> HIDE DEF l
<1>8. /\ x \in Machines /\ Esp(x) = s + 4 /\ \A r \in Registers \ {REG_ESP} : x.gpr[r] = m.gpr[r]
      /\ x.cs = m.cs /\ x.eflags = m.eflags /\ x.mem = m.mem
  BY <1>3, MoveIs
<1> HIDE DEF x
<1>9. y \in Machines /\ y.gpr = x.gpr /\ y.eip = v /\ y.cs = x.cs /\ y.eflags = x.eflags /\ y.mem = x.mem
  BY <1>2, <1>7, <1>8, WithEip
<1>10. ret_near(m) = y
  BY DEF ret_near, x, l
<1> HIDE DEF y
<1>11. REG_EBP \in Registers \ {REG_ESP} /\ \A r \in Scratch : r \in Registers \ {REG_ESP}
  BY RegistersAre, ExecutionAssumption
<1>12. Esp(y) = s + 4
  BY <1>8, <1>9 DEF Esp
<1>13. CASE o.item = "call"
  <2>1. Leave(o, m) = y
    BY <1>10, <1>13 DEF Leave
  <2>2. QED
    BY <1>1, <1>3, <1>6, <1>8, <1>9, <1>11, <1>12, <1>13, <2>1 DEF Unwound, v, Arrived
<1>14. CASE o.item = "call_indirect"
  <2>1. Leave(o, m) = z
    BY <1>10, <1>14 DEF Leave, ret_near_imm16
  <2>2. /\ z \in Machines /\ Esp(z) = (s + 4) + 4 /\ \A r \in Registers \ {REG_ESP} : z.gpr[r] = y.gpr[r]
        /\ z.eip = y.eip /\ z.cs = y.cs /\ z.eflags = y.eflags /\ z.mem = y.mem
    <3>1. Esp(y) + 4 >= 0 /\ Esp(y) + 4 < Word
      BY <1>1, <1>3, <1>12, <1>14
    <3>2. QED
      BY <1>9, <1>12, <3>1, MoveIs
  <2> HIDE DEF z
  <2>3. Esp(z) = Esp(b)
    BY <1>1, <1>3, <1>14, <2>2
  <2>4. QED
    BY <1>1, <1>3, <1>6, <1>8, <1>9, <1>11, <1>14, <2>1, <2>2, <2>3 DEF Unwound, v, Arrived
<1>15. QED
  BY <1>13, <1>14

(* A register that is written gets the same value whatever esp is.         *)
LEMMA WrittenAlike ==
  ASSUME Byte = 8, NEW g \in [Registers -> Words], NEW h \in [Registers -> Words], NEW r \in Registers,
         NEW n \in {16, 32}, NEW v \in Int, g[r] = h[r]
  PROVE  operand_write(g, r, n, v)[r] = operand_write(h, r, n, v)[r]
<1>1. n # Byte
  OBVIOUS
<1>2. QED
  BY <1>1 DEF operand_write

(* pop finds the value in the width it was pushed with.                    *)
LEMMA LeaveSave ==
  ASSUME Byte = 8, NEW b \in Machines, NEW m, NEW o \in Openings, o.item = "save",
         Bytes(o) <= Esp(b), Arrived(o, b, m)
  PROVE  Leave(o, m) \in Machines /\ Unwound(o, b, m, Leave(o, m))
<1> DEFINE s == Esp(m)
           k == Bytes(o)
           n == PopSize(o.n)
           v == PushedValue(o)
           l == Load(m, s, n \div Byte)
           x == MoveEsp(m, n \div Byte)
           g == operand_write(x.gpr, o.r, n, l)
           y == [x EXCEPT !.gpr = g]
           z == After(y, 1)
<1>1. /\ k \in {2, 4} /\ k = n \div Byte /\ n \in {16, 32} /\ LocalBytes(o) = 0
      /\ v \in Int /\ v >= 0 /\ v < 2^(Byte * k)
  BY PushedValueIs DEF LocalBytes
<1>2. m \in Machines /\ s \in Int /\ s >= 0 /\ s + k = Esp(b) /\ Esp(b) < Word /\ Word \in Int
  BY <1>1 DEF Arrived
<1>3. PICK e : Entered(o, b, e) /\ Same(e, m, s + LocalBytes(o))
  BY DEF Arrived
<1>4. Holds(e, s, k, v) /\ e.cs = b.cs /\ e.gpr[REG_EBP] = b.gpr[REG_EBP]
  <2>1. Esp(e) = s
    BY <1>3 DEF Same
  <2>2. QED
    BY <1>3, <2>1 DEF Entered
<1>5. m.cs = b.cs /\ m.gpr[REG_EBP] = b.gpr[REG_EBP] /\ \A a \in s .. Word - 1 : m.mem[a] = e.mem[a]
  BY <1>1, <1>2, <1>3, <1>4 DEF Same
<1>6. Leave(o, m) = z
  BY DEF Leave, pop
<1> HIDE DEF v
<1>7. l = v
  <2>1. l = Load(m, s, k)
    BY <1>1
  <2> HIDE DEF s, k, l, n
  <2>2. s >= s /\ k \in {1, 2, 4} /\ s + k <= Word
    BY <1>1, <1>2
  <2>3. Holds(m, s, k, v)
    <3>1. \A i \in 0 .. k - 1 : s + i \in s .. Word - 1
      BY <1>2, <2>2
    <3>2. QED
      BY <1>4, <1>5, <3>1 DEF Holds
  <2>4. Reads(m, s, k)
    BY <1>2, <2>2, LoadIs
  <2> DEFINE t == 2^(Byte * k)
             P(w) == Holds(m, s, k, w)
             r == Load(m, s, k)
  <2>5. \A w \in Int : w >= 0 /\ w < t /\ P(w) => r = w
    BY <2>4 DEF Reads
  <2>6. v \in Int /\ v >= 0 /\ v < t /\ P(v)
    BY <1>1, <2>3
  <2>7. l = r
    BY <2>1
  <2> HIDE DEF t, P, r
  <2>8. QED
    BY <2>5, <2>6, <2>7
<1> HIDE DEF l
<1>8. /\ x \in Machines /\ Esp(x) = s + k /\ \A r \in Registers \ {REG_ESP} : x.gpr[r] = m.gpr[r]
      /\ x.eip = m.eip /\ x.cs = m.cs /\ x.eflags = m.eflags /\ x.mem = m.mem
  BY <1>1, <1>2, MoveIs
<1> HIDE DEF x, n
<1>9. /\ REG_EBP \in Registers \ {REG_ESP} /\ \A r \in Scratch : r \in Registers \ {REG_ESP, REG_EBP}
      /\ o.r \in Scratch
  BY RegistersAre, OpeningIs, ExecutionAssumption
<1>10. x.gpr \in [Registers -> Words] /\ m.gpr \in [Registers -> Words]
  BY <1>2, <1>8, FieldsAre
<1>11. g \in [Registers -> Words] /\ \A r \in Registers \ {o.r} : g[r] = x.gpr[r]
  BY <1>1, <1>7, <1>9, <1>10, RegisterWritten
<1>12. \A r \in Scratch : g[r] = operand_write(m.gpr, o.r, n, v)[r]
  <2> DEFINE h == operand_write(m.gpr, o.r, n, v)
  <2>1. \A r \in Registers \ {o.r} : h[r] = m.gpr[r]
    BY <1>1, <1>9, <1>10, RegisterWritten
  <2>2. x.gpr[o.r] = m.gpr[o.r]
    BY <1>8, <1>9
  <2>3. g[o.r] = h[o.r]
    BY <1>1, <1>7, <1>9, <1>10, <2>2, WrittenAlike
  <2> HIDE DEF g, h
  <2>4. \A r \in Scratch : g[r] = h[r]
    BY <1>8, <1>9, <1>11, <2>1, <2>3
  <2>5. QED
    BY <2>4 DEF h
<1> HIDE DEF g
<1>13. y \in Machines /\ y.gpr = g /\ y.eip = x.eip /\ y.cs = x.cs /\ y.eflags = x.eflags /\ y.mem = x.mem
  BY <1>8, <1>11, WithGpr
<1> HIDE DEF y
<1>14. /\ z \in Machines /\ z.eip = Address(y.eip + 1)
       /\ z.gpr = y.gpr /\ z.cs = y.cs /\ z.eflags = y.eflags /\ z.mem = y.mem
  BY <1>13, AfterIs
<1> HIDE DEF z
<1>15. Esp(z) = Esp(b) /\ z.gpr[REG_EBP] = b.gpr[REG_EBP]
  <2>1. z.gpr[REG_ESP] = x.gpr[REG_ESP] /\ z.gpr[REG_EBP] = x.gpr[REG_EBP]
    BY <1>9, <1>11, <1>13, <1>14, RegistersAre
  <2>2. QED
    BY <1>2, <1>5, <1>8, <1>9, <2>1 DEF Esp
<1>16. \A a \in Esp(b) .. Word - 1 : z.mem[a] = b.mem[a]
  BY <1>8, <1>13, <1>14 DEF Arrived
<1>17. z.cs = b.cs /\ z.eflags = m.eflags /\ z.eip = Address(m.eip + 1)
  BY <1>5, <1>8, <1>13, <1>14
<1>18. \A r \in Scratch : z.gpr[r] = operand_write(m.gpr, o.r, PopSize(o.n), PushedValue(o))[r]
  BY <1>12, <1>13, <1>14 DEF n, v
<1>19. QED
  BY <1>6, <1>14, <1>15, <1>16, <1>17, <1>18 DEF Unwound

(* leave finds the frame behind ebp, whatever esp has become.              *)
LEMMA LeaveFrame ==
  ASSUME Byte = 8, NEW b \in Machines, NEW m, NEW o \in Openings, o.item = "frame",
         Bytes(o) <= Esp(b), Arrived(o, b, m)
  PROVE  Leave(o, m) \in Machines /\ Unwound(o, b, m, Leave(o, m))
<1> DEFINE s == m.gpr[REG_EBP]
           frame == [m EXCEPT !.gpr[REG_ESP] = s]
           v == b.gpr[REG_EBP]
           l == Load(frame, Esp(frame), 4)
           x == [frame EXCEPT !.gpr[REG_EBP] = l]
           y == MoveEsp(x, 4)
           z == After(y, 1)
<1>1. Bytes(o) = 4 + o.locals /\ LocalBytes(o) = o.locals /\ o.locals \in Nat
  BY OpeningIs, ExecutionAssumption DEF Bytes, LocalBytes
<1>2. m \in Machines /\ Esp(m) \in Int /\ Esp(m) >= 0 /\ Esp(m) + Bytes(o) = Esp(b) /\ Esp(b) < Word /\ Word \in Int /\ Esp(b) \in Int
  BY <1>1 DEF Arrived
<1>3. PICK e : Entered(o, b, e) /\ Same(e, m, Esp(m) + LocalBytes(o))
  BY DEF Arrived
<1>4. Holds(e, Esp(b) - 4, 4, v) /\ e.cs = b.cs /\ e.gpr[REG_EBP] = Esp(b) - 4
  BY <1>3 DEF Entered
<1>5. s = Esp(b) - 4 /\ m.cs = b.cs /\ s = Esp(m) + LocalBytes(o)
  BY <1>1, <1>2, <1>3, <1>4 DEF Same
<1>6. \A a \in s .. Word - 1 : m.mem[a] = e.mem[a]
  BY <1>3, <1>5 DEF Same
<1>7. s \in Words /\ s \in Int /\ s >= 0 /\ s + 4 < Word /\ s + 4 <= Word /\ s + 4 = Esp(b) /\ v \in Words
  BY <1>1, <1>2, <1>5, RegistersAre
<1>8. Leave(o, m) = z
  BY DEF Leave, leave
<1>9. Holds(e, s, 4, v)
  BY <1>4, <1>5
<1>10. REG_EBP \in Registers /\ REG_ESP \in Registers /\ REG_EBP # REG_ESP
  BY RegistersAre
<1> HIDE DEF s, v
<1>11. /\ frame \in Machines /\ frame.gpr = [m.gpr EXCEPT ![REG_ESP] = s]
       /\ frame.eip = m.eip /\ frame.cs = m.cs /\ frame.eflags = m.eflags /\ frame.mem = m.mem
  BY <1>2, <1>7, <1>10, RegisterSet
<1> HIDE DEF frame
<1>12. Esp(frame) = s
  BY <1>2, <1>10, <1>11, FieldsAre DEF Esp
<1>13. l = v
  <2>1. s >= s
    BY <1>7
  <2>2. Holds(m, s, 4, v)
    BY <1>6, <1>7, <1>9, <2>1, HoldsStill
  <2>3. Holds(frame, s, 4, v)
    BY <1>11, <2>2 DEF Holds
  <2>4. QED
    BY <1>7, <1>11, <1>12, <2>3, ReadWord
<1> HIDE DEF l
<1>14. /\ x \in Machines /\ x.gpr = [frame.gpr EXCEPT ![REG_EBP] = v]
       /\ x.eip = frame.eip /\ x.cs = frame.cs /\ x.eflags = frame.eflags /\ x.mem = frame.mem
  BY <1>7, <1>10, <1>11, <1>13, RegisterSet
<1> HIDE DEF x
<1>15. Esp(x) = s /\ x.gpr[REG_EBP] = v /\ \A r \in Registers \ {REG_ESP, REG_EBP} : x.gpr[r] = m.gpr[r]
  <2>1. m.gpr \in [Registers -> Words] /\ frame.gpr \in [Registers -> Words]
    BY <1>2, <1>11, FieldsAre
  <2>2. QED
    BY <1>10, <1>11, <1>12, <1>14, <2>1 DEF Esp
<1>16. /\ y \in Machines /\ Esp(y) = s + 4 /\ \A r \in Registers \ {REG_ESP} : y.gpr[r] = x.gpr[r]
       /\ y.eip = x.eip /\ y.cs = x.cs /\ y.eflags = x.eflags /\ y.mem = x.mem
  <2>1. Esp(x) \in Int /\ Esp(x) + 4 >= 0 /\ Esp(x) + 4 < Word
    BY <1>7, <1>15
  <2>2. /\ y \in Machines /\ Esp(y) = Esp(x) + 4 /\ \A r \in Registers \ {REG_ESP} : y.gpr[r] = x.gpr[r]
        /\ y.eip = x.eip /\ y.cs = x.cs /\ y.eflags = x.eflags /\ y.mem = x.mem
    <3>1. x \in Machines
      BY <1>14
    <3>2. QED
      BY <2>1, <3>1, MoveIs
  <2>3. QED
    BY <1>15, <2>2
<1> HIDE DEF y
<1>17. /\ z \in Machines /\ z.eip = Address(y.eip + 1) /\ Esp(z) = Esp(y)
       /\ z.gpr = y.gpr /\ z.cs = y.cs /\ z.eflags = y.eflags /\ z.mem = y.mem
  BY <1>16, AfterIs
<1> HIDE DEF z
<1>18. z.gpr[REG_EBP] = v
  BY <1>10, <1>15, <1>16, <1>17
<1>19. \A r \in Scratch : z.gpr[r] = m.gpr[r]
  BY <1>15, <1>16, <1>17, ExecutionAssumption
<1>20. \A a \in Esp(b) .. Word - 1 : z.mem[a] = b.mem[a]
  BY <1>11, <1>14, <1>16, <1>17 DEF Arrived
<1>21. z.cs = b.cs /\ z.eflags = m.eflags /\ z.eip = Address(m.eip + 1) /\ Esp(z) = Esp(b)
  BY <1>5, <1>7, <1>11, <1>14, <1>16, <1>17
<1>22. QED
  BY <1>8, <1>17, <1>18, <1>19, <1>20, <1>21 DEF Unwound, v

(* popa finds every register but esp, which comes out right all the same.  *)
LEMMA LeaveAll ==
  ASSUME Byte = 8, NEW b \in Machines, NEW m, NEW o \in Openings, o.item = "all",
         Bytes(o) <= Esp(b), Arrived(o, b, m)
  PROVE  Leave(o, m) \in Machines /\ Unwound(o, b, m, Leave(o, m))
<1> DEFINE s == Esp(m)
           g == [r \in Registers |-> IF r = REG_ESP THEN Address(s + 32) ELSE Load(m, s + 4 * (7 - r), 4)]
           y == [m EXCEPT !.gpr = g]
           z == After(y, 1)
<1>1. Bytes(o) = 32 /\ LocalBytes(o) = 0
  BY DEF Bytes, LocalBytes
<1>2. m \in Machines /\ s \in Int /\ s >= 0 /\ s + 32 = Esp(b) /\ Esp(b) < Word /\ Word \in Int
  BY <1>1 DEF Arrived
<1>3. PICK e : Entered(o, b, e) /\ Same(e, m, s + LocalBytes(o))
  BY DEF Arrived
<1>4. (\A r \in Registers : Holds(e, s + 4 * (7 - r), 4, b.gpr[r])) /\ e.cs = b.cs
  <2>1. Esp(e) = s
    BY <1>3 DEF Same
  <2>2. QED
    BY <1>3, <2>1 DEF Entered
<1>5. m.cs = b.cs /\ \A a \in s .. Word - 1 : m.mem[a] = e.mem[a]
  BY <1>1, <1>2, <1>3, <1>4 DEF Same
<1>6. b.gpr \in [Registers -> Words] /\ b.gpr[REG_ESP] = Esp(b)
  BY FieldsAre DEF Esp
<1>7. Leave(o, m) = z
  BY DEF Leave, popa
<1>8. ASSUME NEW r \in Registers PROVE g[r] = b.gpr[r]
  <2>1. CASE r = REG_ESP
    <3>1. s + 32 \in 0 .. Word - 1 /\ s + 32 \in Int
      BY <1>2
    <3>2. Address(s + 32) = s + 32
      BY <3>1, AddressIs
    <3>3. QED
      BY <1>2, <1>6, <2>1, <3>2
  <2>2. CASE r # REG_ESP
    <3> DEFINE a == s + 4 * (7 - r)
               w == b.gpr[r]
    <3>1. a \in Int /\ a >= s /\ a >= 0 /\ a + 4 <= Word /\ w \in Words
      BY <1>2, <1>6 DEF Registers
    <3>2. Holds(e, a, 4, w)
      BY <1>4
    <3>3. g[r] = Load(m, a, 4)
      BY <2>2
    <3> HIDE DEF a, w, s, g
    <3>4. Holds(m, a, 4, w)
      BY <1>2, <1>5, <3>1, <3>2, HoldsStill
    <3>5. Load(m, a, 4) = w
      BY <1>2, <3>1, <3>4, ReadWord
    <3>6. QED
      BY <3>3, <3>5 DEF w
  <2>3. QED
    BY <2>1, <2>2
<1>9. g = b.gpr
  <2>1. DOMAIN g = Registers
    OBVIOUS
  <2> HIDE DEF g
  <2>2. g = [r \in Registers |-> g[r]]
    BY DEF g
  <2>3. b.gpr = [r \in Registers |-> b.gpr[r]]
    BY <1>6
  <2>4. QED
    BY <1>8, <2>2, <2>3
<1> HIDE DEF g
<1>10. y \in Machines /\ y.gpr = b.gpr /\ y.eip = m.eip /\ y.cs = m.cs /\ y.eflags = m.eflags /\ y.mem = m.mem
  BY <1>2, <1>6, <1>9, WithGpr
<1> HIDE DEF y
<1>11. /\ z \in Machines /\ z.eip = Address(y.eip + 1)
       /\ z.gpr = y.gpr /\ z.cs = y.cs /\ z.eflags = y.eflags /\ z.mem = y.mem
  BY <1>10, AfterIs
<1> HIDE DEF z
<1>12. \A a \in Esp(b) .. Word - 1 : z.mem[a] = b.mem[a]
  BY <1>10, <1>11 DEF Arrived
<1>13. z.gpr = b.gpr /\ Esp(z) = Esp(b) /\ z.cs = b.cs /\ z.eflags = m.eflags /\ z.eip = Address(m.eip + 1)
  BY <1>5, <1>10, <1>11 DEF Esp
<1>14. QED
  BY <1>7, <1>11, <1>12, <1>13 DEF Unwound

(* cs is sixteen bits wide.                                                *)
LEMMA CsIs ==
  ASSUME Byte = 8, NEW b \in Machines
  PROVE  b.cs \in Int /\ b.cs >= 0 /\ b.cs < 65536
<1> DEFINE top == 2^(2 * Byte) - 1
           c == b.cs
<1>1. c \in 0 .. top
  BY FieldsAre
<1>2. top = 65535
  BY WordIs, SMT
<1> HIDE DEF top, c
<1>3. c \in Int /\ c >= 0 /\ c < 65536
  BY <1>1, <1>2, SMT
<1>4. QED
  BY <1>3 DEF c

(* iret finds eip, cs and eflags.                                          *)
LEMMA LeaveInterrupt ==
  ASSUME Byte = 8, NEW b \in Machines, NEW m, NEW o \in Openings, o.item \in {"int", "irq"},
         Bytes(o) <= Esp(b), Arrived(o, b, m)
  PROVE  Leave(o, m) \in Machines /\ Unwound(o, b, m, Leave(o, m))
<1> DEFINE s == Esp(m)
           i == IF o.item = "int" THEN Address(b.eip + 2) ELSE b.eip
           c == b.cs
           f == EflagsWord(b.eflags)
           li == Load(m, s, 4)
           lc == Load(m, s + 4, 4)
           lf == Load(m, s + 8, 4)
           x == MoveEsp(m, 12)
           lowc == Low(lc, 2 * Byte)
           flags == [CF |-> Bit(lf, 0), ZF |-> Bit(lf, 1), INTR |-> Bit(lf, 2)]
           z == [gpr |-> x.gpr, eip |-> li, cs |-> lowc, eflags |-> flags, mem |-> x.mem]
<1>1. Bytes(o) = 12 /\ LocalBytes(o) = 0
  BY DEF Bytes, LocalBytes
<1>2. m \in Machines /\ s \in Int /\ s >= 0 /\ s + 12 = Esp(b) /\ Esp(b) < Word /\ Word \in Int /\ s + 12 < Word
  BY <1>1 DEF Arrived
<1>3. PICK e : Entered(o, b, e) /\ Same(e, m, s + LocalBytes(o))
  BY DEF Arrived
<1>4. /\ Holds(e, s, 4, i) /\ Holds(e, s + 4, 4, c) /\ Holds(e, s + 8, 4, f)
      /\ e.gpr[REG_EBP] = b.gpr[REG_EBP]
  <2>1. Esp(e) = s
    BY <1>3 DEF Same
  <2>2. QED
    BY <1>3, <2>1 DEF Entered
<1>5. m.gpr[REG_EBP] = b.gpr[REG_EBP] /\ \A a \in s .. Word - 1 : m.mem[a] = e.mem[a]
  BY <1>1, <1>2, <1>3, <1>4 DEF Same
<1>6. i \in Words
  <2>1. b.eip \in Words /\ b.eip + 2 \in Int
    BY RegistersAre
  <2>2. QED
    BY <2>1, AddressIs DEF Words
<1>7. c \in Int /\ c >= 0 /\ c < 65536 /\ b.eflags \in EflagsRecords /\ f \in Int /\ f >= 0 /\ f < 8
  BY CsIs, FieldsAre, EflagsAre
<1> HIDE DEF i, c, f
<1>8. c \in Words /\ f \in Words
  <2>1. Word \in Int /\ Word > 65536
    BY WordIs, SMT
  <2>2. QED
    BY <1>7, <2>1, SMT DEF Words
<1>9. ASSUME NEW d \in {0, 4, 8}, NEW v \in Words, Holds(e, s + d, 4, v) PROVE Load(m, s + d, 4) = v
  <2> DEFINE a == s + d
  <2>1. a \in Int /\ a >= 0 /\ a >= s /\ a + 4 <= Word
    BY <1>2
  <2> HIDE DEF a
  <2>2. Holds(e, a, 4, v)
    BY <1>9 DEF a
  <2> HIDE DEF s
  <2>3. Holds(m, a, 4, v)
    BY <1>2, <1>5, <2>1, <2>2, HoldsStill
  <2>4. Load(m, a, 4) = v
    BY <1>2, <2>1, <2>3, ReadWord
  <2>5. QED
    BY <2>4 DEF a
<1>10. li = i /\ lc = c /\ lf = f
  <2>1. s + 0 = s
    BY <1>2
  <2>2. QED
    BY <1>4, <1>6, <1>8, <1>9, <2>1
<1>11. lowc = c
  <2>1. 2 * Byte = 16
    BY SMT
  <2>2. Low(c, 16) = c % 65536
    BY Powers, SMT DEF Low
  <2>3. c = (65536 * 0) + c
    BY <1>7, SMT
  <2>4. c % 65536 = c
    BY <1>7, <2>3, ModUnique, SMT
  <2>5. QED
    BY <1>10, <2>1, <2>2, <2>4
<1>12. flags = b.eflags
  BY <1>7, <1>10, EflagsAre DEF f
<1>13. /\ x \in Machines /\ Esp(x) = s + 12 /\ \A r \in Registers \ {REG_ESP} : x.gpr[r] = m.gpr[r]
       /\ x.mem = m.mem
  BY <1>2, MoveIs
<1>14. Leave(o, m) = z
  <2>1. Leave(o, m) = FromStack(x, li, lowc, flags)
    BY DEF Leave, iret, FromStack
  <2> HIDE DEF x, li, lowc, flags
  <2>2. QED
    BY <1>13, <2>1, IretUpdate
<1> HIDE DEF li, lc, lf, lowc, flags, x
<1>15. z \in Machines /\ z.gpr = x.gpr /\ z.mem = m.mem /\ z.eip = i /\ z.cs = b.cs /\ z.eflags = b.eflags
  <2>1. z = [gpr |-> x.gpr, eip |-> i, cs |-> c, eflags |-> b.eflags, mem |-> x.mem]
    BY <1>10, <1>11, <1>12
  <2>2. x.gpr \in [Registers -> Words] /\ x.mem \in [Words -> 0 .. 2^Byte - 1]
    BY <1>13, FieldsAre
  <2>3. b.cs \in 0 .. 2^(2 * Byte) - 1 /\ b.eflags \in EflagsRecords
    BY FieldsAre
  <2> DEFINE F == b.eflags
             C == b.cs
  <2>6. z = [gpr |-> x.gpr, eip |-> i, cs |-> C, eflags |-> F, mem |-> x.mem]
    BY <2>1 DEF c
  <2>7. C \in 0 .. 2^(2 * Byte) - 1 /\ F \in EflagsRecords
    BY <2>3
  <2> HIDE DEF F, C, z
  <2>4. z \in Machines
    BY <1>6, <2>2, <2>6, <2>7, MachineFrom
  <2>5. QED
    BY <1>13, <2>1, <2>4 DEF c
<1> HIDE DEF z
<1>16. Esp(z) = Esp(b) /\ z.gpr[REG_EBP] = b.gpr[REG_EBP] /\ \A r \in Scratch : z.gpr[r] = m.gpr[r]
  <2>1. REG_EBP \in Registers \ {REG_ESP} /\ \A r \in Scratch : r \in Registers \ {REG_ESP}
    BY RegistersAre, ExecutionAssumption
  <2>2. Esp(z) = Esp(x)
    BY <1>15 DEF Esp
  <2>3. QED
    BY <1>2, <1>5, <1>13, <1>15, <2>1, <2>2
<1>17. \A a \in Esp(b) .. Word - 1 : z.mem[a] = b.mem[a]
  BY <1>15 DEF Arrived
<1>18. QED
  BY <1>14, <1>15, <1>16, <1>17 DEF Unwound, i

(* Each counterpart undoes its instruction.                                *)
LEMMA LeaveIs ==
  ASSUME Byte = 8, NEW b \in Machines, NEW m, NEW o \in Openings, Bytes(o) <= Esp(b), Arrived(o, b, m)
  PROVE  Leave(o, m) \in Machines /\ Unwound(o, b, m, Leave(o, m))
BY OpeningIs, LeaveSave, LeaveCall, LeaveFrame, LeaveAll, LeaveInterrupt
-----------------------------------------------------------------------------
(* The repeated string instructions go from machine to machine, whatever   *)
(* they read and write and wherever they stop.                             *)
LEMMA StoreTyped ==
  ASSUME Byte = 8, NEW m \in Machines, NEW a \in Int, NEW len \in {1, 2, 4}, NEW v \in Int
  PROVE  Store(m, a, len, v) \in Machines
<1> DEFINE B(j) == Low(v \div 2^(Byte * j), Byte)
           j(b) == Address(b - a)
           y == [b \in 0 .. Word - 1 |-> IF j(b) < len THEN B(j(b)) ELSE m.mem[b]]
<1>1. DOMAIN m.mem = 0 .. Word - 1 /\ m.mem \in [0 .. Word - 1 -> 0 .. 255]
  BY MemoryIs
<1>2. Store(m, a, len, v) = [m EXCEPT !.mem = y]
  BY <1>1 DEF Store
<1>3. ASSUME NEW b \in 0 .. Word - 1 PROVE y[b] \in 0 .. 255
  <2>1. CASE j(b) < len
    <3>1. b - a \in Int /\ Word \in Int
      BY WordIs
    <3>2. j(b) \in 0 .. Word - 1
      BY <3>1, AddressIs
    <3> DEFINE i == j(b)
    <3>3. i \in 0 .. 3
      BY <2>1, <3>1, <3>2
    <3> HIDE DEF i
    <3>4. 2^(Byte * i) \in Int /\ 2^(Byte * i) > 0
      BY <3>3, BytePower
    <3>5. v \div 2^(Byte * i) \in Int
      BY <3>4, ModIs
    <3>6. B(i) \in 0 .. 255
      BY <3>5, LowByte
    <3>7. y[b] = B(i)
      BY <2>1 DEF i
    <3>8. QED
      BY <3>6, <3>7
  <2>2. CASE ~(j(b) < len)
    <3>1. y[b] = m.mem[b]
      BY <2>2
    <3>2. m.mem[b] \in 0 .. 255
      BY MemoryIs
    <3> HIDE DEF y
    <3>3. QED
      BY <3>1, <3>2
  <2>3. QED
    BY <2>1, <2>2
<1>4. y \in [0 .. Word - 1 -> 0 .. 255]
  BY <1>3
<1> HIDE DEF y
<1>5. y \in [Words -> 0 .. 2^Byte - 1]
  <2> DEFINE top == 2^Byte - 1
  <2>1. top = 255
    BY WordIs, SMT
  <2> HIDE DEF top
  <2>2. y \in [Words -> 0 .. top]
    BY <1>4, <2>1 DEF Words
  <2>3. QED
    BY <2>2 DEF top
<1>6. QED
  BY <1>2, <1>5, WithMem

(* A load, wrapped or not, gives a number.                                 *)
LEMMA LoadTyped ==
  ASSUME Byte = 8, NEW m \in Machines, NEW a \in Int, NEW len \in {1, 2, 4}
  PROVE  Load(m, a, len) \in Int
<1> DEFINE g == [i \in 0 .. len - 1 |-> m.mem[Address(a + i)] * 2^(Byte * i)]
<1>1. ASSUME NEW i \in 0 .. len - 1 PROVE g[i] \in Int
  <2>1. i \in 0 .. 3 /\ a + i \in Int
    OBVIOUS
  <2> DEFINE p == 2^(Byte * i)
             c == m.mem[Address(a + i)]
  <2>2. p \in Int
    BY <2>1, BytePower
  <2>3. Address(a + i) \in 0 .. Word - 1
    BY <2>1, AddressIs
  <2>4. c \in 0 .. 255
    BY <2>3, MemoryIs
  <2>5. g[i] = c * p
    OBVIOUS
  <2> HIDE DEF c, p, g
  <2>6. QED
    BY <2>2, <2>4, <2>5
<1>2. len \in Nat /\ len \in 0 .. len
  OBVIOUS
<1>3. Load(m, a, len) = PartialSums(g, len)[len]
  BY DEF Load
<1> HIDE DEF g
<1>4. QED
  BY <1>1, <1>2, <1>3, SumsAre

(* An index register moves to a word.                                      *)
LEMMA MoveTyped ==
  ASSUME Byte = 8, NEW m \in Machines, NEW r \in Registers, NEW d \in Int
  PROVE  Move(m, r, d) \in Machines
<1> DEFINE w == Address(m.gpr[r] + d)
<1>1. w \in Words
  <2>1. m.gpr[r] + d \in Int
    BY RegistersAre
  <2>2. QED
    BY <2>1, AddressIs DEF Words
<1>2. Move(m, r, d) = [m EXCEPT !.gpr[r] = w]
  BY DEF Move
<1> HIDE DEF w
<1>3. QED
  BY <1>1, <1>2, RegisterSet

(* A pass of a repeated instruction goes from machine to machine.          *)
LEMMA PassTyped ==
  ASSUME Byte = 8, NEW m \in Machines, NEW op \in {"movs", "stos", "cmps"}, NEW step \in Int, NEW len \in {1, 2, 4}
  PROVE  rep_repe(op, m, step, len) \in Machines
<1> DEFINE a == m.gpr[REG_EDI]
           x == StepOf(op, m, step, len)
<1>1. REG_ECX \in Registers /\ REG_ESI \in Registers /\ REG_EDI \in Registers /\ 0 \in Registers
  BY SMT DEF REG_ECX, REG_ESI, REG_EDI, Registers
<1>2. a \in Int /\ m.gpr[REG_ESI] \in Int
  BY <1>1, RegistersAre
<1> HIDE DEF a
<1>3. CASE op = "movs"
  <2> DEFINE y == Store(m, a, len, Load(m, m.gpr[REG_ESI], len))
  <2>1. y \in Machines
    BY <1>2, LoadTyped, StoreTyped
  <2>2. x = Move(Move(y, REG_ESI, step), REG_EDI, step)
    BY <1>3 DEF StepOf, movs, a
  <2> HIDE DEF y, x
  <2>3. x \in Machines
    BY <1>1, <2>1, <2>2, MoveTyped
  <2>4. QED
    BY <1>1, <2>3, MoveTyped DEF rep_repe, x
<1>4. CASE op = "stos"
  <2> DEFINE v == operand_read(m.gpr, 0, len * Byte)
             y == Store(m, a, len, v)
  <2>1. v \in Int
    <3>1. m.gpr[0] \in Int /\ 0 % 4 = 0 /\ 0 \div 4 = 0
      BY <1>1, RegistersAre
    <3>2. len * Byte \in Sizes /\ Byte \in Sizes
      BY SizesOfLoads
    <3>3. Low(m.gpr[0], len * Byte) \in Int
      BY <3>1, <3>2, LowIs
    <3>4. 2^(Byte * 0) \in Int /\ 2^(Byte * 0) > 0
      BY BytePower
    <3>5. m.gpr[0] \div 2^(Byte * 0) \in Int
      BY <3>1, <3>4, ModIs
    <3>6. Low(m.gpr[0] \div 2^(Byte * 0), Byte) \in Int
      BY <3>2, <3>5, LowIs
    <3>7. QED
      BY <3>1, <3>3, <3>6 DEF operand_read
  <2>2. x = Move(y, REG_EDI, step)
    BY <1>4 DEF StepOf, stos, a
  <2> HIDE DEF v
  <2>3. y \in Machines
    BY <1>2, <2>1, StoreTyped
  <2> HIDE DEF y, x
  <2>4. x \in Machines
    BY <1>1, <2>2, <2>3, MoveTyped
  <2>5. QED
    BY <1>1, <2>4, MoveTyped DEF rep_repe, x
<1>5. CASE op = "cmps"
  <2> DEFINE equal == Load(m, m.gpr[REG_ESI], len) = Load(m, a, len)
             f == [m.eflags EXCEPT !.ZF = Flag(equal)]
             y == [m EXCEPT !.eflags = f]
  <2>1. x = Move(Move(y, REG_ESI, step), REG_EDI, step)
    BY <1>5 DEF StepOf, cmps, a
  <2>2. f \in EflagsRecords
    <3>1. m.eflags \in EflagsRecords
      BY FieldsAre
    <3>2. Flag(equal) \in 0 .. 1
      BY DEF Flag
    <3> HIDE DEF equal
    <3>3. QED
      BY <3>1, <3>2 DEF EflagsRecords
  <2> HIDE DEF f
  <2>3. y \in Machines
    BY <2>2, WithEflags
  <2> HIDE DEF y, x
  <2>4. x \in Machines
    BY <1>1, <2>1, <2>3, MoveTyped
  <2>5. QED
    BY <1>1, <2>4, MoveTyped DEF rep_repe, x
<1>6. QED
  BY <1>3, <1>4, <1>5
-----------------------------------------------------------------------------
Strings ==
  [op : {"movs", "stos", "cmps"}, len : {1, 2, 4}, step : Int, copy : Copies, before : Machines, over : BOOLEAN]

ProgramTypeOK ==
  /\ machine \in Machines
  /\ nest \in Seq([opening : Openings, before : Machines])
  /\ string # NoString => string \in Strings /\ nest = <<>>

(* What ran in between of the i-th opening: the machine now, or the one in *)
(* which the next was entered.                                             *)
Since(i) == IF i = Len(nest) THEN machine ELSE nest[i + 1].before

(* Each opening of the nest can still be undone.                           *)
NestStands ==
  \A i \in 1 .. Len(nest) :
    /\ Bytes(nest[i].opening) <= Esp(nest[i].before)
    /\ Arrived(nest[i].opening, nest[i].before, Since(i))

ProgramInv == ProgramTypeOK /\ NestStands

(* Further such instructions keep it as well.                              *)
LEMMA ArrivedStill ==
  ASSUME Byte = 8, NEW b, NEW o \in Openings, NEW m, NEW x \in Machines,
         Arrived(o, b, m), Same(m, x, Esp(m) + LocalBytes(o))
  PROVE  Arrived(o, b, x)
<1> DEFINE s == Esp(m)
           at == s + LocalBytes(o)
<1>1. LocalBytes(o) \in Int /\ LocalBytes(o) >= 0 /\ LocalBytes(o) <= Bytes(o)
  BY LocalsFit
<1>2. /\ s = Esp(b) - Bytes(o) /\ s \in Int /\ s >= 0 /\ Esp(b) \in Int /\ Esp(b) < Word /\ Word \in Int
      /\ Bytes(o) \in Int /\ \A a \in Esp(b) .. Word - 1 : m.mem[a] = b.mem[a]
  BY DEF Arrived
<1>3. PICK e : Entered(o, b, e) /\ Same(e, m, at)
  BY DEF Arrived
<1>4. Esp(x) = s /\ x.gpr[REG_EBP] = m.gpr[REG_EBP] /\ x.cs = m.cs /\ \A a \in at .. Word - 1 : x.mem[a] = m.mem[a]
  BY DEF Same
<1>5. at \in Int /\ at <= Esp(b)
  BY <1>1, <1>2
<1>6. Same(e, x, at)
  BY <1>3, <1>4 DEF Same
<1>7. \A a \in Esp(b) .. Word - 1 : x.mem[a] = b.mem[a]
  <2> HIDE DEF at
  <2>1. QED
    BY <1>2, <1>4, <1>5
<1>8. QED
  BY <1>2, <1>3, <1>4, <1>6, <1>7 DEF Arrived

(* What is the same from an address on is so from a later one on.          *)
LEMMA SameEverywhere ==
  ASSUME NEW x, NEW y, NEW at \in Int, NEW from \in Int, from >= at, Same(x, y, at)
  PROVE  Same(x, y, from)
BY DEF Same

(* The guest begins with a whole machine and an empty nest.                *)
LEMMA InitStands ==
  ASSUME Byte = 8
  PROVE  ProgramInit => ProgramInv
<1> SUFFICES ASSUME ProgramInit PROVE ProgramInv
  OBVIOUS
<1>1. Word \in Int /\ Word > 65536 /\ 2^Byte = 256 /\ 2^(2 * Byte) = 65536
  BY WordIs, SMT
<1>2. Machine \in Machines
  <2> DEFINE g == [Gpr EXCEPT ![REG_ESP] = 3 * (Word \div 4)]
             x == [a \in 0 .. Word - 1 |-> (a + a \div 2^Byte) % 2^Byte]
             f == [CF |-> 1, ZF |-> 0, INTR |-> 1]
  <2>1. g \in [Registers -> Words]
    <3>1. 3 * (Word \div 4) \in 0 .. Word - 1
      BY WordIs, SMT
    <3>2. Gpr \in [Registers -> 0 .. Word - 1]
      BY OperandAssumption
    <3> DEFINE w == 3 * (Word \div 4)
    <3> HIDE DEF w
    <3>3. [Gpr EXCEPT ![REG_ESP] = w] \in [Registers -> 0 .. Word - 1]
      BY <3>1, <3>2 DEF w
    <3>4. QED
      BY <3>3 DEF w, Words
  <2>2. x \in [Words -> 0 .. 2^Byte - 1]
    <3> DEFINE P == 2^Byte
    <3>1. P \in Int /\ P > 0
      BY <1>1
    <3> HIDE DEF P
    <3>2. ASSUME NEW a \in 0 .. Word - 1 PROVE (a + a \div P) % P \in 0 .. P - 1
      <4>1. a \in Int
        OBVIOUS
      <4>2. a \div P \in Int
        BY <3>1, <4>1, ModIs
      <4>3. a + a \div P \in Int
        BY <4>1, <4>2
      <4> DEFINE r == (a + a \div P) % P
      <4>4. r \in Int /\ r >= 0 /\ r < P
        BY <3>1, <4>3, ModIs
      <4> HIDE DEF r
      <4>5. r \in 0 .. P - 1
        BY <3>1, <4>4
      <4>6. QED
        BY <4>5 DEF r
    <3>3. x = [a \in 0 .. Word - 1 |-> (a + a \div P) % P]
      BY DEF P
    <3>4. x \in [0 .. Word - 1 -> 0 .. P - 1]
      BY <3>2, <3>3
    <3>5. QED
      BY <3>4 DEF P, Words
  <2>3. 0 \in Words /\ f \in EflagsRecords
    BY <1>1 DEF Words, EflagsRecords
  <2>4. 2 \in 0 .. 2^(2 * Byte) - 1
    <3> DEFINE top == 2^(2 * Byte) - 1
    <3>1. top = 65535
      BY WordIs, SMT
    <3> HIDE DEF top
    <3>2. 2 \in 0 .. top
      BY <3>1
    <3>3. QED
      BY <3>2 DEF top
  <2>5. Machine = [gpr |-> g, eip |-> 0, cs |-> 2, eflags |-> f, mem |-> x]
    BY DEF Machine
  <2> HIDE DEF g, x, f
  <2>6. QED
    BY <2>1, <2>2, <2>3, <2>4, <2>5, MachineFrom
<1>3. nest = <<>> /\ machine = Machine /\ string = NoString
  BY DEF ProgramInit
<1>4. nest \in Seq([opening : Openings, before : Machines]) /\ Len(nest) = 0
  BY <1>3
<1>5. QED
  BY <1>2, <1>3, <1>4 DEF ProgramInv, ProgramTypeOK, NestStands

(* The parts of an opening of the nest.                                    *)
LEMMA NestIs ==
  ASSUME Byte = 8, ProgramInv, NEW i \in 1 .. Len(nest)
  PROVE  /\ nest[i].opening \in Openings /\ nest[i].before \in Machines
         /\ Bytes(nest[i].opening) <= Esp(nest[i].before)
         /\ Arrived(nest[i].opening, nest[i].before, Since(i))
         /\ Since(i) \in Machines
<1>1. nest \in Seq([opening : Openings, before : Machines]) /\ machine \in Machines
  BY DEF ProgramInv, ProgramTypeOK
<1>2. \A k \in 1 .. Len(nest) : nest[k].opening \in Openings /\ nest[k].before \in Machines
  <2> DEFINE Kept == [opening : Openings, before : Machines]
  <2>1. \A x \in Kept : x.opening \in Openings /\ x.before \in Machines
    OBVIOUS
  <2>2. nest \in Seq(Kept)
    BY <1>1
  <2> HIDE DEF Kept
  <2>3. \A k \in 1 .. Len(nest) : nest[k] \in Kept
    BY <2>2
  <2>4. QED
    BY <2>1, <2>3
<1>3. Since(i) \in Machines
  BY <1>1, <1>2 DEF Since
<1>4. QED
  BY <1>2, <1>3 DEF ProgramInv, NestStands

(* A step that only touches what the innermost opening leaves free.        *)
LEMMA InBetween ==
  ASSUME Byte = 8, ProgramInv, machine' \in Machines, nest' = nest, string' = string,
         nest # <<>> => Same(machine, machine', Esp(machine) + LocalBytes(Innermost.opening))
  PROVE  ProgramInv'
<1>1. ProgramTypeOK'
  BY DEF ProgramInv, ProgramTypeOK
<1>2. ASSUME NEW i \in 1 .. Len(nest)
      PROVE  Bytes(nest[i].opening) <= Esp(nest[i].before) /\ Arrived(nest[i].opening, nest[i].before, Since(i)')
  <2> DEFINE o == nest[i].opening
             b == nest[i].before
  <2>1. o \in Openings /\ b \in Machines /\ Bytes(o) <= Esp(b) /\ Arrived(o, b, Since(i))
    BY NestIs
  <2>2. CASE i = Len(nest)
    <3>1. Since(i) = machine /\ Since(i)' = machine' /\ Innermost.opening = o /\ nest # <<>>
      BY <2>2 DEF Since, Innermost
    <3>2. Same(machine, machine', Esp(machine) + LocalBytes(o)) /\ Arrived(o, b, machine)
      BY <2>1, <3>1
    <3> HIDE DEF o, b
    <3>3. Arrived(o, b, machine')
      BY <2>1, <3>2, ArrivedStill
    <3>4. QED
      BY <2>1, <3>1, <3>3 DEF o, b
  <2>3. CASE i # Len(nest)
    BY <2>1, <2>3 DEF Since
  <2>4. QED
    BY <2>2, <2>3
<1>3. NestStands'
  BY <1>2 DEF NestStands
<1>4. QED
  BY <1>1, <1>3 DEF ProgramInv

(* A new opening can be undone, and those around it are untouched.         *)
LEMMA OpenStands ==
  ASSUME Byte = 8, ProgramInv, NEW o \in Openings, Open(o)
  PROVE  ProgramInv'
<1> DEFINE Kept == [opening : Openings, before : Machines]
           opened == [opening |-> o, before |-> machine]
<1>1. /\ machine \in Machines /\ nest \in Seq(Kept) /\ Bytes(o) <= Esp(machine)
      /\ machine' = Enter(o, machine) /\ nest' = Append(nest, opened) /\ string = NoString /\ string' = string
  BY DEF Open, ProgramInv, ProgramTypeOK
<1>2. Entered(o, machine, machine') /\ machine' \in Machines
  BY <1>1, EnterIs DEF Entered
<1>3. opened \in Kept
  BY <1>1
<1>4. Arrived(o, machine, machine')
  <2>1. Same(machine', machine', Esp(machine') + LocalBytes(o))
    BY DEF Same
  <2>2. QED
    BY <1>1, <1>2, <2>1, ArrivedIs
<1>5. /\ nest' \in Seq(Kept) /\ Len(nest') = Len(nest) + 1 /\ Len(nest) \in Nat
      /\ nest'[Len(nest) + 1] = opened /\ \A i \in 1 .. Len(nest) : nest'[i] = nest[i]
  <2> HIDE DEF Kept, opened
  <2>1. QED
    BY <1>1, <1>3
<1>6. ProgramTypeOK'
  BY <1>1, <1>2, <1>5 DEF ProgramTypeOK
<1>7. ASSUME NEW i \in 1 .. Len(nest')
      PROVE  Bytes(nest'[i].opening) <= Esp(nest'[i].before) /\ Arrived(nest'[i].opening, nest'[i].before, Since(i)')
  <2>1. CASE i = Len(nest) + 1
    <3>1. nest'[i].opening = o /\ nest'[i].before = machine /\ Since(i)' = machine'
      BY <1>5, <2>1 DEF Since
    <3>2. QED
      BY <1>1, <1>4, <3>1
  <2>2. CASE i # Len(nest) + 1
    <3>1. i \in 1 .. Len(nest) /\ nest'[i] = nest[i] /\ i # Len(nest')
      BY <1>5, <2>2
    <3>2. Since(i)' = Since(i)
      <4>1. CASE i = Len(nest)
        <5>1. Since(i) = machine /\ Since(i)' = nest'[i + 1].before /\ nest'[i + 1] = opened
          BY <1>5, <3>1, <4>1 DEF Since
        <5>2. QED
          BY <5>1
      <4>2. CASE i # Len(nest)
        <5>1. i + 1 \in 1 .. Len(nest)
          BY <1>5, <3>1, <4>2
        <5>2. nest'[i + 1] = nest[i + 1]
          BY <1>5, <5>1
        <5>3. QED
          BY <3>1, <4>2, <5>2 DEF Since
      <4>3. QED
        BY <4>1, <4>2
    <3>3. QED
      BY <3>1, <3>2, NestIs
  <2>3. QED
    BY <2>1, <2>2
<1>8. NestStands'
  BY <1>7 DEF NestStands
<1>9. QED
  BY <1>6, <1>8 DEF ProgramInv

(* The innermost opening is undone, and those around it do not notice.     *)
LEMMA CloseUnwinds ==
  ASSUME Byte = 8, ProgramInv, Close
  PROVE  Unwound(Innermost.opening, Innermost.before, machine, machine') /\ ProgramInv'
<1> DEFINE Kept == [opening : Openings, before : Machines]
           n == Len(nest)
           o == nest[n].opening
           b == nest[n].before
<1>1. /\ machine \in Machines /\ nest \in Seq(Kept) /\ nest # <<>> /\ string' = string
      /\ machine' = Leave(o, machine) /\ nest' = SubSeq(nest, 1, n - 1)
      /\ string # NoString => string \in Strings /\ nest = <<>>
  BY DEF Close, Innermost, ProgramInv, ProgramTypeOK
<1>2. n \in Nat /\ n >= 1 /\ n \in 1 .. n
  <2> HIDE DEF Kept
  <2>1. QED
    BY <1>1
<1>3. o \in Openings /\ b \in Machines /\ Bytes(o) <= Esp(b) /\ Arrived(o, b, machine)
  <2>1. Since(n) = machine
    BY DEF Since
  <2>2. QED
    BY <1>2, <2>1, NestIs
<1>4. machine' \in Machines /\ Unwound(o, b, machine, machine')
  <2> HIDE DEF o, b
  <2>1. QED
    BY <1>1, <1>3, LeaveIs
<1>5. /\ nest' \in Seq(Kept) /\ Len(nest') = n - 1
      /\ \A i \in 1 .. n - 1 : nest'[i] = nest[i]
  <2> HIDE DEF Kept
  <2> DEFINE j == n - 1
             t == SubSeq(nest, 1, j)
  <2>1. j \in Int /\ j >= 0 /\ 1 \in Int /\ \A k \in 1 .. j : nest[k] \in Kept
    BY <1>1, <1>2
  <2> HIDE DEF j
  <2>2. (IF 1 <= j THEN j - 1 + 1 ELSE 0) = j
    <3>1. j \in Int /\ j >= 0
      BY <2>1
    <3>2. QED
      BY ONLY <3>1
  <2>3. /\ t \in Seq(Kept) /\ Len(t) = IF 1 <= j THEN j - 1 + 1 ELSE 0
        /\ \A i \in 1 .. j - 1 + 1 : t[i] = nest[1 + i - 1]
    BY ONLY <2>1, SubSeqProperties
  <2>4. \A i \in 1 .. j : t[i] = nest[i]
    <3>1. \A i \in 1 .. j : i \in 1 .. j - 1 + 1 /\ 1 + i - 1 = i
      BY <2>1
    <3> HIDE DEF t
    <3>2. QED
      BY <2>3, <3>1
  <2>5. nest' = t
    BY <1>1 DEF j
  <2> HIDE DEF t
  <2>6. QED
    BY <2>2, <2>3, <2>4, <2>5 DEF j
<1>6. ProgramTypeOK'
  BY <1>1, <1>4, <1>5 DEF ProgramTypeOK
<1>7. ASSUME NEW i \in 1 .. Len(nest')
      PROVE  Bytes(nest'[i].opening) <= Esp(nest'[i].before) /\ Arrived(nest'[i].opening, nest'[i].before, Since(i)')
  <2> DEFINE p == nest[i].opening
             a == nest[i].before
  <2>1. i \in 1 .. n /\ i \in 1 .. n - 1 /\ nest'[i] = nest[i] /\ i # n
    BY <1>2, <1>5
  <2>2. /\ p \in Openings /\ a \in Machines /\ Bytes(p) <= Esp(a)
        /\ Arrived(p, a, Since(i)) /\ Since(i) \in Machines
    BY <2>1, NestIs
  <2>3. CASE i = n - 1
    <3>1. Since(i) = b /\ Since(i)' = machine'
      BY <1>2, <1>5, <2>1, <2>3 DEF Since
    <3>2. Same(b, machine', Esp(b) + LocalBytes(p))
      <4>1. Same(b, machine', Esp(b))
        BY <1>4 DEF Unwound, Same
      <4>2. Esp(b) \in Int /\ LocalBytes(p) \in Int /\ LocalBytes(p) >= 0
        BY <1>3, <2>2, RegistersAre, LocalsFit
      <4> HIDE DEF b, p
      <4>3. QED
        BY <4>1, <4>2, SameEverywhere
    <3>3. Arrived(p, a, b)
      BY <2>2, <3>1
    <3> HIDE DEF p, a, b
    <3>4. Arrived(p, a, machine')
      BY <1>4, <2>2, <3>2, <3>3, ArrivedStill
    <3>5. QED
      BY <2>1, <2>2, <3>1, <3>4 DEF p, a
  <2>4. CASE i # n - 1
    <3>1. i + 1 \in 1 .. n - 1 /\ i # Len(nest')
      BY <1>2, <1>5, <2>1, <2>4
    <3>2. nest'[i + 1] = nest[i + 1]
      BY <1>5, <3>1
    <3>3. Since(i)' = Since(i)
      BY <2>1, <3>1, <3>2 DEF Since
    <3>4. QED
      BY <2>1, <2>2, <3>3
  <2>5. QED
    BY <2>3, <2>4
<1>8. NestStands'
  BY <1>7 DEF NestStands
<1>9. QED
  BY <1>4, <1>6, <1>8 DEF ProgramInv, Innermost

(* A move to a register other than esp and ebp.                            *)
LEMMA MoveValueStands ==
  ASSUME Byte = 8, ProgramInv, MoveValue
  PROVE  ProgramInv'
<1>1. PICK r \in Scratch, v \in Pushed : Plain(After([machine EXCEPT !.gpr[r] = v], 5))
  BY DEF MoveValue
<1> DEFINE x == [machine EXCEPT !.gpr[r] = v]
<1>2. machine' = After(x, 5) /\ nest' = nest /\ string' = string
  BY <1>1 DEF Plain
<1>3. machine \in Machines
  BY DEF ProgramInv, ProgramTypeOK
<1>4. r \in Registers /\ r # REG_ESP /\ r # REG_EBP /\ v \in Words
  BY ExecutionAssumption DEF Words
<1>5. /\ x \in Machines /\ x.gpr = [machine.gpr EXCEPT ![r] = v] /\ x.cs = machine.cs /\ x.mem = machine.mem
  BY <1>3, <1>4, RegisterSet
<1> HIDE DEF x
<1>6. After(x, 5) \in Machines /\ After(x, 5).gpr = x.gpr /\ After(x, 5).cs = x.cs /\ After(x, 5).mem = x.mem
  BY <1>5, AfterIs
<1>7. machine' \in Machines /\ machine'.gpr = x.gpr /\ machine'.cs = machine.cs /\ machine'.mem = machine.mem
  BY <1>2, <1>5, <1>6
<1>8. x.gpr[REG_ESP] = machine.gpr[REG_ESP] /\ x.gpr[REG_EBP] = machine.gpr[REG_EBP]
  <2>1. machine.gpr \in [Registers -> Words]
    BY <1>3, FieldsAre
  <2>2. QED
    BY <1>4, <1>5, <2>1
<1>9. \A at : Same(machine, machine', at)
  BY <1>7, <1>8 DEF Same, Esp
<1>10. QED
  BY <1>2, <1>7, <1>9, InBetween

(* A store to a local variable of the innermost frame.                     *)
LEMMA StoreLocalStands ==
  ASSUME Byte = 8, ProgramInv, StoreLocal
  PROVE  ProgramInv'
<1> DEFINE n == Len(nest)
           o == nest[n].opening
           b == nest[n].before
           s == Esp(machine)
           l == LocalBytes(o)
<1>1. PICK i \in 0 .. l - 1, v \in Pushed : Plain(After(Store(machine, Address(s + i), 1, v), 5))
  BY DEF StoreLocal, Innermost
<1> DEFINE x == Store(machine, s + i, 1, v)
<1>2. machine \in Machines /\ nest # <<>> /\ nest \in Seq([opening : Openings, before : Machines])
  BY DEF StoreLocal, ProgramInv, ProgramTypeOK
<1>3. n \in Nat /\ n \in 1 .. n /\ Since(n) = machine
  <2> DEFINE Kept == [opening : Openings, before : Machines]
  <2>1. nest \in Seq(Kept)
    BY <1>2
  <2> HIDE DEF Kept
  <2>2. n \in Nat /\ n \in 1 .. n
    BY <1>2, <2>1
  <2>3. QED
    BY <2>2 DEF Since
<1>4. o \in Openings /\ Arrived(o, b, machine)
  BY <1>3, NestIs
<1> HIDE DEF o, b
<1>5. l \in Int /\ l >= 0 /\ l <= Bytes(o) /\ Bytes(o) \in Int
  BY <1>4, LocalsFit
<1>6. s \in Int /\ s >= 0 /\ s = Esp(b) - Bytes(o) /\ Esp(b) \in Int /\ Esp(b) < Word /\ Word \in Int
  BY <1>4 DEF Arrived
<1> HIDE DEF l, s
<1>7. i \in Int /\ i >= 0 /\ i < l
  BY <1>1, <1>5
<1>8. s + i \in Int /\ s + i >= 0 /\ s + i + 1 <= Word /\ s + i \in 0 .. Word - 1
  BY <1>5, <1>6, <1>7
<1>9. Address(s + i) = s + i /\ 1 \in {1, 2, 4} /\ v \in Int
  BY <1>8, AddressIs, ExecutionAssumption, WordIs
<1>10. machine' = After(x, 5) /\ nest' = nest /\ string' = string
  BY <1>1, <1>9 DEF Plain
<1>11. /\ x \in Machines /\ x.gpr = machine.gpr /\ x.cs = machine.cs
       /\ \A a \in 0 .. Word - 1 : a < s + i \/ a >= s + i + 1 => x.mem[a] = machine.mem[a]
  BY <1>2, <1>8, <1>9, StoreIs
<1> HIDE DEF x
<1>12. After(x, 5) \in Machines /\ After(x, 5).gpr = x.gpr /\ After(x, 5).cs = x.cs /\ After(x, 5).mem = x.mem
  BY <1>11, AfterIs
<1>13. machine' \in Machines /\ machine'.gpr = machine.gpr /\ machine'.cs = machine.cs /\ machine'.mem = x.mem
  BY <1>10, <1>11, <1>12
<1>14. \A a \in (s + l) .. Word - 1 : machine'.mem[a] = machine.mem[a]
  <2>1. \A a \in (s + l) .. Word - 1 : a \in 0 .. Word - 1 /\ a >= s + i + 1
    BY <1>5, <1>6, <1>7
  <2>2. QED
    BY <1>11, <1>13, <2>1
<1>15. Same(machine, machine', s + l)
  BY <1>13, <1>14 DEF Same, Esp
<1>16. Innermost.opening = o
  BY DEF Innermost, o
<1>17. QED
  BY <1>10, <1>13, <1>15, <1>16, InBetween DEF s, l

(* sti and cli.                                                            *)
LEMMA SetIFStands ==
  ASSUME Byte = 8, ProgramInv, SetIF
  PROVE  ProgramInv'
<1>1. PICK on \in 0 .. 1 : Plain(After([machine EXCEPT !.eflags.INTR = on], 1))
  BY DEF SetIF
<1> DEFINE f == [machine.eflags EXCEPT !.INTR = on]
           x == [machine EXCEPT !.eflags = f]
<1>2. machine' = After(x, 1) /\ nest' = nest /\ string' = string
  BY <1>1 DEF Plain
<1>3. machine \in Machines
  BY DEF ProgramInv, ProgramTypeOK
<1>4. f \in EflagsRecords
  <2>1. machine.eflags \in EflagsRecords
    BY <1>3, FieldsAre
  <2>2. QED
    BY <2>1 DEF EflagsRecords
<1> HIDE DEF f
<1>5. x \in Machines /\ x.gpr = machine.gpr /\ x.cs = machine.cs /\ x.mem = machine.mem
  BY <1>3, <1>4, WithEflags
<1> HIDE DEF x
<1>6. After(x, 1) \in Machines /\ After(x, 1).gpr = x.gpr /\ After(x, 1).cs = x.cs /\ After(x, 1).mem = x.mem
  BY <1>5, AfterIs
<1>7. machine' \in Machines /\ machine'.gpr = machine.gpr /\ machine'.cs = machine.cs /\ machine'.mem = machine.mem
  BY <1>2, <1>5, <1>6
<1>8. \A at : Same(machine, machine', at)
  BY <1>7 DEF Same, Esp
<1>9. QED
  BY <1>2, <1>7, <1>8, InBetween

(* A repeated instruction runs with nothing on the stack.                  *)
LEMMA StringStands ==
  ASSUME Byte = 8, ProgramInv, StartString \/ RepeatString \/ EndString
  PROVE  ProgramInv' /\ nest' = nest
<1>1. machine \in Machines /\ nest \in Seq([opening : Openings, before : Machines])
      /\ (string # NoString => string \in Strings /\ nest = <<>>)
  BY DEF ProgramInv, ProgramTypeOK
<1>2. SUFFICES machine' \in Machines /\ nest' = nest /\ nest = <<>> /\ (string' # NoString => string' \in Strings)
  <2>1. Len(<<>>) = 0
    OBVIOUS
  <2>2. QED
    BY <1>1, <1>2, <2>1 DEF ProgramInv, ProgramTypeOK, NestStands
<1>3. CASE StartString
  <2>1. PICK op \in {"movs", "stos", "cmps"}, len \in {1, 2, 4}, down \in BOOLEAN, c \in Copies :
          /\ nest = <<>> /\ left = Budget /\ left > 0 /\ string = NoString
          /\ machine' = [machine EXCEPT !.gpr =
                           [@ EXCEPT ![REG_ECX] = c.count, ![REG_ESI] = c.from, ![REG_EDI] = c.to]]
          /\ string' = [op |-> op, len |-> len, step |-> IF down THEN -len ELSE len, copy |-> c,
                        before |-> machine', over |-> FALSE]
          /\ left' = 0
          /\ UNCHANGED nest
    BY <1>3, Zenon DEF StartString
  <2> DEFINE g == [machine.gpr EXCEPT ![REG_ECX] = c.count, ![REG_ESI] = c.from, ![REG_EDI] = c.to]
             step == IF down THEN -len ELSE len
  <2>2. c.count \in Words /\ c.from \in Words /\ c.to \in Words
    <3>1. /\ c.count \in Nat /\ c.from \in 0 .. Word - 1 /\ c.to \in 0 .. Word - 1
          /\ c.from + 4 * c.count <= Word
      BY ExecutionAssumption
    <3>2. Word \in Int /\ Word > 65536
      BY WordIs
    <3>3. QED
      BY <3>1, <3>2 DEF Words
  <2>3. g \in [Registers -> Words]
    <3>1. machine.gpr \in [Registers -> Words]
      BY <1>1, FieldsAre
    <3>2. QED
      BY <2>2, <3>1
  <2>4. machine' = [machine EXCEPT !.gpr = g]
    BY <2>1
  <2> HIDE DEF g
  <2>5. machine' \in Machines
    BY <1>1, <2>3, <2>4, WithGpr
  <2>6. step \in Int
    OBVIOUS
  <2> HIDE DEF step
  <2>7. string' = [op |-> op, len |-> len, step |-> step, copy |-> c, before |-> machine', over |-> FALSE]
    BY <2>1 DEF step
  <2>8. string' \in Strings
    BY <2>5, <2>6, <2>7 DEF Strings
  <2>9. QED
    BY <2>1, <2>5, <2>8
<1>4. CASE RepeatString
  <2>1. /\ string # NoString /\ nest' = nest
        /\ machine' = rep_repe(string.op, machine, string.step, string.len)
        /\ string' = [string EXCEPT !.over = Stops(string.op, machine')]
    BY <1>4 DEF RepeatString
  <2>2. string \in Strings /\ nest = <<>>
    BY <1>1, <2>1
  <2> DEFINE over == Stops(string.op, machine')
  <2>3. over \in BOOLEAN
    BY DEF Stops
  <2> HIDE DEF over
  <2>4. string.op \in {"movs", "stos", "cmps"} /\ string.len \in {1, 2, 4} /\ string.step \in Int
    BY <2>2 DEF Strings
  <2>5. machine' \in Machines
    BY <1>1, <2>1, <2>4, PassTyped
  <2>6. string' \in Strings
    <3>1. string' = [string EXCEPT !.over = over]
      BY <2>1 DEF over
    <3>2. QED
      BY <2>2, <2>3, <3>1 DEF Strings
  <2>7. QED
    BY <2>1, <2>2, <2>5, <2>6
<1>5. CASE EndString
  <2>1. string # NoString /\ nest' = nest /\ machine' = After(machine, 2) /\ string' = NoString
    BY <1>5 DEF EndString, Finished
  <2>2. machine' \in Machines
    BY <1>1, <2>1, AfterIs
  <2>3. QED
    BY <1>1, <2>1, <2>2
<1>6. QED
  BY <1>3, <1>4, <1>5

(* Every step keeps the nest, and only one that undoes makes it shorter.   *)
LEMMA StepUnwinds ==
  ASSUME Byte = 8, ProgramInv, [ProgramStep]_programVars
  PROVE  /\ ProgramInv'
         /\ nest # <<>> /\ Len(nest') < Len(nest) =>
              Unwound(Innermost.opening, Innermost.before, machine, machine')
<1>1. Len(nest) \in Nat
  <2> DEFINE Kept == [opening : Openings, before : Machines]
  <2>1. nest \in Seq(Kept)
    BY DEF ProgramInv, ProgramTypeOK
  <2> HIDE DEF Kept
  <2>2. QED
    BY <2>1
<1>2. ~(Len(nest) < Len(nest))
  BY <1>1
<1>3. ASSUME NEW o \in Openings, Open(o)
      PROVE  ProgramInv' /\ ~(Len(nest') < Len(nest))
  <2>1. ProgramInv'
    BY <1>3, OpenStands
  <2>2. Len(nest') = Len(nest) + 1
    <3> DEFINE Kept == [opening : Openings, before : Machines]
               opened == [opening |-> o, before |-> machine]
    <3>1. nest \in Seq(Kept) /\ opened \in Kept /\ nest' = Append(nest, opened)
      BY <1>3 DEF ProgramInv, ProgramTypeOK, Open
    <3> HIDE DEF Kept, opened
    <3>2. QED
      BY <3>1
  <2>3. QED
    BY <1>1, <2>1, <2>2
<1>4. CASE Close
  BY <1>4, CloseUnwinds
<1>5. CASE MoveValue
  <2>1. nest' = nest
    BY <1>5 DEF MoveValue, Plain
  <2>2. QED
    BY <1>2, <1>5, <2>1, MoveValueStands
<1>6. CASE StoreLocal
  <2>1. nest' = nest
    BY <1>6 DEF StoreLocal, Plain
  <2>2. QED
    BY <1>2, <1>6, <2>1, StoreLocalStands
<1>7. CASE SetIF
  <2>1. nest' = nest
    BY <1>7 DEF SetIF, Plain
  <2>2. QED
    BY <1>2, <1>7, <2>1, SetIFStands
<1>8. CASE StartString \/ RepeatString \/ EndString
  BY <1>2, <1>8, StringStands
<1>9. CASE UNCHANGED programVars
  <2>1. machine' = machine /\ nest' = nest /\ string' = string
    BY <1>9 DEF programVars
  <2>2. ProgramInv'
    BY <2>1 DEF ProgramInv, ProgramTypeOK, NestStands, Since
  <2>3. QED
    BY <1>2, <2>1, <2>2
<1>10. QED
  BY <1>3, <1>4, <1>5, <1>6, <1>7, <1>8, <1>9 DEF ProgramStep

(* The strengthening: whatever nests and runs, every opening of the nest   *)
(* can still be undone.                                                    *)
THEOREM ProgramStands ==
  ASSUME Byte = 8
  PROVE  ProgramSpec => []ProgramInv
<1>1. ProgramInit => ProgramInv
  BY InitStands
<1>2. ProgramInv /\ [ProgramStep]_programVars => ProgramInv'
  BY StepUnwinds
<1>3. QED
  BY <1>1, <1>2, PTL DEF ProgramSpec

(* With words of 32 bits, any depth, budget, values, registers and local   *)
(* variables, each call, frame, saved register and interrupt is undone as  *)
(* if nothing had been on the stack since (PiecesUnwind).                  *)
THEOREM StackUnwinds ==
  ASSUME Byte = 8
  PROVE  ProgramSpec => PiecesUnwind
<1>1. ProgramInv /\ [ProgramStep]_programVars =>
        [nest # <<>> /\ Len(nest') < Len(nest) =>
           Unwound(Innermost.opening, Innermost.before, machine, machine')]_programVars
  BY StepUnwinds
<1>2. QED
  BY <1>1, ProgramStands, PTL DEF ProgramSpec, PiecesUnwind
-----------------------------------------------------------------------------
(* What a pass of a repeated instruction does to the registers, the memory *)
(* and ZF.                                                                 *)
Passed(op, m, x, step, len) ==
  /\ x \in Machines
  /\ x.gpr[REG_ECX] = Address(m.gpr[REG_ECX] - 1)
  /\ x.gpr[REG_EDI] = Address(m.gpr[REG_EDI] + step)
  /\ x.gpr[REG_ESI] = IF op = "stos" THEN m.gpr[REG_ESI] ELSE Address(m.gpr[REG_ESI] + step)
  /\ x.gpr[0] = m.gpr[0]
  /\ op = "movs" => x.mem = Store(m, m.gpr[REG_EDI], len, Load(m, m.gpr[REG_ESI], len)).mem
  /\ op = "stos" => x.mem = Store(m, m.gpr[REG_EDI], len, Low(m.gpr[0], Byte * len)).mem
  /\ op = "cmps" =>
       /\ x.mem = m.mem
       /\ x.eflags.ZF = 1 <=> Load(m, m.gpr[REG_ESI], len) = Load(m, m.gpr[REG_EDI], len)

(* The index registers are three, and none of them is eax.                 *)
LEMMA IndexesAre ==
  /\ REG_ECX \in Registers /\ REG_ESI \in Registers /\ REG_EDI \in Registers /\ 0 \in Registers
  /\ REG_ECX # REG_ESI /\ REG_ECX # REG_EDI /\ REG_ESI # REG_EDI /\ REG_ECX # 0 /\ REG_ESI # 0 /\ REG_EDI # 0
BY SMT DEF REG_ECX, REG_ESI, REG_EDI, Registers

(* A move of an index register leaves the others, memory and flags alone.  *)
LEMMA IndexMoved ==
  ASSUME Byte = 8, NEW m \in Machines, NEW r \in Registers, NEW d \in Int
  PROVE  LET x == Move(m, r, d)
         IN /\ x \in Machines /\ x.gpr[r] = Address(m.gpr[r] + d)
            /\ \A s \in Registers \ {r} : x.gpr[s] = m.gpr[s]
            /\ x.mem = m.mem /\ x.eflags = m.eflags
<1> DEFINE w == Address(m.gpr[r] + d)
           g == [m.gpr EXCEPT ![r] = w]
           x == Move(m, r, d)
<1>1. w \in Words
  <2>1. m.gpr[r] + d \in Int
    BY RegistersAre
  <2>2. QED
    BY <2>1, AddressIs DEF Words
<1>2. x = [m EXCEPT !.gpr[r] = w]
  BY DEF Move
<1>3. g[r] = w /\ \A s \in Registers \ {r} : g[s] = m.gpr[s]
  <2>1. m.gpr \in [Registers -> Words]
    BY FieldsAre
  <2>2. QED
    BY <2>1
<1> HIDE DEF w, x
<1>4. x \in Machines /\ x.gpr = g /\ x.eflags = m.eflags /\ x.mem = m.mem
  BY <1>1, <1>2, RegisterSet
<1> HIDE DEF g
<1>5. QED
  BY <1>3, <1>4 DEF w, x

(* The low part of eax is what an operand in it reads.                     *)
LEMMA EaxIsRead ==
  ASSUME Byte = 8, NEW m \in Machines, NEW len \in {1, 2, 4}
  PROVE  /\ operand_read(m.gpr, 0, len * Byte) = Low(m.gpr[0], Byte * len)
         /\ Low(m.gpr[0], Byte * len) \in Int /\ Low(m.gpr[0], Byte * len) >= 0
         /\ Low(m.gpr[0], Byte * len) < 2^(Byte * len)
<1> DEFINE e == m.gpr[0]
<1>1. e \in Int
  BY IndexesAre, RegistersAre
<1>2. len * Byte = Byte * len /\ Byte * len \in Sizes
  BY SizesOfLoads
<1>3. CASE len = 1
  <2>1. len * Byte = Byte /\ Byte * len = Byte
    BY <1>3
  <2>2. 0 % 4 = 0 /\ 0 \div 4 = 0
    BY SMT
  <2>3. operand_read(m.gpr, 0, Byte) = Low(e \div 2^(Byte * 0), Byte)
    BY <2>2 DEF operand_read
  <2>4. 2^(Byte * 0) = 1 /\ e \div 1 = e
    BY <1>1, WordIs, SMT
  <2>5. QED
    BY <1>1, <1>2, <2>1, <2>3, <2>4, LowIs
<1>4. CASE len # 1
  <2>1. len * Byte # Byte
    BY <1>4
  <2>2. operand_read(m.gpr, 0, len * Byte) = Low(e, len * Byte)
    BY <2>1 DEF operand_read
  <2>3. QED
    BY <1>1, <1>2, <2>2, LowIs
<1>5. QED
  BY <1>3, <1>4

(* Each of the three instructions is such a pass.                          *)
LEMMA PassIs ==
  ASSUME Byte = 8, NEW m \in Machines, NEW op \in {"movs", "stos", "cmps"}, NEW step \in Int, NEW len \in {1, 2, 4}
  PROVE  Passed(op, m, rep_repe(op, m, step, len), step, len)
<1> DEFINE di == m.gpr[REG_EDI]
           si == m.gpr[REG_ESI]
           x == StepOf(op, m, step, len)
           z == rep_repe(op, m, step, len)
           d == -1
<1>1. di \in Int /\ si \in Int
  BY IndexesAre, RegistersAre
<1>2. z = Move(x, REG_ECX, d) /\ d \in Int
  BY DEF rep_repe
<1> HIDE DEF z, d, x, di, si
<1>3. ASSUME x \in Machines
      PROVE  /\ z \in Machines /\ z.gpr[REG_ECX] = Address(x.gpr[REG_ECX] + d)
             /\ \A r \in Registers \ {REG_ECX} : z.gpr[r] = x.gpr[r]
             /\ z.mem = x.mem /\ z.eflags = x.eflags
  <2>1. REG_ECX \in Registers /\ d \in Int
    BY <1>2, IndexesAre
  <2> DEFINE w == Move(x, REG_ECX, d)
  <2>2. /\ w \in Machines /\ w.gpr[REG_ECX] = Address(x.gpr[REG_ECX] + d)
        /\ \A r \in Registers \ {REG_ECX} : w.gpr[r] = x.gpr[r]
        /\ w.mem = x.mem /\ w.eflags = x.eflags
    BY <1>3, <2>1, IndexMoved
  <2> HIDE DEF w
  <2>3. z = w
    BY <1>2 DEF w
  <2>4. QED
    BY <2>2, <2>3
<1>4. CASE op = "movs"
  <2> DEFINE v == Load(m, si, len)
             y == Store(m, di, len, v)
             u == Move(y, REG_ESI, step)
  <2>1. v \in Int
    BY <1>1, LoadTyped
  <2> HIDE DEF v
  <2>2. y \in Machines
    BY <1>1, <2>1, StoreTyped
  <2>3. y.gpr = m.gpr
    BY DEF Store
  <2>4. x = Move(u, REG_EDI, step)
    BY <1>4 DEF StepOf, movs, x, y, u, v, di, si
  <2> HIDE DEF y
  <2>5. /\ u \in Machines /\ u.gpr[REG_ESI] = Address(y.gpr[REG_ESI] + step) /\ u.mem = y.mem
        /\ \A r \in Registers \ {REG_ESI} : u.gpr[r] = y.gpr[r]
    BY <2>2, IndexesAre, IndexMoved
  <2> HIDE DEF u
  <2>6. /\ x \in Machines /\ x.gpr[REG_EDI] = Address(u.gpr[REG_EDI] + step) /\ x.mem = u.mem
        /\ \A r \in Registers \ {REG_EDI} : x.gpr[r] = u.gpr[r]
    BY <2>4, <2>5, IndexesAre, IndexMoved
  <2>7. /\ z \in Machines /\ z.gpr[REG_ECX] = Address(x.gpr[REG_ECX] + d) /\ z.mem = x.mem
        /\ \A r \in Registers \ {REG_ECX} : z.gpr[r] = x.gpr[r]
    BY <1>3, <2>6
  <2>8. x.gpr[REG_ECX] + d = m.gpr[REG_ECX] - 1
    BY <2>3, <2>5, <2>6, IndexesAre, RegistersAre DEF d
  <2>9. /\ z.gpr[REG_ECX] = Address(m.gpr[REG_ECX] - 1) /\ z.gpr[REG_EDI] = Address(m.gpr[REG_EDI] + step)
        /\ z.gpr[REG_ESI] = Address(m.gpr[REG_ESI] + step) /\ z.gpr[0] = m.gpr[0] /\ z.mem = y.mem
    BY <2>3, <2>5, <2>6, <2>7, <2>8, IndexesAre
  <2>10. QED
    BY <1>4, <2>7, <2>9 DEF Passed, y, v, di, si, z
<1>5. CASE op = "stos"
  <2> DEFINE v == Low(m.gpr[0], Byte * len)
             y == Store(m, di, len, v)
  <2>1. v \in Int /\ operand_read(m.gpr, 0, len * Byte) = v
    BY EaxIsRead
  <2>2. x = Move(y, REG_EDI, step)
    BY <1>5, <2>1 DEF StepOf, stos, x, di
  <2> HIDE DEF v
  <2>3. y \in Machines
    BY <1>1, <2>1, StoreTyped
  <2>4. y.gpr = m.gpr
    BY DEF Store
  <2> HIDE DEF y
  <2>5. /\ x \in Machines /\ x.gpr[REG_EDI] = Address(y.gpr[REG_EDI] + step) /\ x.mem = y.mem
        /\ \A r \in Registers \ {REG_EDI} : x.gpr[r] = y.gpr[r]
    BY <2>2, <2>3, IndexesAre, IndexMoved
  <2>6. /\ z \in Machines /\ z.gpr[REG_ECX] = Address(x.gpr[REG_ECX] + d) /\ z.mem = x.mem
        /\ \A r \in Registers \ {REG_ECX} : z.gpr[r] = x.gpr[r]
    BY <1>3, <2>5
  <2>7. x.gpr[REG_ECX] + d = m.gpr[REG_ECX] - 1
    BY <2>4, <2>5, IndexesAre, RegistersAre DEF d
  <2>8. /\ z.gpr[REG_ECX] = Address(m.gpr[REG_ECX] - 1) /\ z.gpr[REG_EDI] = Address(m.gpr[REG_EDI] + step)
        /\ z.gpr[REG_ESI] = m.gpr[REG_ESI] /\ z.gpr[0] = m.gpr[0] /\ z.mem = y.mem
    BY <2>4, <2>5, <2>6, <2>7, IndexesAre
  <2>9. QED
    BY <1>5, <2>6, <2>8 DEF Passed, y, v, di, z
<1>6. CASE op = "cmps"
  <2> DEFINE equal == Load(m, si, len) = Load(m, di, len)
             f == [m.eflags EXCEPT !.ZF = Flag(equal)]
             y == [m EXCEPT !.eflags = f]
             u == Move(y, REG_ESI, step)
  <2>1. x = Move(u, REG_EDI, step)
    BY <1>6 DEF StepOf, cmps, x, di, si
  <2>2. f \in EflagsRecords /\ (f.ZF = 1 <=> equal)
    <3>1. m.eflags \in EflagsRecords
      BY FieldsAre
    <3>2. Flag(equal) \in 0 .. 1 /\ (Flag(equal) = 1 <=> equal)
      BY DEF Flag
    <3> HIDE DEF equal
    <3>3. QED
      BY <3>1, <3>2 DEF EflagsRecords
  <2> HIDE DEF f, equal
  <2>3. y \in Machines /\ y.gpr = m.gpr /\ y.mem = m.mem /\ y.eflags = f
    BY <2>2, WithEflags
  <2> HIDE DEF y
  <2>4. /\ u \in Machines /\ u.gpr[REG_ESI] = Address(y.gpr[REG_ESI] + step) /\ u.mem = y.mem /\ u.eflags = y.eflags
        /\ \A r \in Registers \ {REG_ESI} : u.gpr[r] = y.gpr[r]
    BY <2>3, IndexesAre, IndexMoved
  <2> HIDE DEF u
  <2>5. /\ x \in Machines /\ x.gpr[REG_EDI] = Address(u.gpr[REG_EDI] + step) /\ x.mem = u.mem /\ x.eflags = u.eflags
        /\ \A r \in Registers \ {REG_EDI} : x.gpr[r] = u.gpr[r]
    BY <2>1, <2>4, IndexesAre, IndexMoved
  <2>6. /\ z \in Machines /\ z.gpr[REG_ECX] = Address(x.gpr[REG_ECX] + d) /\ z.mem = x.mem /\ z.eflags = x.eflags
        /\ \A r \in Registers \ {REG_ECX} : z.gpr[r] = x.gpr[r]
    BY <1>3, <2>5
  <2>7. x.gpr[REG_ECX] + d = m.gpr[REG_ECX] - 1
    BY <2>3, <2>4, <2>5, IndexesAre, RegistersAre DEF d
  <2>8. /\ z.gpr[REG_ECX] = Address(m.gpr[REG_ECX] - 1) /\ z.gpr[REG_EDI] = Address(m.gpr[REG_EDI] + step)
        /\ z.gpr[REG_ESI] = Address(m.gpr[REG_ESI] + step) /\ z.gpr[0] = m.gpr[0]
        /\ z.mem = m.mem /\ (z.eflags.ZF = 1 <=> equal)
    BY <2>2, <2>3, <2>4, <2>5, <2>6, <2>7, IndexesAre
  <2>9. QED
    BY <1>6, <2>6, <2>8 DEF Passed, equal, di, si, z
<1>7. QED
  BY <1>4, <1>5, <1>6

(* Elements of a string, upwards or downwards, do not wrap and do not      *)
(* overlap.                                                                *)
LEMMA ElementsApart ==
  ASSUME NEW len \in {1, 2, 4}, NEW step \in {len, -len}, NEW k \in Nat, NEW a \in Int, NEW i \in 0 .. k - 1
  PROVE  /\ a + step * i \in Int /\ a + step * i >= a - 4 * k /\ (a + step * i) + len <= a + 4 * k
         /\ a + step * (i + 1) = (a + step * i) + step
         /\ \A j \in 0 .. k - 1 : i # j =>
              (a + step * i) + len <= a + step * j \/ (a + step * j) + len <= a + step * i
<1>1. CASE len = 1 /\ step = 1
  BY <1>1, SMT
<1>2. CASE len = 1 /\ step = -1
  BY <1>2, SMT
<1>3. CASE len = 2 /\ step = 2
  BY <1>3, SMT
<1>4. CASE len = 2 /\ step = -2
  BY <1>4, SMT
<1>5. CASE len = 4 /\ step = 4
  BY <1>5, SMT
<1>6. CASE len = 4 /\ step = -4
  BY <1>6, SMT
<1>7. QED
  BY <1>1, <1>2, <1>3, <1>4, <1>5, <1>6

(* Steps of an address may be taken together.                              *)
LEMMA AddressOnwards ==
  ASSUME Byte = 8, NEW x \in Int, NEW d \in Int
  PROVE  Address(Address(x) + d) = Address(x + d)
<1> DEFINE W == 2^Host
           k == x \div W
           a == Address(x)
<1>1. Host \in Sizes /\ \A y : Address(y) = Low(y, Host)
  BY DEF Sizes, Address, Low, Word
<1>2. a \in Int /\ k \in Int /\ x = (W * k) + a /\ W \in Int
  BY <1>1, LowIs, Widths
<1> HIDE DEF W, k, a
<1>3. a + d \in Int /\ x + d \in Int /\ x + d = (a + d) + (W * k)
  BY <1>2, SMT
<1>4. Low(x + d, Host) = Low(a + d, Host)
  BY <1>1, <1>2, <1>3, LowOfSum DEF W
<1>5. QED
  BY <1>1, <1>4 DEF a

(* The i-th elements of the two strings.                                   *)
To(s, i) == s.copy.to + s.step * i
From(s, i) == s.copy.from + s.step * i
Covers(s, i, a) == To(s, i) <= a /\ a < To(s, i) + s.len
Passes(s, m) == s.copy.count - m.gpr[REG_ECX]
SameElement(s, i) == Load(s.before, From(s, i), s.len) = Load(s.before, To(s, i), s.len)

(* What n passes have written, and what they have not.                     *)
Untouched(s, m, n) ==
  \A a \in Words :
    (s.op = "cmps" \/ \A i \in 0 .. n - 1 : ~Covers(s, i, a)) => m.mem[a] = s.before.mem[a]
Copied(s, m, n) ==
  \A i \in 0 .. n - 1, j \in 0 .. s.len - 1 : m.mem[To(s, i) + j] = s.before.mem[From(s, i) + j]
Filled(s, m, n) ==
  \A i \in 0 .. n - 1 : Holds(m, To(s, i), s.len, Low(s.before.gpr[0], Byte * s.len))
Compared(s, n) == \A i \in 0 .. n - 1 : SameElement(s, i) <=> (i = n - 1 /\ s.over)

(* The loop of a repeated instruction after some of its passes.            *)
LoopStands(s, m) ==
  LET n == Passes(s, m)
  IN /\ s.step \in {s.len, -s.len} /\ n \in 0 .. s.copy.count
     /\ m.gpr[REG_EDI] = Address(To(s, n))
     /\ m.gpr[REG_ESI] = IF s.op = "stos" THEN s.copy.from ELSE Address(From(s, n))
     /\ m.gpr[0] = s.before.gpr[0]
     /\ Untouched(s, m, n)
     /\ s.op = "movs" => Copied(s, m, n)
     /\ s.op = "stos" => Filled(s, m, n)
     /\ IF s.op = "cmps" THEN Compared(s, n) ELSE ~s.over

(* Where the elements of a string are.                                     *)
LEMMA StringIs ==
  ASSUME Byte = 8, NEW s \in Strings, s.step \in {s.len, -s.len}, NEW i \in 0 .. s.copy.count - 1
  PROVE  /\ s.copy.count \in Nat /\ s.len \in {1, 2, 4} /\ s.step \in Int
         /\ To(s, i) \in Int /\ To(s, i) >= 0 /\ To(s, i) + s.len <= Word
         /\ From(s, i) \in Int /\ From(s, i) >= 0 /\ From(s, i) + s.len <= Word
         /\ To(s, i + 1) = To(s, i) + s.step /\ From(s, i + 1) = From(s, i) + s.step
         /\ \A j \in 0 .. s.copy.count - 1 :
              /\ i # j => To(s, i) + s.len <= To(s, j) \/ To(s, j) + s.len <= To(s, i)
              /\ From(s, i) + s.len <= To(s, j) \/ To(s, j) + s.len <= From(s, i)
<1> DEFINE c == s.copy
           k == c.count
           f == c.from
           t == c.to
           len == s.len
           step == s.step
<1>1. c \in Copies /\ len \in {1, 2, 4} /\ step \in Int /\ step \in {len, -len}
  BY DEF Strings
<1>2. /\ k \in Nat /\ f \in Int /\ t \in Int /\ Word \in Int
      /\ 4 * k <= f /\ f + 4 * k <= Word /\ 4 * k <= t /\ t + 4 * k <= Word
      /\ f + 8 * k <= t \/ t + 8 * k <= f
  BY <1>1, ExecutionAssumption, WordIs
<1>3. /\ i \in 0 .. k - 1 /\ To(s, i) = t + step * i /\ From(s, i) = f + step * i
      /\ To(s, i + 1) = t + step * (i + 1) /\ From(s, i + 1) = f + step * (i + 1)
      /\ \A j : To(s, j) = t + step * j
  BY DEF To, From
<1> HIDE DEF c, k, f, t, len, step
<1>4. /\ t + step * i \in Int /\ t + step * i >= t - 4 * k /\ (t + step * i) + len <= t + 4 * k
      /\ t + step * (i + 1) = (t + step * i) + step
      /\ \A j \in 0 .. k - 1 : i # j =>
              (t + step * i) + len <= t + step * j \/ (t + step * j) + len <= t + step * i
  BY <1>1, <1>2, <1>3, ElementsApart
<1>5. /\ f + step * i \in Int /\ f + step * i >= f - 4 * k /\ (f + step * i) + len <= f + 4 * k
      /\ f + step * (i + 1) = (f + step * i) + step
  BY <1>1, <1>2, <1>3, ElementsApart
<1> DEFINE ti == t + step * i
           fi == f + step * i
           g(j) == t + step * j
<1>6. \A j \in 0 .. k - 1 : g(j) \in Int /\ g(j) >= t - 4 * k /\ g(j) + len <= t + 4 * k
  BY <1>1, <1>2, ElementsApart
<1>7. /\ ti \in Int /\ ti >= t - 4 * k /\ ti + len <= t + 4 * k
      /\ fi \in Int /\ fi >= f - 4 * k /\ fi + len <= f + 4 * k
  BY <1>4, <1>5
<1> HIDE DEF ti, fi, g
<1>8. len \in Int /\ \A j \in 0 .. k - 1 : fi + len <= g(j) \/ g(j) + len <= fi
  <2>1. len \in Int
    BY <1>1
  <2>2. QED
    BY <1>2, <1>6, <1>7, <2>1
<1>9. ti >= 0 /\ ti + len <= Word /\ fi >= 0 /\ fi + len <= Word
  BY <1>2, <1>7, <1>8
<1>10. To(s, i) = ti /\ From(s, i) = fi /\ \A j : To(s, j) = g(j)
  BY <1>3 DEF ti, fi, g
<1>11. \A j \in 0 .. k - 1 : i # j => ti + len <= g(j) \/ g(j) + len <= ti
  BY <1>4 DEF ti, g
<1>12. To(s, i + 1) = ti + step /\ From(s, i + 1) = fi + step
  BY <1>3, <1>4, <1>5 DEF ti, fi
<1>13. QED
  BY <1>1, <1>2, <1>7, <1>8, <1>9, <1>10, <1>11, <1>12 DEF k, c, len, step

(* A load reads the memory only.                                           *)
LEMMA LoadsAlike ==
  ASSUME NEW m, NEW x, x.mem = m.mem, NEW a, NEW len
  PROVE  Load(x, a, len) = Load(m, a, len)
BY DEF Load

(* A further pass writes one more element and no other byte.               *)
LEMMA PassWrites ==
  ASSUME Byte = 8, NEW s \in Strings, NEW m \in Machines, LoopStands(s, m), NEW n, n = Passes(s, m),
         n \in 0 .. s.copy.count - 1,
         NEW x, Passed(s.op, m, x, s.step, s.len)
  PROVE  /\ s.op # "cmps" => \A a \in Words : ~Covers(s, n, a) => x.mem[a] = m.mem[a]
         /\ s.op = "movs" => \A j \in 0 .. s.len - 1 : x.mem[To(s, n) + j] = s.before.mem[From(s, n) + j]
         /\ s.op = "stos" => Holds(x, To(s, n), s.len, Low(s.before.gpr[0], Byte * s.len))
<1> DEFINE di == To(s, n)
           si == From(s, n)
           len == s.len
           b == s.before
<1>1. s.step \in {s.len, -s.len} /\ m.gpr[REG_EDI] = Address(di) /\ m.gpr[0] = b.gpr[0]
      /\ Untouched(s, m, n) /\ (s.op # "stos" => m.gpr[REG_ESI] = Address(si))
  BY DEF LoopStands
<1>2. /\ len \in {1, 2, 4} /\ s.copy.count \in Nat /\ Word \in Int /\ n \in Int
      /\ di \in Int /\ di >= 0 /\ di + len <= Word /\ si \in Int /\ si >= 0 /\ si + len <= Word
      /\ \A j \in 0 .. s.copy.count - 1 : si + len <= To(s, j) \/ To(s, j) + len <= si
  BY <1>1, StringIs, WordIs
<1>3. di \in 0 .. Word - 1 /\ si \in 0 .. Word - 1
  BY <1>2
<1>4. m.gpr[REG_EDI] = di /\ (s.op # "stos" => m.gpr[REG_ESI] = si)
  BY <1>1, <1>2, <1>3, AddressIs
<1>5. \A a : Covers(s, n, a) <=> di <= a /\ a < di + len
  BY DEF Covers
<1> HIDE DEF di, si, len, b
<1>6. ASSUME NEW v \in Int, x.mem = Store(m, di, len, v).mem
      PROVE  /\ \A a \in Words : ~Covers(s, n, a) => x.mem[a] = m.mem[a]
             /\ Holds(x, di, len, v)
  <2> DEFINE y == Store(m, di, len, v)
  <2>1. /\ \A a \in 0 .. Word - 1 : a < di \/ a >= di + len => y.mem[a] = m.mem[a]
        /\ Holds(y, di, len, v)
    <3>1. di \in Int /\ di >= 0 /\ len \in {1, 2, 4} /\ di + len <= Word /\ v \in Int /\ m \in Machines /\ Byte = 8
      BY <1>2
    <3>2. QED
      BY ONLY <3>1, StoreIs
  <2> HIDE DEF y
  <2>2. x.mem = y.mem
    BY <1>6 DEF y
  <2>3. Holds(x, di, len, v)
    BY <2>1, <2>2 DEF Holds
  <2>4. \A a \in Words : a \in 0 .. Word - 1 /\ a \in Int
    BY <1>2 DEF Words
  <2>5. \A a \in Words : ~Covers(s, n, a) => a < di \/ a >= di + len
    BY <1>2, <1>5, <2>4
  <2>6. QED
    BY <2>1, <2>2, <2>3, <2>4, <2>5
<1>7. CASE s.op = "movs"
  <2> DEFINE v == Load(m, si, len)
  <2>1. v \in Int /\ Holds(m, si, len, v)
    <3>1. Reads(m, si, len)
      BY <1>2, LoadIs
    <3>2. QED
      BY <3>1 DEF Reads
  <2>2. x.mem = Store(m, di, len, v).mem
    BY <1>4, <1>7 DEF Passed, len
  <2> HIDE DEF v
  <2>3. Holds(x, di, len, v) /\ \A a \in Words : ~Covers(s, n, a) => x.mem[a] = m.mem[a]
    BY <1>6, <2>1, <2>2
  <2>4. ASSUME NEW j \in 0 .. len - 1 PROVE x.mem[di + j] = b.mem[si + j]
    <3>1. x.mem[di + j] = m.mem[si + j]
      BY <2>1, <2>3 DEF Holds
    <3>2. si + j \in Words /\ si + j \in Int /\ si + j >= si /\ si + j < si + len
      BY <1>2 DEF Words
    <3>3. \A i \in 0 .. n - 1 : ~Covers(s, i, si + j)
      <4> SUFFICES ASSUME NEW i \in 0 .. n - 1 PROVE ~Covers(s, i, si + j)
        OBVIOUS
      <4>1. i \in 0 .. s.copy.count - 1
        BY <1>2
      <4>2. To(s, i) \in Int /\ (si + len <= To(s, i) \/ To(s, i) + len <= si)
        BY <1>1, <1>2, <4>1, StringIs
      <4>3. QED
        BY <1>2, <3>2, <4>2 DEF Covers, len
    <3>4. m.mem[si + j] = b.mem[si + j]
      BY <1>1, <3>2, <3>3 DEF Untouched, b
    <3>5. QED
      BY <3>1, <3>4
  <2>5. QED
    BY <1>7, <2>3, <2>4 DEF di, si, len, b
<1>8. CASE s.op = "stos"
  <2> DEFINE v == Low(b.gpr[0], Byte * len)
  <2>1. v \in Int
    BY <1>1, <1>2, EaxIsRead
  <2>2. x.mem = Store(m, di, len, v).mem
    BY <1>1, <1>4, <1>8 DEF Passed, len
  <2> HIDE DEF v
  <2>3. Holds(x, di, len, v) /\ \A a \in Words : ~Covers(s, n, a) => x.mem[a] = m.mem[a]
    BY <1>6, <2>1, <2>2
  <2>4. QED
    BY <1>8, <2>3 DEF di, len, b, v
<1>9. CASE s.op = "cmps"
  BY <1>9
<1>10. QED
  BY <1>7, <1>8, <1>9 DEF Strings

(* A pass keeps the loop's invariant.                                      *)
LEMMA PassStands ==
  ASSUME Byte = 8, NEW s \in Strings, NEW m \in Machines, LoopStands(s, m), ~s.over, m.gpr[REG_ECX] # 0,
         NEW x, Passed(s.op, m, x, s.step, s.len),
         NEW t, t = [s EXCEPT !.over = Stops(s.op, x)]
  PROVE  LoopStands(t, x)
<1> DEFINE n == Passes(s, m)
           k == s.copy.count
           ecx == m.gpr[REG_ECX]
           di == To(s, n)
           si == From(s, n)
           len == s.len
           step == s.step
           b == s.before
<1>1. /\ step \in {len, -len} /\ n \in 0 .. k
      /\ m.gpr[REG_EDI] = Address(di) /\ m.gpr[REG_ESI] = (IF s.op = "stos" THEN s.copy.from ELSE Address(si))
      /\ m.gpr[0] = b.gpr[0] /\ Untouched(s, m, n)
      /\ (s.op = "movs" => Copied(s, m, n)) /\ (s.op = "stos" => Filled(s, m, n))
      /\ (s.op = "cmps" => Compared(s, n))
  BY DEF LoopStands
<1>2. k \in Nat /\ ecx \in Int /\ ecx >= 1 /\ ecx - 1 \in 0 .. Word - 1 /\ n = k - ecx
  <2>1. s.copy \in Copies
    BY DEF Strings
  <2>2. k \in Nat
    BY <2>1, ExecutionAssumption
  <2>3. ecx \in Words /\ ecx \in Int /\ Word \in Int
    BY IndexesAre, RegistersAre
  <2>4. QED
    BY <2>2, <2>3 DEF Words, Passes
<1>3. n \in Int /\ n >= 0 /\ n < k /\ n \in 0 .. k - 1
  BY <1>1, <1>2
<1>4. /\ x.gpr[REG_ECX] = Address(ecx - 1) /\ x.gpr[REG_EDI] = Address(m.gpr[REG_EDI] + step)
      /\ x.gpr[REG_ESI] = (IF s.op = "stos" THEN m.gpr[REG_ESI] ELSE Address(m.gpr[REG_ESI] + step))
      /\ x.gpr[0] = m.gpr[0]
  BY DEF Passed
<1>5. Passes(s, x) = n + 1 /\ n + 1 \in 0 .. k
  <2>1. Address(ecx - 1) = ecx - 1
    BY <1>2, AddressIs
  <2>2. Passes(s, x) = k - (ecx - 1)
    BY <1>4, <2>1 DEF Passes
  <2>3. QED
    BY <1>2, <1>3, <2>2
<1>6. /\ di \in Int /\ si \in Int /\ step \in Int /\ len \in {1, 2, 4}
      /\ di >= 0 /\ di + len <= Word /\ si >= 0 /\ si + len <= Word
      /\ To(s, n + 1) = di + step /\ From(s, n + 1) = si + step
  BY <1>1, <1>3, StringIs
<1>7. x.gpr[REG_EDI] = Address(To(s, n + 1))
  BY <1>1, <1>4, <1>6, AddressOnwards
<1>8. x.gpr[REG_ESI] = IF s.op = "stos" THEN s.copy.from ELSE Address(From(s, n + 1))
  BY <1>1, <1>4, <1>6, AddressOnwards
<1>9. /\ s.op # "cmps" => \A a \in Words : ~Covers(s, n, a) => x.mem[a] = m.mem[a]
      /\ s.op = "movs" => \A j \in 0 .. len - 1 : x.mem[di + j] = b.mem[si + j]
      /\ s.op = "stos" => Holds(x, di, len, Low(b.gpr[0], Byte * len))
  BY <1>3, PassWrites
<1> HIDE DEF n
<1>10. \A i \in 0 .. n : i \in 0 .. n - 1 \/ i = n
  BY <1>3
<1>11. s.op = "cmps" => x.mem = m.mem
  BY DEF Passed
<1>12. Untouched(s, x, n + 1)
  <2> SUFFICES ASSUME NEW a \in Words, s.op = "cmps" \/ \A i \in 0 .. (n + 1) - 1 : ~Covers(s, i, a)
               PROVE  x.mem[a] = b.mem[a]
    BY DEF Untouched
  <2>1. n \in 0 .. (n + 1) - 1 /\ \A i \in 0 .. n - 1 : i \in 0 .. (n + 1) - 1
    BY <1>3
  <2>2. s.op = "cmps" \/ (~Covers(s, n, a) /\ \A i \in 0 .. n - 1 : ~Covers(s, i, a))
    BY <2>1
  <2>3. m.mem[a] = b.mem[a]
    BY <1>1, <2>2 DEF Untouched
  <2>4. x.mem[a] = m.mem[a]
    BY <1>9, <1>11, <2>2
  <2>5. QED
    BY <2>3, <2>4
<1>13. \A i \in 0 .. (n + 1) - 1 : i \in 0 .. n - 1 \/ i = n
  BY <1>3
<1>14. ASSUME NEW i \in 0 .. n - 1, NEW j \in 0 .. len - 1, s.op # "cmps"
       PROVE  x.mem[To(s, i) + j] = m.mem[To(s, i) + j]
  <2>1. i \in 0 .. k - 1 /\ i # n
    BY <1>2, <1>3
  <2>2. /\ To(s, i) \in Int /\ To(s, i) >= 0 /\ To(s, i) + len <= Word
        /\ To(s, i) + len <= di \/ di + len <= To(s, i)
    BY <1>1, <1>3, <2>1, StringIs
  <2>3. To(s, i) + j \in Words /\ ~Covers(s, n, To(s, i) + j)
    <3>1. Word \in Int
      BY WordIs
    <3>2. QED
      BY <1>6, <2>2, <3>1 DEF Words, Covers
  <2>4. QED
    BY <1>9, <1>14, <2>3
<1>15. s.op = "movs" => Copied(s, x, n + 1)
  <2> SUFFICES ASSUME s.op = "movs", NEW i \in 0 .. (n + 1) - 1, NEW j \in 0 .. len - 1
               PROVE  x.mem[To(s, i) + j] = b.mem[From(s, i) + j]
    BY DEF Copied
  <2>1. CASE i = n
    BY <1>9, <2>1
  <2>2. CASE i # n
    <3>1. i \in 0 .. n - 1
      BY <1>13, <2>2
    <3>2. m.mem[To(s, i) + j] = b.mem[From(s, i) + j]
      BY <1>1, <3>1 DEF Copied
    <3>3. QED
      BY <1>14, <3>1, <3>2
  <2>3. QED
    BY <2>1, <2>2
<1>16. s.op = "stos" => Filled(s, x, n + 1)
  <2> SUFFICES ASSUME s.op = "stos", NEW i \in 0 .. (n + 1) - 1
               PROVE  Holds(x, To(s, i), len, Low(b.gpr[0], Byte * len))
    BY DEF Filled
  <2>1. CASE i = n
    BY <1>9, <2>1
  <2>2. CASE i # n
    <3>1. i \in 0 .. n - 1
      BY <1>13, <2>2
    <3>2. Holds(m, To(s, i), len, Low(b.gpr[0], Byte * len))
      BY <1>1, <3>1 DEF Filled
    <3>3. \A j \in 0 .. len - 1 : x.mem[To(s, i) + j] = m.mem[To(s, i) + j]
      BY <1>14, <3>1
    <3>4. QED
      BY <3>2, <3>3 DEF Holds
  <2>3. QED
    BY <2>1, <2>2
<1>17. /\ t.op = s.op /\ t.len = len /\ t.step = step /\ t.copy = s.copy /\ t.before = b
       /\ t.over = Stops(s.op, x)
  BY DEF Strings
<1>18. (\A i : To(t, i) = To(s, i) /\ From(t, i) = From(s, i)) /\ Passes(t, x) = n + 1
  BY <1>5, <1>17 DEF To, From, Passes
<1>19. s.op = "cmps" => Compared(t, n + 1)
  <2> SUFFICES ASSUME s.op = "cmps", NEW i \in 0 .. (n + 1) - 1
               PROVE  SameElement(t, i) <=> (i = (n + 1) - 1 /\ t.over)
    BY <1>17 DEF Compared
  <2>1. SameElement(t, i) <=> SameElement(s, i)
    BY <1>17, <1>18 DEF SameElement
  <2>2. t.over <=> SameElement(s, n)
    <3>1. m.gpr[REG_ESI] = si /\ m.gpr[REG_EDI] = di
      <4>1. di \in 0 .. Word - 1 /\ si \in 0 .. Word - 1
        BY <1>6, WordIs
      <4>2. QED
        BY <1>1, <1>6, <4>1, AddressIs
    <3>2. t.over <=> Load(m, si, len) = Load(m, di, len)
      BY <1>17, <3>1 DEF Stops, Passed
    <3>3. m.mem = b.mem
      <4>1. b \in Machines
        BY DEF Strings
      <4>2. m.mem \in [Words -> 0 .. 2^Byte - 1] /\ b.mem \in [Words -> 0 .. 2^Byte - 1]
        BY <4>1, FieldsAre
      <4>3. \A a \in Words : m.mem[a] = b.mem[a]
        BY <1>1 DEF Untouched
      <4> DEFINE bytes == 0 .. 2^Byte - 1
      <4> HIDE DEF bytes
      <4>4. m.mem \in [Words -> bytes] /\ b.mem \in [Words -> bytes]
        BY <4>2 DEF bytes
      <4> HIDE DEF b
      <4>5. QED
        BY <4>3, <4>4
    <3>4. QED
      BY <3>2, <3>3, LoadsAlike DEF SameElement
  <2>3. CASE i = n
    <3>1. i = (n + 1) - 1
      BY <1>3, <2>3
    <3>2. QED
      BY <2>1, <2>2, <2>3, <3>1
  <2>4. CASE i # n
    <3>1. i \in 0 .. n - 1 /\ i # (n + 1) - 1
      BY <1>3, <1>13, <2>4
    <3>2. ~SameElement(s, i)
      BY <1>1, <3>1 DEF Compared
    <3>3. QED
      BY <2>1, <3>1, <3>2
  <2>5. QED
    BY <2>3, <2>4
<1>20. s.op # "cmps" => ~t.over
  BY <1>17 DEF Stops
<1>21. /\ Untouched(t, x, n + 1)
       /\ s.op = "movs" => Copied(t, x, n + 1)
       /\ s.op = "stos" => Filled(t, x, n + 1)
  BY <1>12, <1>15, <1>16, <1>17, <1>18 DEF Untouched, Copied, Filled, Covers
<1>22. QED
  BY <1>1, <1>4, <1>5, <1>7, <1>8, <1>17, <1>18, <1>19, <1>20, <1>21 DEF LoopStands

(* The loop under way, or none.                                            *)
StringsStand == string # NoString => LoopStands(string, machine)

(* Before its first pass the loop has done nothing.                        *)
LEMMA StartStands ==
  ASSUME Byte = 8, ProgramInv, StartString
  PROVE  LoopStands(string', machine')
<1>1. PICK op \in {"movs", "stos", "cmps"}, len \in {1, 2, 4}, down \in BOOLEAN, c \in Copies :
        /\ nest = <<>> /\ left = Budget /\ left > 0 /\ string = NoString
        /\ machine' = [machine EXCEPT !.gpr =
                         [@ EXCEPT ![REG_ECX] = c.count, ![REG_ESI] = c.from, ![REG_EDI] = c.to]]
        /\ string' = [op |-> op, len |-> len, step |-> IF down THEN -len ELSE len, copy |-> c,
                      before |-> machine', over |-> FALSE]
        /\ left' = 0
        /\ UNCHANGED nest
  BY Zenon DEF StartString
<1> DEFINE g == [machine.gpr EXCEPT ![REG_ECX] = c.count, ![REG_ESI] = c.from, ![REG_EDI] = c.to]
           step == IF down THEN -len ELSE len
           s == string'
           x == machine'
<1>2. machine \in Machines
  BY DEF ProgramInv, ProgramTypeOK
<1>3. /\ c.count \in Nat /\ c.count \in Words /\ c.from \in Words /\ c.to \in Words
      /\ c.from \in Int /\ c.to \in Int
  <2>1. /\ c.count \in Nat /\ c.from \in 0 .. Word - 1 /\ c.to \in 0 .. Word - 1
        /\ c.from + 4 * c.count <= Word
    BY ExecutionAssumption
  <2>2. Word \in Int /\ Word > 65536
    BY WordIs
  <2>3. QED
    BY <2>1, <2>2 DEF Words
<1>4. /\ g \in [Registers -> Words] /\ g[REG_ECX] = c.count /\ g[REG_ESI] = c.from /\ g[REG_EDI] = c.to
  <2>1. machine.gpr \in [Registers -> Words]
    BY <1>2, FieldsAre
  <2>2. QED
    BY <1>3, <2>1, IndexesAre
<1>5. x = [machine EXCEPT !.gpr = g]
  BY <1>1
<1> HIDE DEF g
<1>6. x.gpr = g
  BY <1>2, <1>4, <1>5, WithGpr
<1>7. step \in {len, -len} /\ step \in Int
  OBVIOUS
<1>8. s = [op |-> op, len |-> len, step |-> step, copy |-> c, before |-> x, over |-> FALSE]
  BY <1>1
<1> HIDE DEF step, s, x
<1>9. s.op = op /\ s.len = len /\ s.step = step /\ s.copy = c /\ s.before = x /\ s.over = FALSE
  BY <1>8
<1>10. Passes(s, x) = 0 /\ 0 \in 0 .. c.count
  BY <1>3, <1>4, <1>6, <1>9 DEF Passes
<1>11. To(s, 0) = c.to /\ From(s, 0) = c.from
  BY <1>3, <1>7, <1>9 DEF To, From
<1>12. Address(c.to) = c.to /\ Address(c.from) = c.from
  BY <1>3, AddressIs DEF Words
<1>13. Untouched(s, x, 0) /\ Copied(s, x, 0) /\ Filled(s, x, 0) /\ Compared(s, 0)
  BY <1>9 DEF Untouched, Copied, Filled, Compared
<1>14. LoopStands(s, x)
  BY <1>4, <1>6, <1>7, <1>9, <1>10, <1>11, <1>12, <1>13 DEF LoopStands
<1>15. QED
  BY <1>14 DEF s, x

(* Every step keeps the loop under way.                                    *)
LEMMA StringsStep ==
  ASSUME Byte = 8, ProgramInv, StringsStand, [ProgramStep]_programVars
  PROVE  StringsStand'
<1>1. machine \in Machines /\ (string # NoString => string \in Strings /\ nest = <<>>)
  BY DEF ProgramInv, ProgramTypeOK
<1>2. ASSUME string = NoString, string' = string PROVE StringsStand'
  BY <1>2 DEF StringsStand
<1>3. ASSUME NEW o \in Openings, Open(o) PROVE StringsStand'
  BY <1>2, <1>3 DEF Open
<1>4. CASE Close
  BY <1>1, <1>2, <1>4 DEF Close
<1>5. CASE MoveValue
  BY <1>2, <1>5 DEF MoveValue, Plain
<1>6. CASE StoreLocal
  BY <1>2, <1>6 DEF StoreLocal, Plain
<1>7. CASE SetIF
  BY <1>2, <1>7 DEF SetIF, Plain
<1>8. CASE StartString
  BY <1>8, StartStands DEF StringsStand
<1>9. CASE RepeatString
  <2>1. /\ string # NoString /\ ~string.over /\ machine.gpr[REG_ECX] # 0
        /\ machine' = rep_repe(string.op, machine, string.step, string.len)
        /\ string' = [string EXCEPT !.over = Stops(string.op, machine')]
    BY <1>9 DEF RepeatString, Finished
  <2>2. /\ string \in Strings /\ LoopStands(string, machine)
        /\ string.op \in {"movs", "stos", "cmps"} /\ string.len \in {1, 2, 4} /\ string.step \in Int
    BY <1>1, <2>1 DEF StringsStand, Strings
  <2>3. Passed(string.op, machine, machine', string.step, string.len)
    BY <1>1, <2>1, <2>2, PassIs
  <2>4. LoopStands(string', machine')
    BY <1>1, <2>1, <2>2, <2>3, PassStands
  <2>5. QED
    BY <2>4 DEF StringsStand
<1>10. CASE EndString
  BY <1>10 DEF EndString, StringsStand
<1>11. CASE UNCHANGED programVars
  BY <1>11 DEF programVars, StringsStand
<1>12. QED
  BY <1>3, <1>4, <1>5, <1>6, <1>7, <1>8, <1>9, <1>10, <1>11 DEF ProgramStep

(* A loop that has ended has done what the instruction means.              *)
LEMMA EndedAsMeant ==
  ASSUME Byte = 8, ProgramInv, StringsStand
  PROVE  StringsAreMoved
<1> SUFFICES ASSUME Finished PROVE StringsAreMoved
  BY DEF StringsAreMoved
<1> DEFINE m == string.before
           len == string.len
           step == string.step
           from == string.copy.from
           to == string.copy.to
           k == string.copy.count
           did == k - machine.gpr[REG_ECX]
           Element(a, i) == (a + step * i) .. (a + step * i + len - 1)
           Equal(i) == Load(m, from + step * i, len) = Load(m, to + step * i, len)
           written == IF string.op = "cmps" THEN {} ELSE UNION {Element(to, i) : i \in 0 .. k - 1}
<1>1. /\ machine \in Machines /\ string \in Strings /\ LoopStands(string, machine)
      /\ string.over \/ machine.gpr[REG_ECX] = 0
  BY DEF ProgramInv, ProgramTypeOK, StringsStand, Finished
<1>2. did = Passes(string, machine) /\ \A i : To(string, i) = to + step * i /\ From(string, i) = from + step * i
  BY DEF Passes, To, From
<1>3. /\ step \in {len, -len} /\ did \in 0 .. k
      /\ machine.gpr[REG_EDI] = Address(to + step * did)
      /\ machine.gpr[REG_ESI] = IF string.op = "stos" THEN from ELSE Address(from + step * did)
      /\ machine.gpr[0] = m.gpr[0] /\ Untouched(string, machine, did)
      /\ (string.op = "movs" => Copied(string, machine, did))
      /\ (string.op = "stos" => Filled(string, machine, did))
      /\ (string.op = "cmps" => Compared(string, did))
      /\ (string.op # "cmps" => ~string.over)
  BY <1>1, <1>2 DEF LoopStands
<1>4. m \in Machines /\ len \in {1, 2, 4} /\ step \in Int /\ k \in Nat /\ from \in Int /\ to \in Int /\ Word \in Int
  <2>1. string.copy \in Copies /\ m \in Machines /\ len \in {1, 2, 4} /\ step \in Int
    BY <1>1 DEF Strings
  <2>2. QED
    BY <2>1, ExecutionAssumption, WordIs
<1>5. string.op # "cmps" => did = k
  <2>1. machine.gpr[REG_ECX] = 0 => did = k
    BY <1>4
  <2>2. QED
    BY <1>1, <1>3, <2>1
<1>6. ASSUME NEW i \in 0 .. k - 1
      PROVE  /\ to + step * i \in Int /\ to + step * i >= 0 /\ to + step * i + len <= Word
             /\ step * i \in Int
             /\ \A a : Covers(string, i, a) <=> to + step * i <= a /\ a < to + step * i + len
  <2>1. To(string, i) \in Int /\ To(string, i) >= 0 /\ To(string, i) + len <= Word
    BY <1>1, <1>3, StringIs
  <2>2. step * i \in Int
    BY <1>4
  <2>3. QED
    BY <1>2, <2>1, <2>2 DEF Covers
<1>7. \A a \in 0 .. Word - 1 : a \notin written => machine.mem[a] = m.mem[a]
  <2> SUFFICES ASSUME NEW a \in 0 .. Word - 1, a \notin written PROVE machine.mem[a] = m.mem[a]
    OBVIOUS
  <2>1. a \in Words /\ a \in Int
    BY <1>4 DEF Words
  <2>2. CASE string.op = "cmps"
    BY <1>3, <2>1, <2>2 DEF Untouched
  <2>3. CASE string.op # "cmps"
    <3>1. \A i \in 0 .. k - 1 : a \notin Element(to, i)
      BY <2>3
    <3>2. \A i \in 0 .. k - 1 : ~Covers(string, i, a)
      <4> SUFFICES ASSUME NEW i \in 0 .. k - 1, Covers(string, i, a) PROVE FALSE
        OBVIOUS
      <4> DEFINE e == to + step * i
      <4>1. e \in Int /\ e <= a /\ a < e + len
        BY <1>6
      <4>2. a \notin e .. (e + len - 1)
        BY <3>1
      <4> HIDE DEF e
      <4>3. len \in Int
        BY <1>4
      <4> HIDE DEF len
      <4>4. QED
        BY <2>1, <4>1, <4>2, <4>3
    <3>3. QED
      BY <1>3, <1>5, <2>1, <2>3, <3>2 DEF Untouched
  <2>4. QED
    BY <2>2, <2>3
<1>8. string.op = "movs" => \A a \in written : machine.mem[a] = m.mem[(a - to) + from]
  <2> SUFFICES ASSUME string.op = "movs", NEW a \in written PROVE machine.mem[a] = m.mem[(a - to) + from]
    OBVIOUS
  <2>1. PICK i \in 0 .. k - 1 : a \in Element(to, i)
    OBVIOUS
  <2> DEFINE e == step * i
             j == a - (to + e)
  <2>2. e \in Int /\ a \in Int /\ to + e <= a /\ a <= to + e + len - 1 /\ len \in Int
    BY <1>4, <1>6, <2>1
  <2>3. j \in 0 .. len - 1 /\ to + e + j = a /\ from + e + j = (a - to) + from
    <3>1. /\ e \in Int /\ a \in Int /\ to \in Int /\ from \in Int /\ len \in Int
          /\ to + e <= a /\ a <= to + e + len - 1
      BY <1>4, <2>2
    <3> HIDE DEF e, to, from, len
    <3>2. j \in Int /\ 0 <= j /\ j <= len - 1
      BY <3>1
    <3>3. to + e + j = a
      BY <3>1
    <3>4. from + e + j = (a - to) + from
      BY <3>1
    <3>5. QED
      BY ONLY <3>1, <3>2, <3>3, <3>4
  <2>4. machine.mem[To(string, i) + j] = m.mem[From(string, i) + j]
    BY <1>3, <1>5, <2>3 DEF Copied
  <2>5. To(string, i) = to + e /\ From(string, i) = from + e
    BY <1>2
  <2>6. QED
    BY <2>3, <2>4, <2>5
<1>9. string.op = "stos" =>
        \A i \in 0 .. k - 1 : Load(machine, to + step * i, len) = Low(m.gpr[0], Byte * len)
  <2> SUFFICES ASSUME string.op = "stos", NEW i \in 0 .. k - 1
               PROVE  Load(machine, to + step * i, len) = Low(m.gpr[0], Byte * len)
    OBVIOUS
  <2> DEFINE e == to + step * i
             v == Low(m.gpr[0], Byte * len)
  <2>1. v \in Int /\ v >= 0 /\ v < 2^(Byte * len)
    BY <1>4, EaxIsRead
  <2>2. e \in Int /\ e >= 0 /\ e + len <= Word
    BY <1>6
  <2>3. Holds(machine, e, len, v)
    BY <1>2, <1>3, <1>5 DEF Filled
  <2> HIDE DEF e, v
  <2>4. Load(machine, e, len) = v
    BY <1>1, <1>4, <2>1, <2>2, <2>3, ReadBack
  <2>5. QED
    BY <2>4 DEF e, v
<1>10. IF string.op = "cmps"
       THEN /\ \A i \in 0 .. did - 1 : Equal(i) <=> (i = did - 1 /\ string.over)
            /\ did = k \/ string.over
       ELSE did = k
  <2>1. CASE string.op = "cmps"
    <3>1. \A i : SameElement(string, i) <=> Equal(i)
      BY <1>2 DEF SameElement
    <3>2. \A i \in 0 .. did - 1 : Equal(i) <=> (i = did - 1 /\ string.over)
      BY <1>3, <2>1, <3>1 DEF Compared
    <3>3. did = k \/ string.over
      BY <1>1, <1>4
    <3>4. QED
      BY <2>1, <3>2, <3>3
  <2>2. CASE string.op # "cmps"
    BY <1>5, <2>2
  <2>3. QED
    BY <2>1, <2>2
<1>11. QED
  BY <1>3, <1>7, <1>8, <1>9, <1>10 DEF StringsAreMoved

(* With words of 32 bits, a repeated movs copies, and a repeated stos      *)
(* fills, the elements it is told to and no other byte, and cmps stops     *)
(* behind the first pair that is equal, for any counts and places that do  *)
(* not overlap (StringsAreMoved).                                          *)
THEOREM StringsAreRight ==
  ASSUME Byte = 8
  PROVE  ProgramSpec => []StringsAreMoved
<1>1. ProgramInit => StringsStand
  BY DEF ProgramInit, StringsStand
<1>2. ProgramInv /\ StringsStand /\ [ProgramStep]_programVars => StringsStand'
  BY StringsStep
<1>3. ProgramInv /\ StringsStand => StringsAreMoved
  BY EndedAsMeant
<1>4. QED
  BY <1>1, <1>2, <1>3, ProgramStands, PTL DEF ProgramSpec
=============================================================================
