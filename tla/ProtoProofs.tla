---------------------------- MODULE ProtoProofs ----------------------------
(***************************************************************************)
(* What the programs hand each other, for any octets, lengths and words:   *)
(* messages that arrive in pieces are read whole or not at all; a program  *)
(* asks where `run` has waited; what is filed for a reference is found by  *)
(* it; durations mean what they say; and the hooks add to the entries of a *)
(* variable and take none away.  Texts are of any length: where one would  *)
(* argue by induction, the least or the last position of a kind is taken.  *)
(***************************************************************************)
EXTENDS MCProto, SequenceTheorems, FunctionTheorems, FiniteSetTheorems,
        WellFoundedInduction, TLAPS

USE WireProtocolAssumption

-----------------------------------------------------------------------------
(* Lengths and fields.                                                        *)

LEMMA DivMod ==
  ASSUME NEW n \in Nat, NEW d \in Nat, d > 0
  PROVE  /\ n \div d \in Nat /\ n % d \in 0..d - 1
         /\ (n \div d) * d + (n % d) = n
         /\ n < d => n % d = n
OBVIOUS

LEMMA MaxLenIs == MaxLen \in Nat /\ MaxLen + 1 = Octet * Octet
<1>1. Octet * Octet \in Nat /\ Octet * Octet > 0
  OBVIOUS
<1>2. QED
  BY <1>1 DEF MaxLen

\* A length is written as two octets and read back from where they are.
LEMMA LengthIs ==
  ASSUME NEW n \in Nat, NEW buf, NEW offset \in Nat,
         buf[offset + 1] = ToBytes(n)[1], buf[offset + 2] = ToBytes(n)[2]
  PROVE  Length(buf, offset) = n
<1> DEFINE f == SubSeq(buf, offset + 1, offset + 2)
           S == {buf[offset + 1], buf[offset + 2]}
<1>1. \A i \in offset + 1 .. offset + 2 : buf[i] \in S
  OBVIOUS
<1>2. f[1] = buf[offset + 1] /\ f[2] = buf[offset + 2]
  <2>1. \A i \in 1 .. (offset + 2) - (offset + 1) + 1 : f[i] = buf[(offset + 1) + i - 1]
    <3> HIDE DEF S
    <3>1. QED
      BY <1>1, SubSeqProperties
  <2>2. QED
    BY <2>1
<1> HIDE DEF f
<1>3. Length(buf, offset) = f[1] * Octet + f[2]
  BY DEF Length, Field, FromBytes, f
<1>4. ToBytes(n)[1] = n \div Octet /\ ToBytes(n)[2] = n % Octet
  BY DEF ToBytes
<1>5. (n \div Octet) * Octet + (n % Octet) = n
  BY DivMod
<1>6. QED
  BY <1>2, <1>3, <1>4, <1>5

\* A field is found where its octets are.
LEMMA FieldIs ==
  ASSUME NEW S, NEW f \in Seq(S), NEW buf, NEW offset \in Nat,
         \A i \in 1..Len(f) : buf[offset + i] = f[i]
  PROVE  Field(buf, offset, Len(f)) = f
<1>1. Len(f) \in Nat /\ \A i \in 1..Len(f) : f[i] \in S
  BY LenProperties, ElementOfSeq
<1> DEFINE m == offset + 1
           n == offset + Len(f)
           g == SubSeq(buf, m, n)
<1>2. m \in Int /\ n \in Int /\ n - m + 1 = Len(f)
  BY <1>1
<1>3. \A i \in m .. n : buf[i] \in S
  <2>1. ASSUME NEW i \in m .. n PROVE i - offset \in 1..Len(f) /\ i = offset + (i - offset)
    BY <1>1
  <2>2. QED
    BY <1>1, <2>1
<1>4. \A i \in 1..Len(f) : m + i - 1 = offset + i
  BY <1>1
<1>5. m <= n \/ Len(f) = 0
  BY <1>1
<1>6. Field(buf, offset, Len(f)) = g
  BY DEF Field
<1> HIDE DEF m, n
<1>7. /\ g \in Seq(S)
      /\ Len(g) = IF m <= n THEN n - m + 1 ELSE 0
      /\ \A i \in 1 .. n - m + 1 : g[i] = buf[m + i - 1]
  BY <1>2, <1>3, SubSeqProperties
<1> HIDE DEF g
<1>8. Len(g) = Len(f) /\ \A i \in 1..Len(f) : g[i] = f[i]
  BY <1>2, <1>4, <1>5, <1>7, <1>1
<1>9. g = f
  BY <1>7, <1>8, SeqEqual
<1>10. QED
  BY <1>6, <1>9

-----------------------------------------------------------------------------
(* Messages.                                                                  *)

LEMMA ToBytesIs ==
  ASSUME NEW n \in Nat
  PROVE  ToBytes(n) \in Seq(Nat) /\ Len(ToBytes(n)) = 2
<1>1. n \div Octet \in Nat /\ n % Octet \in Nat
  BY DivMod
<1>2. QED
  BY <1>1 DEF ToBytes

LEMMA Joined ==
  ASSUME NEW S, NEW s \in Seq(S), NEW t \in Seq(S), NEW u, u = s \o t
  PROVE  /\ u \in Seq(S) /\ Len(u) = Len(s) + Len(t)
         /\ \A i \in 1..Len(s) : u[i] = s[i]
         /\ \A i \in 1..Len(t) : u[Len(s) + i] = t[i]
<1>1. Len(s) \in Nat /\ Len(t) \in Nat
  BY LenProperties
<1>2. /\ u \in Seq(S) /\ Len(u) = Len(s) + Len(t)
      /\ \A i \in 1 .. Len(s) + Len(t) : u[i] = IF i <= Len(s) THEN s[i] ELSE t[i - Len(s)]
  BY ConcatProperties
<1>3. \A i \in 1..Len(s) : i \in 1 .. Len(s) + Len(t) /\ i <= Len(s)
  BY <1>1
<1>4. \A i \in 1..Len(t) : /\ Len(s) + i \in 1 .. Len(s) + Len(t) /\ ~ (Len(s) + i <= Len(s))
                           /\ (Len(s) + i) - Len(s) = i
  BY <1>1
<1>5. QED
  BY <1>2, <1>3, <1>4

\* A length and a field are put after what there is of a message.
Extends(s, h, n, f) ==
  h \in Seq(Nat) /\ n \in Nat /\ f \in Seq(Nat) /\ s = h \o ToBytes(n) \o f

Laid(s, h, n, f) ==
  /\ s \in Seq(Nat) /\ Len(s) = Len(h) + 2 + Len(f)
  /\ \A i \in 1..Len(h) : s[i] = h[i]
  /\ s[Len(h) + 1] = ToBytes(n)[1] /\ s[Len(h) + 2] = ToBytes(n)[2]
  /\ \A i \in 1..Len(f) : s[Len(h) + 2 + i] = f[i]

LEMMA Extended == ASSUME NEW s, NEW h, NEW n, NEW f, Extends(s, h, n, f) PROVE Laid(s, h, n, f)
<1>1. h \in Seq(Nat) /\ n \in Nat /\ f \in Seq(Nat) /\ s = h \o ToBytes(n) \o f
  BY DEF Extends
<1>2. PICK b \in Seq(Nat) : b = ToBytes(n)
  BY <1>1, ToBytesIs
<1>3. PICK t : t = h \o b
  OBVIOUS
<1>4. s = t \o f
  BY <1>1, <1>2, <1>3
<1>5. h \in Seq(Nat) /\ f \in Seq(Nat)
  BY <1>1
<1>6. /\ t \in Seq(Nat) /\ Len(t) = Len(h) + Len(b)
      /\ \A i \in 1..Len(h) : t[i] = h[i]
      /\ \A i \in 1..Len(b) : t[Len(h) + i] = b[i]
  BY <1>3, <1>5, Joined
<1>7. /\ s \in Seq(Nat) /\ Len(s) = Len(t) + Len(f)
      /\ \A i \in 1..Len(t) : s[i] = t[i]
      /\ \A i \in 1..Len(f) : s[Len(t) + i] = f[i]
  <2>1. t \in Seq(Nat)
    BY <1>6
  <2>2. QED
    BY ONLY <1>4, <1>5, <2>1, Joined
<1>8. Len(b) = 2 /\ Len(h) \in Nat
  BY <1>1, <1>2, ToBytesIs, LenProperties
<1>9. /\ Len(t) = Len(h) + 2
      /\ t[Len(h) + 1] = b[1] /\ t[Len(h) + 2] = b[2]
      /\ \A i \in 1..Len(h) : i \in 1..Len(t)
      /\ Len(h) + 1 \in 1..Len(t) /\ Len(h) + 2 \in 1..Len(t)
  BY <1>6, <1>8
<1>10. QED
  BY <1>2, <1>6, <1>7, <1>9 DEF Laid

\* A message's first octet and first field, n octets long: what of them is in a buffer
\* that has so many octets.
First3(first, f) == <<first>> \o ToBytes(Len(f)) \o f

Begins(a, first, n, f) ==
  /\ Len(a) >= 3 => a[1] = first /\ a[2] = ToBytes(n)[1] /\ a[3] = ToBytes(n)[2]
  /\ Len(a) >= 3 + n => \A i \in 1..n : a[3 + i] = f[i]

LEMMA First3Is ==
  ASSUME NEW first \in Nat, NEW f \in Seq(Nat), NEW n \in Nat, n = Len(f),
         NEW s, s = First3(first, f)
  PROVE  s \in Seq(Nat) /\ Len(s) = 3 + n /\ Begins(s, first, n, f)
<1>1. PICK h \in Seq(Nat) : h = <<first>>
  <2>1. <<first>> \in Seq(Nat)
    OBVIOUS
  <2>2. QED
    BY <2>1
<1>2. Len(h) = 1 /\ h[1] = first
  BY <1>1
<1>3. Extends(s, h, n, f)
  BY <1>1 DEF First3, Extends
<1>4. Laid(s, h, n, f)
  BY <1>3, Extended
<1>5. QED
  BY <1>2, <1>4 DEF Laid, Begins

\* What has arrived of a message.
Arrived(a, s) ==
  /\ s \in Seq(Nat) /\ a \in Seq(Nat) /\ Len(a) <= Len(s)
  /\ \A i \in 1..Len(a) : a[i] = s[i]

LEMMA AllArrived ==
  ASSUME NEW s, NEW a, Arrived(a, s)
  PROVE  a = s <=> Len(a) = Len(s)
BY SeqEqual DEF Arrived

-----------------------------------------------------------------------------
(* What is read of them.                                                      *)

LEMMA BeginsArrived ==
  ASSUME NEW s, NEW a, Arrived(a, s), NEW first, NEW n \in Nat, NEW f, Begins(s, first, n, f)
  PROVE  Begins(a, first, n, f)
<1>1. Len(a) \in Nat /\ Len(s) \in Nat /\ Len(a) <= Len(s)
  BY LenProperties DEF Arrived
<1>2. ASSUME Len(a) >= 3
      PROVE  a[1] = first /\ a[2] = ToBytes(n)[1] /\ a[3] = ToBytes(n)[2]
  <2>1. 1 \in 1..Len(a) /\ 2 \in 1..Len(a) /\ 3 \in 1..Len(a) /\ Len(s) >= 3
    BY <1>1, <1>2
  <2>2. QED
    BY <2>1 DEF Arrived, Begins
<1>3. ASSUME Len(a) >= 3 + n PROVE \A i \in 1..n : a[3 + i] = f[i]
  <2>1. Len(s) >= 3 + n /\ \A i \in 1..n : 3 + i \in 1..Len(a)
    BY <1>1, <1>3
  <2>2. QED
    BY <2>1 DEF Arrived, Begins
<1>4. QED
  BY <1>2, <1>3 DEF Begins

\* Its length is read once there are three octets, and the field once it is whole.
LEMMA BeginsRead ==
  ASSUME NEW a, NEW first, NEW n \in Nat, NEW f \in Seq(Nat), n = Len(f), Begins(a, first, n, f)
  PROVE  /\ Len(a) >= 3 => a[1] = first /\ Length(a, 1) = n
         /\ Len(a) >= 3 + n => Field(a, 3, n) = f
<1>1. ASSUME Len(a) >= 3 PROVE a[1] = first /\ Length(a, 1) = n
  <2>1. a[1] = first /\ a[1 + 1] = ToBytes(n)[1] /\ a[1 + 2] = ToBytes(n)[2]
    BY <1>1 DEF Begins
  <2>2. Length(a, 1) = n
    BY <2>1, LengthIs
  <2>3. QED
    BY <2>1, <2>2
<1>2. ASSUME Len(a) >= 3 + n PROVE Field(a, 3, n) = f
  <2>1. \A i \in 1..Len(f) : a[3 + i] = f[i]
    BY <1>2 DEF Begins
  <2>2. Field(a, 3, Len(f)) = f
    BY ONLY f \in Seq(Nat), <2>1, FieldIs
  <2>3. QED
    BY <2>2
<1>3. QED
  BY <1>1, <1>2

\* A request without a value.
LEMMA Version1Read ==
  ASSUME NEW key \in Seq(Nat), NEW s, s = First3(PROTOCOL_V1, key), NEW a, Arrived(a, s)
  PROVE  ReadRequest(a) = IF a = s THEN Request(key, <<>>) ELSE Incomplete
<1>1. PICK n \in Nat : n = Len(key)
  BY LenProperties
<1>2. s \in Seq(Nat) /\ Len(s) = 3 + n /\ Begins(s, PROTOCOL_V1, n, key)
  BY <1>1, First3Is DEF PROTOCOL_V1
<1>3. a \in Seq(Nat) /\ Len(a) \in Nat /\ Len(a) <= 3 + n
  BY <1>2, LenProperties DEF Arrived
<1>4. a = s <=> Len(a) = 3 + n
  BY <1>2, AllArrived
<1>5. Begins(a, PROTOCOL_V1, n, key)
  BY <1>2, BeginsArrived
<1>6. /\ Len(a) >= 3 => a[1] = PROTOCOL_V1 /\ Length(a, 1) = n
      /\ Len(a) >= 3 + n => Field(a, 3, n) = key
  BY <1>1, <1>5, BeginsRead
<1>7. QED
  BY <1>3, <1>4, <1>6 DEF ReadRequest

\* One with a value.
Version2(key, val) == First3(PROTOCOL_V2, key) \o ToBytes(Len(val)) \o val

Goes(a, k, v, val) ==
  /\ Len(a) >= 5 + k => a[3 + k + 1] = ToBytes(v)[1] /\ a[3 + k + 2] = ToBytes(v)[2]
  /\ Len(a) >= 5 + k + v => \A i \in 1..v : a[5 + k + i] = val[i]

LEMMA Version2Is ==
  ASSUME NEW key \in Seq(Nat), NEW val \in Seq(Nat), NEW s, s = Version2(key, val),
         NEW k \in Nat, k = Len(key), NEW v \in Nat, v = Len(val)
  PROVE  /\ s \in Seq(Nat) /\ Len(s) = 5 + k + v
         /\ Begins(s, PROTOCOL_V2, k, key) /\ Goes(s, k, v, val)
<1>1. PICK h : h = First3(PROTOCOL_V2, key)
  OBVIOUS
<1>2. h \in Seq(Nat) /\ Len(h) = 3 + k /\ Begins(h, PROTOCOL_V2, k, key)
  BY <1>1, First3Is DEF PROTOCOL_V2
<1>3. Extends(s, h, v, val)
  BY <1>1, <1>2 DEF Version2, Extends
<1>4. Laid(s, h, v, val)
  BY <1>3, Extended
<1>5. s \in Seq(Nat) /\ Len(s) = 5 + k + v
  BY <1>2, <1>4 DEF Laid
<1>6. \A i \in 1..3 + k : s[i] = h[i]
  BY <1>2, <1>4 DEF Laid
<1>7. Begins(s, PROTOCOL_V2, k, key)
  <2>1. 1 \in 1..3 + k /\ 2 \in 1..3 + k /\ 3 \in 1..3 + k /\ \A i \in 1..k : 3 + i \in 1..3 + k
    OBVIOUS
  <2>2. s[1] = h[1] /\ s[2] = h[2] /\ s[3] = h[3] /\ \A i \in 1..k : s[3 + i] = h[3 + i]
    BY <1>6, <2>1
  <2>3. QED
    BY <1>2, <2>2 DEF Begins
<1>8. Goes(s, k, v, val)
  <2>1. \A i \in 1..v : (3 + k) + 2 + i = 5 + k + i
    OBVIOUS
  <2>2. QED
    BY <1>2, <1>4, <2>1 DEF Laid, Goes
<1>9. QED
  BY <1>5, <1>7, <1>8

LEMMA GoesArrived ==
  ASSUME NEW s, NEW a, Arrived(a, s), NEW k \in Nat, NEW v \in Nat, NEW val, Goes(s, k, v, val)
  PROVE  Goes(a, k, v, val)
<1>1. Len(a) \in Nat /\ Len(s) \in Nat /\ Len(a) <= Len(s)
  BY LenProperties DEF Arrived
<1>2. ASSUME Len(a) >= 5 + k
      PROVE  a[3 + k + 1] = ToBytes(v)[1] /\ a[3 + k + 2] = ToBytes(v)[2]
  <2>1. 3 + k + 1 \in 1..Len(a) /\ 3 + k + 2 \in 1..Len(a) /\ Len(s) >= 5 + k
    BY <1>1, <1>2
  <2>2. QED
    BY <2>1 DEF Arrived, Goes
<1>3. ASSUME Len(a) >= 5 + k + v PROVE \A i \in 1..v : a[5 + k + i] = val[i]
  <2>1. Len(s) >= 5 + k + v /\ \A i \in 1..v : 5 + k + i \in 1..Len(a)
    BY <1>1, <1>3
  <2>2. QED
    BY <2>1 DEF Arrived, Goes
<1>4. QED
  BY <1>2, <1>3 DEF Goes

LEMMA GoesRead ==
  ASSUME NEW a, NEW k \in Nat, NEW v \in Nat, NEW val \in Seq(Nat), v = Len(val),
         Goes(a, k, v, val)
  PROVE  /\ Len(a) >= 5 + k => Length(a, 3 + k) = v
         /\ Len(a) >= 5 + k + v => Field(a, 5 + k, v) = val
<1>1. ASSUME Len(a) >= 5 + k PROVE Length(a, 3 + k) = v
  <2>1. PICK offset \in Nat : offset = 3 + k
    OBVIOUS
  <2>2. a[offset + 1] = ToBytes(v)[1] /\ a[offset + 2] = ToBytes(v)[2]
    BY <1>1, <2>1 DEF Goes
  <2>3. QED
    BY <2>1, <2>2, LengthIs
<1>2. ASSUME Len(a) >= 5 + k + v PROVE Field(a, 5 + k, v) = val
  <2>1. PICK offset \in Nat : offset = 5 + k
    OBVIOUS
  <2>2. \A i \in 1..Len(val) : a[offset + i] = val[i]
    BY <1>2, <2>1 DEF Goes
  <2>3. Field(a, offset, Len(val)) = val
    BY ONLY offset \in Nat, val \in Seq(Nat), <2>2, FieldIs
  <2>4. QED
    BY <2>1, <2>3
<1>3. QED
  BY <1>1, <1>2

LEMMA Version2Read ==
  ASSUME NEW key \in Seq(Nat), NEW val \in Seq(Nat), NEW s, s = Version2(key, val),
         NEW a, Arrived(a, s)
  PROVE  ReadRequest(a) = IF a = s THEN Request(key, val) ELSE Incomplete
<1>1. PICK k \in Nat : k = Len(key)
  BY LenProperties
<1>2. PICK v \in Nat : v = Len(val)
  BY LenProperties
<1>3. /\ s \in Seq(Nat) /\ Len(s) = 5 + k + v
      /\ Begins(s, PROTOCOL_V2, k, key) /\ Goes(s, k, v, val)
  BY <1>1, <1>2, Version2Is
<1>4. a \in Seq(Nat) /\ Len(a) \in Nat /\ Len(a) <= 5 + k + v
  BY <1>3, LenProperties DEF Arrived
<1>5. a = s <=> Len(a) = 5 + k + v
  BY <1>3, AllArrived
<1>6. Begins(a, PROTOCOL_V2, k, key) /\ Goes(a, k, v, val)
  BY <1>3, BeginsArrived, GoesArrived
<1>7. /\ Len(a) >= 3 => a[1] = PROTOCOL_V2 /\ Length(a, 1) = k
      /\ Len(a) >= 3 + k => Field(a, 3, k) = key
  BY <1>1, <1>6, BeginsRead
<1>8. /\ Len(a) >= 5 + k => Length(a, 3 + k) = v
      /\ Len(a) >= 5 + k + v => Field(a, 5 + k, v) = val
  BY <1>2, <1>6, GoesRead
<1>9. PROTOCOL_V2 # PROTOCOL_V1
  BY DEF PROTOCOL_V1, PROTOCOL_V2
<1>10. CASE Len(a) < 3
  BY <1>4, <1>5, <1>10 DEF ReadRequest
<1>11. CASE Len(a) >= 3 /\ Len(a) < 5 + k
  BY <1>4, <1>5, <1>7, <1>9, <1>11 DEF ReadRequest
<1>12. CASE Len(a) >= 5 + k
  <2>1. /\ ~ (Len(a) < 3) /\ a[1] \in {PROTOCOL_V1, PROTOCOL_V2} /\ ~ (a[1] = PROTOCOL_V1)
        /\ ~ (Len(a) < 3 + Length(a, 1)) /\ ~ (Len(a) < 5 + Length(a, 1))
    BY <1>4, <1>7, <1>9, <1>12
  <2>2. Length(a, 1) = k /\ Length(a, 3 + k) = v /\ Field(a, 3, k) = key
    BY <1>4, <1>7, <1>8, <1>12
  <2>3. ReadRequest(a) = IF Len(a) < 5 + k + v THEN Incomplete
                         ELSE Request(key, Field(a, 5 + k, v))
    BY <2>1, <2>2 DEF ReadRequest
  <2>4. CASE Len(a) < 5 + k + v
    BY <1>4, <1>5, <2>3, <2>4
  <2>5. CASE Len(a) >= 5 + k + v
    <3>1. ~ (Len(a) < 5 + k + v) /\ Len(a) = 5 + k + v
      BY <1>4, <2>5
    <3>2. QED
      BY <1>5, <1>8, <2>3, <2>5, <3>1
  <2>6. QED
    BY <1>4, <2>4, <2>5
<1>13. QED
  BY <1>4, <1>10, <1>11, <1>12

LEMMA ResponseRead ==
  ASSUME NEW status \in Status, NEW val \in Seq(Nat), NEW s, s = First3(status, val),
         NEW a, Arrived(a, s)
  PROVE  DecodeResponse(a) = IF a = s THEN Response(status, val) ELSE Incomplete
<1>1. PICK n \in Nat : n = Len(val)
  BY LenProperties
<1>2. s \in Seq(Nat) /\ Len(s) = 3 + n /\ Begins(s, status, n, val)
  BY <1>1, First3Is DEF Status
<1>3. a \in Seq(Nat) /\ Len(a) \in Nat /\ Len(a) <= 3 + n
  BY <1>2, LenProperties DEF Arrived
<1>4. a = s <=> Len(a) = 3 + n
  BY <1>2, AllArrived
<1>5. Begins(a, status, n, val)
  BY <1>2, BeginsArrived
<1>6. /\ Len(a) >= 3 => a[1] = status /\ Length(a, 1) = n
      /\ Len(a) >= 3 + n => Field(a, 3, n) = val
  BY <1>1, <1>5, BeginsRead
<1>7. QED
  BY <1>3, <1>4, <1>6 DEF DecodeResponse

-----------------------------------------------------------------------------
(* What is sent.                                                              *)

Fits(key, val) == Len(key) <= MaxLen /\ Len(val) <= MaxLen

\* The clients but Java, and Java as long as the value fits.
SentRequest(key, val) ==
  IF val = <<>> THEN First3(PROTOCOL_V1, key) ELSE Version2(key, val)

LEMMA LenIsNat == ASSUME NEW f \in Seq(Nat) PROVE Len(f) \in Nat
BY LenProperties

LEMMA NativeIs ==
  ASSUME NEW key \in Seq(Nat), NEW val \in Seq(Nat)
  PROVE  NativeRequest(key, val) = IF Fits(key, val) THEN SentRequest(key, val) ELSE NoMessage
<1>1. Len(key) \in Nat /\ Len(val) \in Nat /\ MaxLen \in Nat
  BY LenIsNat, MaxLenIs
<1>2. CASE val = <<>>
  <2>1. Len(val) = 0
    BY <1>2
  <2>2. QED
    BY <1>1, <1>2, <2>1 DEF NativeRequest, EncodeRequest, Fits, SentRequest, First3
<1>3. CASE val # <<>>
  BY <1>1, <1>3 DEF NativeRequest, EncodeRequestV2, Fits, SentRequest, Version2, First3
<1>4. QED
  BY <1>2, <1>3

LEMMA JavaIs ==
  ASSUME NEW key \in Seq(Nat), NEW val \in Seq(Nat), Len(val) <= MaxLen
  PROVE  JavaRequest(key, val) = IF Fits(key, val) THEN SentRequest(key, val) ELSE NoMessage
<1>1. Len(key) \in Nat /\ Len(val) \in Nat /\ MaxLen \in Nat
  BY LenIsNat, MaxLenIs
<1>2. CASE val = <<>>
  BY <1>1, <1>2 DEF JavaRequest, EncodeRequest, Fits, SentRequest, First3
<1>3. CASE val # <<>>
  <2>1. Len(val) % (MaxLen + 1) = Len(val)
    <3>1. PICK n \in Nat : n = Len(val)
      BY <1>1
    <3>2. PICK d \in Nat : d = MaxLen + 1
      BY <1>1
    <3>3. n < d /\ d > 0
      BY <1>1, <3>1, <3>2
    <3>4. n % d = n
      BY <3>3, DivMod
    <3>5. QED
      BY <3>1, <3>2, <3>4
  <2>2. QED
    BY <1>1, <1>3, <2>1 DEF JavaRequest, Fits, SentRequest, Version2, First3
<1>4. QED
  BY <1>2, <1>3

LEMMA ResponseIs ==
  ASSUME NEW status \in Status, NEW val \in Seq(Nat)
  PROVE  EncodeResponse(status, val) = IF Len(val) <= MaxLen THEN First3(status, val)
                                       ELSE NoMessage
<1>1. Len(val) \in Nat /\ MaxLen \in Nat
  BY LenIsNat, MaxLenIs
<1>2. QED
  BY <1>1 DEF EncodeResponse, First3

\* Whatever is sent are octets.
LEMMA SentIs ==
  ASSUME NEW key \in Seq(Nat), NEW val \in Seq(Nat)
  PROVE  SentRequest(key, val) \in Seq(Nat)
<1>1. Len(key) \in Nat /\ Len(val) \in Nat
  BY LenIsNat
<1>2. First3(PROTOCOL_V1, key) \in Seq(Nat)
  BY <1>1, First3Is DEF PROTOCOL_V1
<1>3. Version2(key, val) \in Seq(Nat)
  BY <1>1, Version2Is
<1>4. QED
  BY <1>2, <1>3 DEF SentRequest

LEMMA JavaSent ==
  ASSUME NEW key \in Seq(Nat), NEW val \in Seq(Nat)
  PROVE  JavaRequest(key, val) \in Seq(Nat) \cup {NoMessage}
<1>1. Len(key) \in Nat /\ Len(val) \in Nat /\ MaxLen \in Nat
  BY LenIsNat, MaxLenIs
<1>2. CASE Len(val) <= MaxLen
  BY <1>2, JavaIs, SentIs
<1>3. CASE ~ (Len(val) <= MaxLen) /\ Len(key) <= MaxLen
  <2>1. Len(val) % (MaxLen + 1) \in Nat
    BY <1>1, DivMod
  <2>2. PICK h \in Seq(Nat) : h = First3(PROTOCOL_V2, key)
    BY <1>1, First3Is DEF PROTOCOL_V2
  <2>3. PICK n \in Nat : n = Len(val) % (MaxLen + 1)
    BY <2>1
  <2>4. val # <<>>
    <3>1. Len(val) # 0
      BY <1>1, <1>3
    <3>2. QED
      BY <3>1
  <2>5. JavaRequest(key, val) = h \o ToBytes(n) \o val
    <3>1. JavaRequest(key, val)
            = First3(PROTOCOL_V2, key) \o ToBytes(Len(val) % (MaxLen + 1)) \o val
      <4>1. ~ (Len(key) > MaxLen)
        BY <1>1, <1>3
      <4>2. QED
        BY ONLY <2>4, <4>1, Zenon DEF JavaRequest, First3
    <3>2. QED
      BY ONLY <3>1, <2>2, <2>3
  <2>6. PICK s : s = h \o ToBytes(n) \o val
    OBVIOUS
  <2>7. Extends(s, h, n, val)
    BY <2>6 DEF Extends
  <2>8. s \in Seq(Nat)
    BY <2>7, Extended DEF Laid
  <2>9. QED
    BY <2>5, <2>6, <2>8
<1>4. CASE ~ (Len(key) <= MaxLen)
  BY <1>1, <1>4 DEF JavaRequest
<1>5. QED
  BY <1>2, <1>3, <1>4

-----------------------------------------------------------------------------
(* The messages of a run.                                                     *)

LEMMA IsSeq ==
  ASSUME NEW n \in Nat, NEW S, NEW f \in [1..n -> S]
  PROVE  f \in Seq(S)
<1>1. f \in UNION {[1..k -> S] : k \in Nat}
  OBVIOUS
<1>2. QED
  BY ONLY <1>1, SeqDef, Zenon

LEMMA FieldsAre == Fields \subseteq Seq(Nat)
<1>1. ASSUME NEW n \in Lengths PROVE [i \in 1..n |-> i % 3] \in Seq(Nat)
  <2>1. n \in Nat
    BY MCProtoAssumption
  <2>2. [i \in 1..n |-> i % 3] \in [1..n -> Nat]
    BY <2>1
  <2>3. QED
    BY <2>1, <2>2, IsSeq
<1>2. QED
  BY <1>1 DEF Fields

\* The requests and the responses there are.
IsRequest(m)  == m = [by |-> m.by, key |-> m.key, value |-> m.value]
                   /\ m.by \in {"native", "java"} /\ m.key \in Seq(Nat) /\ m.value \in Seq(Nat)
IsResponse(m) == m = [by |-> m.by, status |-> m.status, value |-> m.value]
                   /\ m.by = "agent" /\ m.status \in Status /\ m.value \in Seq(Nat)
IsOctets(m)   == m = [by |-> m.by, octets |-> m.octets]
                   /\ m.by = "anybody" /\ m.octets \in Seq(Nat)

LEMMA MessagesAre ==
  ASSUME NEW m \in Messages
  PROVE  IsRequest(m) \/ IsResponse(m) \/ IsOctets(m)
<1>1. CASE m \in [by : {"native", "java"}, key : Fields, value : Fields]
  BY <1>1, FieldsAre DEF IsRequest
<1>2. CASE m \in [by : {"agent"}, status : Status, value : Fields]
  BY <1>2, FieldsAre DEF IsResponse
<1>3. CASE m \in [by : {"anybody"}, octets : UNION {[1..n -> 0..3] : n \in 0..MaxOctets}]
  <2>1. PICK n \in 0..MaxOctets : m.octets \in [1..n -> 0..3]
    BY <1>3
  <2>2. MaxOctets \in Nat
    BY MCProtoAssumption, Zenon
  <2>3. n \in Nat /\ m.octets \in [1..n -> Nat]
    BY <2>1, <2>2
  <2>4. m.octets \in Seq(Nat)
    BY <2>3, IsSeq
  <2>5. QED
    BY <1>3, <2>4 DEF IsOctets
<1>4. QED
  BY <1>1, <1>2, <1>3 DEF Messages

LEMMA EncodedIs ==
  ASSUME NEW m \in Messages
  PROVE  Encoded(m) \in Seq(Nat) \cup {NoMessage}
<1>1. CASE IsRequest(m) /\ m.by = "native"
  <2>1. Encoded(m) = NativeRequest(m.key, m.value)
    BY <1>1 DEF Encoded
  <2>2. QED
    BY <1>1, <2>1, NativeIs, SentIs DEF IsRequest
<1>2. CASE IsRequest(m) /\ m.by = "java"
  <2>1. Encoded(m) = JavaRequest(m.key, m.value)
    BY <1>2 DEF Encoded
  <2>2. QED
    BY <1>2, <2>1, JavaSent DEF IsRequest
<1>3. CASE IsResponse(m)
  <2>1. Encoded(m) = EncodeResponse(m.status, m.value)
    BY <1>3 DEF Encoded, IsResponse
  <2>2. PICK val \in Seq(Nat) : val = m.value
    BY <1>3 DEF IsResponse
  <2>3. PICK status \in Status : status = m.status
    BY <1>3 DEF IsResponse
  <2>4. First3(status, val) \in Seq(Nat)
    <3>1. PICK n \in Nat : n = Len(val)
      BY LenIsNat
    <3>2. status \in Nat
      BY DEF Status
    <3>3. PICK s : s = First3(status, val)
      OBVIOUS
    <3>4. s \in Seq(Nat)
      BY <3>1, <3>2, <3>3, First3Is
    <3>5. QED
      BY <3>3, <3>4
  <2>5. QED
    BY <2>1, <2>2, <2>3, <2>4, ResponseIs
<1>4. CASE IsOctets(m)
  BY <1>4 DEF Encoded, IsOctets
<1>5. QED
  BY <1>1, <1>2, <1>3, <1>4, MessagesAre DEF IsRequest

\* The other end never has anything but a beginning of what is sent.
THEOREM ArrivedInvariance == Spec => []ArrivedInv
<1>1. Init => ArrivedInv
  BY DEF Init, ArrivedInv, Stream
<1>2. ArrivedInv /\ [Next]_vars => ArrivedInv'
  <2> SUFFICES ASSUME ArrivedInv, [Next]_vars PROVE ArrivedInv'
    OBVIOUS
  <2>1. CASE UNCHANGED <<message, arrived>>
    BY <2>1 DEF ArrivedInv, Stream
  <2>2. CASE Send
    <3>1. arrived' = <<>> /\ message' \in Messages
      BY <2>2 DEF Send, Silent, ArrivedInv, Stream
    <3>2. Stream' \in Seq(Nat) \cup {NoMessage}
      BY <3>1, EncodedIs DEF Stream
    <3>3. QED
      BY <3>1, <3>2, EmptySeq, LenIsNat DEF ArrivedInv
  <2>3. CASE Arrive
    <3>1. /\ message' = message /\ Stream' = Stream /\ Stream # NoMessage
          /\ Len(arrived) < Len(Stream) /\ arrived' = Append(arrived, Stream[Len(arrived) + 1])
      BY <2>3 DEF Arrive, Stream
    <3>2. /\ arrived \in Seq(Nat) /\ Stream \in Seq(Nat)
          /\ \A i \in 1..Len(arrived) : arrived[i] = Stream[i]
      BY <3>1, EncodedIs DEF ArrivedInv, Stream
    <3>3. PICK e : e = Stream[Len(arrived) + 1]
      OBVIOUS
    <3>4. Len(arrived) \in Nat /\ Len(Stream) \in Nat /\ e \in Nat
      BY <3>1, <3>2, <3>3, LenIsNat, ElementOfSeq
    <3>5. /\ arrived' \in Seq(Nat) /\ Len(arrived') = Len(arrived) + 1
          /\ \A i \in 1..Len(arrived) : arrived'[i] = arrived[i]
          /\ arrived'[Len(arrived) + 1] = e
      BY <3>1, <3>2, <3>3, <3>4, AppendProperties
    <3>6. \A i \in 1..Len(arrived') : i \in 1..Len(arrived) \/ i = Len(arrived) + 1
      BY <3>4, <3>5
    <3>7. QED
      BY <3>1, <3>2, <3>3, <3>4, <3>5, <3>6 DEF ArrivedInv
  <2>4. QED
    BY <2>1, <2>2, <2>3 DEF Next, TypeReference, TypeDuration, Type, Execute, vars
<1>3. QED
  BY <1>1, <1>2, PTL DEF Spec

\* What is read of nothing.
LEMMA NothingRead == ReadRequest(<<>>) = Incomplete /\ DecodeResponse(<<>>) = Incomplete
BY DEF ReadRequest, DecodeResponse

\* A request that arrives in pieces is read when it is whole and as it was meant; one that
\* does not fit is not sent.
THEOREM RequestsFramed == Spec => []RequestFramed
<1>1. ASSUME ArrivedInv PROVE RequestFramed
  <2> SUFFICES ASSUME Sent({"native", "java"}),
                      message.by = "java" => Len(message.value) <= MaxLen
               PROVE  /\ Stream = NoMessage <=>
                           Len(message.key) > MaxLen \/ Len(message.value) > MaxLen
                      /\ ReadRequest(arrived) =
                           IF arrived = Stream THEN Request(message.key, message.value)
                           ELSE Incomplete
    BY DEF RequestFramed
  <2>1. message \in Messages /\ message # NoMessage /\ message.by \in {"native", "java"}
    BY <1>1 DEF Sent, ArrivedInv
  <2>2. IsRequest(message)
    BY <2>1, MessagesAre DEF IsResponse, IsOctets
  <2>3. PICK key \in Seq(Nat) : key = message.key
    BY <2>2 DEF IsRequest
  <2>4. PICK val \in Seq(Nat) : val = message.value
    BY <2>2 DEF IsRequest
  <2>5. Stream = IF Fits(key, val) THEN SentRequest(key, val) ELSE NoMessage
    <3>1. CASE message.by = "native"
      BY <2>1, <2>3, <2>4, <3>1, NativeIs DEF Stream, Encoded
    <3>2. CASE message.by = "java"
      BY <2>1, <2>3, <2>4, <3>2, JavaIs DEF Stream, Encoded
    <3>3. QED
      BY <2>1, <3>1, <3>2
  <2>6. SentRequest(key, val) \in Seq(Nat) /\ NoMessage \notin Seq(Nat)
    BY SentIs, MCProtoAssumption
  <2>7. Len(key) \in Nat /\ Len(val) \in Nat /\ MaxLen \in Nat
    BY LenIsNat, MaxLenIs
  <2>8. Stream = NoMessage <=> Len(key) > MaxLen \/ Len(val) > MaxLen
    BY <2>5, <2>6, <2>7 DEF Fits
  <2>9. ReadRequest(arrived) = IF arrived = Stream THEN Request(key, val) ELSE Incomplete
    <3>1. CASE Stream = NoMessage
      <4>1. arrived = <<>> /\ <<>> \in Seq(Nat)
        BY <1>1, <3>1 DEF ArrivedInv
      <4>2. QED
        BY <2>6, <3>1, <4>1, NothingRead
    <3>2. CASE Stream # NoMessage
      <4>1. PICK s : s = Stream
        OBVIOUS
      <4>2. s = SentRequest(key, val) /\ s \in Seq(Nat)
        BY <2>5, <2>6, <3>2, <4>1
      <4>3. Arrived(arrived, s)
        BY <1>1, <3>2, <4>1, <4>2 DEF ArrivedInv, Arrived
      <4>4. CASE val = <<>>
        <5>1. s = First3(PROTOCOL_V1, key)
          BY <4>2, <4>4 DEF SentRequest
        <5>2. QED
          BY <4>1, <4>3, <4>4, <5>1, Version1Read
      <4>5. CASE val # <<>>
        <5>1. s = Version2(key, val)
          BY <4>2, <4>5 DEF SentRequest
        <5>2. QED
          BY <4>1, <4>3, <5>1, Version2Read
      <4>6. QED
        BY <4>4, <4>5
    <3>3. QED
      BY <3>1, <3>2
  <2>10. QED
    BY <2>3, <2>4, <2>8, <2>9
<1>2. QED
  BY <1>1, ArrivedInvariance, PTL

\* A piece of a response is never decoded as a shorter one.
THEOREM ResponsesFramed == Spec => []ResponseFramed
<1>1. ASSUME ArrivedInv PROVE ResponseFramed
  <2> SUFFICES ASSUME Sent({"agent"})
               PROVE  /\ Stream = NoMessage <=> Len(message.value) > MaxLen
                      /\ DecodeResponse(arrived) =
                           IF arrived = Stream THEN Response(message.status, message.value)
                           ELSE Incomplete
    BY DEF ResponseFramed
  <2>1. message \in Messages /\ message # NoMessage /\ message.by = "agent"
    BY <1>1 DEF Sent, ArrivedInv
  <2>2. IsResponse(message)
    BY <2>1, MessagesAre DEF IsRequest, IsOctets
  <2>3. PICK val \in Seq(Nat) : val = message.value
    BY <2>2 DEF IsResponse
  <2>4. PICK status \in Status : status = message.status
    BY <2>2 DEF IsResponse
  <2>5. Stream = IF Len(val) <= MaxLen THEN First3(status, val) ELSE NoMessage
    BY <2>1, <2>3, <2>4, ResponseIs DEF Stream, Encoded
  <2>6. First3(status, val) \in Seq(Nat) /\ NoMessage \notin Seq(Nat)
    <3>1. PICK s : s = First3(status, val)
      OBVIOUS
    <3>2. status \in Nat
      BY DEF Status
    <3>3. PICK n \in Nat : n = Len(val)
      BY LenIsNat
    <3>4. s \in Seq(Nat)
      BY <3>1, <3>2, <3>3, First3Is
    <3>5. QED
      BY <3>1, <3>4, MCProtoAssumption
  <2>7. Len(val) \in Nat /\ MaxLen \in Nat
    BY LenIsNat, MaxLenIs
  <2>8. Stream = NoMessage <=> Len(val) > MaxLen
    BY <2>5, <2>6, <2>7
  <2>9. DecodeResponse(arrived) = IF arrived = Stream THEN Response(status, val) ELSE Incomplete
    <3>1. CASE Stream = NoMessage
      <4>1. arrived = <<>> /\ <<>> \in Seq(Nat)
        BY <1>1, <3>1 DEF ArrivedInv
      <4>2. QED
        BY <2>6, <3>1, <4>1, NothingRead
    <3>2. CASE Stream # NoMessage
      <4>1. PICK s : s = Stream
        OBVIOUS
      <4>2. s = First3(status, val) /\ s \in Seq(Nat)
        BY <2>5, <2>6, <3>2, <4>1
      <4>3. Arrived(arrived, s)
        BY <1>1, <3>2, <4>1, <4>2 DEF ArrivedInv, Arrived
      <4>4. QED
        BY <4>1, <4>2, <4>3, ResponseRead
    <3>3. QED
      BY <3>1, <3>2
  <2>10. QED
    BY <2>3, <2>4, <2>8, <2>9
<1>2. QED
  BY <1>1, ArrivedInvariance, PTL

\* Of any octets at all, both decoders make the same request, if the version is one of the
\* two there are.
THEOREM DecodersAlwaysAgree == Spec => []DecodersAgree
<1>1. ArrivedInv => DecodersAgree
  BY DEF DecodersAgree, DecodeRequest, ReadRequest
<1>2. QED
  BY <1>1, ArrivedInvariance, PTL

-----------------------------------------------------------------------------
(* The programs that are executed.                                            *)

\* Two environments with the same socket.
Socket == "ENVPROXY_SOCKET"
SameSocket(d, e) ==
  /\ Socket \in DOMAIN d <=> Socket \in DOMAIN e
  /\ Socket \in DOMAIN e => d[Socket] = e[Socket]

LEMMA OtherSet ==
  ASSUME NEW e, NEW name, name # Socket, NEW new
  PROVE  SameSocket(Setenv(e, name, new), e)
BY DEF Setenv, SameSocket

\* The library's constructor leaves the socket alone.
LEMMA StartedKeeps ==
  ASSUME NEW e, NEW says
  PROVE  SameSocket(Started(e, says), e)
<1>1. \A d, l, s : SameSocket(SetupPythonHook(d, l, s), d)
  <2> TAKE d, l, s
  <2>1. "PYTHONPATH" # Socket
    BY DEF Socket
  <2>2. PICK new : new = <<FindSupportDir(d, l, "python")>> \o Existing(d, "PYTHONPATH", s)
    OBVIOUS
  <2>3. SetupPythonHook(d, l, s) \in {d, Setenv(d, "PYTHONPATH", new)}
    BY <2>2 DEF SetupPythonHook
  <2>4. QED
    BY <2>1, <2>3, OtherSet DEF SameSocket
<1>2. \A d, l, s : SameSocket(SetupJavaHook(d, l, s), d)
  <2> TAKE d, l, s
  <2>1. "JAVA_TOOL_OPTIONS" # Socket
    BY DEF Socket
  <2>2. PICK new : new = Append(Existing(d, "JAVA_TOOL_OPTIONS", s), FindSupportFile(d, l, "java"))
    OBVIOUS
  <2>3. SetupJavaHook(d, l, s) \in {d, Setenv(d, "JAVA_TOOL_OPTIONS", new)}
    BY <2>2 DEF SetupJavaHook
  <2>4. QED
    BY <2>1, <2>3, OtherSet DEF SameSocket
<1>3. PICK lib : lib = Preloaded(e)
  OBVIOUS
<1>4. PICK python : python = SetupPythonHook(e, lib, says["python"])
  OBVIOUS
<1>5. Started(e, says) \in {e, SetupJavaHook(python, lib, says["java"])}
  BY <1>3, <1>4 DEF Started
<1>6. SameSocket(python, e) /\ SameSocket(SetupJavaHook(python, lib, says["java"]), python)
  BY <1>1, <1>2, <1>4
<1>7. QED
  BY <1>5, <1>6 DEF SameSocket

\* `run` leaves the socket alone if one is set, and else sets the one it waits for.
LEMMA CmdRunSets ==
  ASSUME NEW e, NEW bin, NEW socket
  PROVE  /\ Socket \in DOMAIN CmdRun(e, bin, socket)
         /\ CmdRun(e, bin, socket)[Socket] = RunSocket(e, socket)
<1>1. PICK d : d = Setenv(e, "LD_PRELOAD", FindLibenvproxy(e, bin))
  OBVIOUS
<1>2. SameSocket(d, e)
  <2>1. "LD_PRELOAD" # Socket
    BY DEF Socket
  <2>2. QED
    BY <1>1, <2>1, OtherSet
<1>3. CASE Socket \in DOMAIN e
  BY <1>1, <1>2, <1>3 DEF CmdRun, RunSocket, SameSocket, Socket
<1>4. CASE Socket \notin DOMAIN e
  <2>1. CmdRun(e, bin, socket) = Setenv(d, Socket, socket) /\ RunSocket(e, socket) = socket
    BY <1>1, <1>4 DEF CmdRun, RunSocket, Socket
  <2>2. QED
    BY <2>1 DEF Setenv
<1>5. QED
  BY <1>3, <1>4

LEMMA WaitedStep == WaitedInv /\ [Next]_vars => WaitedInv'
<1> SUFFICES ASSUME WaitedInv, [Next]_vars PROVE WaitedInv'
  OBVIOUS
<1>1. WaitedInv <=> (waited # Unset => Socket \in DOMAIN env /\ env[Socket] = waited)
  BY DEF WaitedInv, Socket
<1>2. WaitedInv' <=> (waited' # Unset => Socket \in DOMAIN env' /\ env'[Socket] = waited')
  BY DEF WaitedInv, Socket
<1>3. CASE UNCHANGED programs
  BY <1>3 DEF WaitedInv, programs
<1>4. ASSUME NEW says, Exec(says) PROVE WaitedInv'
  <2>1. env' = Started(env, says) /\ waited' = waited
    BY <1>4 DEF Exec, StartWith
  <2>2. QED
    BY <1>1, <1>2, <2>1, StartedKeeps DEF SameSocket
<1>5. ASSUME NEW says, NEW socket, Run(socket, says) PROVE WaitedInv'
  <2>1. PICK e : e = CmdRun(env, Bin, socket)
    OBVIOUS
  <2>2. env' = Started(e, says) /\ waited' = RunSocket(env, socket)
    BY <1>5, <2>1 DEF Run, StartWith
  <2>3. Socket \in DOMAIN e /\ e[Socket] = RunSocket(env, socket)
    BY <2>1, CmdRunSets
  <2>4. QED
    BY <1>2, <2>2, <2>3, StartedKeeps DEF SameSocket
<1>6. ASSUME NEW name, NEW new, Export(name, new) PROVE WaitedInv'
  <2>1. PICK val : env' = Setenv(env, name, val)
    BY <1>6 DEF Export
  <2>2. waited' = IF name = Socket THEN Unset ELSE waited
    BY <1>6 DEF Export, Socket
  <2>3. CASE name = Socket
    BY <1>2, <2>2, <2>3
  <2>4. CASE name # Socket
    BY <1>1, <1>2, <2>1, <2>2, <2>4, OtherSet DEF SameSocket
  <2>5. QED
    BY <2>3, <2>4
<1>7. CASE ProgramsNext
  <2>1. CASE \E says \in [Languages -> Replies] :
                Exec(says) \/ \E socket \in Arguments : Run(socket, says)
    BY <1>4, <1>5, <2>1
  <2>2. CASE \E export \in Exports : Export(export[1], export[2])
    BY <1>6, <2>2
  <2>3. QED
    BY <1>7, <2>1, <2>2 DEF ProgramsNext
<1>8. QED
  BY <1>3, <1>7 DEF Next, TypeReference, TypeDuration, Type, Send, Arrive, Execute, vars

\* As long as no other socket is exported, every program inherits the one that `run` has
\* waited for.
THEOREM WaitedInvariance == Spec => []WaitedInv
<1>1. Init => WaitedInv
  BY DEF Init, ProgramsInit, WaitedInv
<1>2. QED
  BY <1>1, WaitedStep, PTL DEF Spec

\* A program that was run asks where `run` has waited, whatever it executes in turn.
THEOREM AsksWhereWaited == Spec => []AskedWhereWaited
<1>1. ASSUME WaitedInv PROVE AskedWhereWaited
  <2> SUFFICES ASSUME waited # Unset
               PROVE  Asks(env) \subseteq
                        {waited, IF waited = "" THEN DefaultSocket ELSE waited}
    BY DEF AskedWhereWaited
  <2>1. GetSocketPath(env) = waited
    BY <1>1 DEF WaitedInv, GetSocketPath
  <2>2. JavaSocketPath(env) = IF waited = "" THEN DefaultSocket ELSE waited
    BY <2>1 DEF JavaSocketPath
  <2>3. QED
    BY <2>1, <2>2 DEF Asks
<1>2. QED
  BY <1>1, WaitedInvariance, PTL

-----------------------------------------------------------------------------
(* References.  Find is the first match there is.                             *)

HIDE WireProtocolAssumption

Texts == Seq(Tokens)

\* f is where c stands first in text, 0 if nowhere.
FirstOf(text, c, f) ==
  /\ f \in 0..Len(text)
  /\ f = 0 => \A i \in 1..Len(text) : text[i] # c
  /\ f # 0 => text[f] = c /\ \A i \in 1..Len(text) : i < f => text[i] # c

\* The same of the segment "/data/".
DataAt(text, i) ==
  i \in 1..Len(text) /\ i + 2 <= Len(text)
    /\ text[i] = "/" /\ text[i + 1] = "data" /\ text[i + 2] = "/"

FirstData(text, f) ==
  /\ f \in 0..Len(text)
  /\ f = 0 => \A i \in 1..Len(text) : ~ DataAt(text, i)
  /\ f # 0 => DataAt(text, f) /\ \A i \in 1..Len(text) : i < f => ~ DataAt(text, i)

LEMMA MinIs ==
  ASSUME NEW S \in SUBSET Nat, S # {}
  PROVE  Min(S) \in S /\ \A k \in S : Min(S) <= k
<1>1. PICK m \in S : \A k \in S : m <= k
  <2> DEFINE less == OpToRel(<, Nat)
  <2>1. IsWellFoundedOn(less, Nat)
    BY NatLessThanWellFounded
  <2>2. \A x, y \in Nat : x < y => <<x, y>> \in less
    BY DEF OpToRel
  <2> HIDE DEF less
  <2>3. PICK m \in S : \A k \in S : <<k, m>> \notin less
    BY <2>1, WFMin
  <2>4. ASSUME NEW k \in S PROVE m <= k
    <3>1. m \in Nat /\ k \in Nat
      OBVIOUS
    <3>2. ~ (k < m)
      BY <2>2, <2>3, <3>1
    <3>3. QED
      BY <3>1, <3>2
  <2>5. QED
    BY <2>4
<1>2. QED
  BY <1>1 DEF Min

\* The shape of Find.
Matches(text, pattern) ==
  {i \in 1..(Len(text) - Len(pattern) + 1) :
     SubSeq(text, i, i + Len(pattern) - 1) = pattern}

LEMMA FindIs ==
  ASSUME NEW text, NEW pattern
  PROVE  /\ Matches(text, pattern) = {} => Find(text, pattern) = 0
         /\ Matches(text, pattern) # {} =>
              /\ Find(text, pattern) \in Matches(text, pattern)
              /\ \A k \in Matches(text, pattern) : Find(text, pattern) <= k
<1>1. Find(text, pattern) = IF Matches(text, pattern) = {} THEN 0 ELSE Min(Matches(text, pattern))
  BY DEF Find, Matches
<1>2. Matches(text, pattern) \subseteq Nat
  BY DEF Matches
<1>3. QED
  BY <1>1, <1>2, MinIs

\* What a match of one token, or of "/data/", is.
LEMMA OneMatches ==
  ASSUME NEW text \in Texts, NEW c
  PROVE  \A i : i \in Matches(text, <<c>>) <=> i \in 1..Len(text) /\ text[i] = c
<1>1. Len(text) \in Nat /\ Len(<<c>>) = 1
  BY LenProperties DEF Texts
<1>2. ASSUME NEW i \in 1..Len(text) PROVE SubSeq(text, i, i) = <<c>> <=> text[i] = c
  <2>1. /\ Len(SubSeq(text, i, i)) = 1 /\ SubSeq(text, i, i)[1] = text[i]
        /\ SubSeq(text, i, i) \in Seq(Tokens)
    <3>1. i \in Int /\ \A k \in i..i : text[k] \in Tokens
      BY ElementOfSeq DEF Texts
    <3>2. i <= i /\ i - i + 1 = 1 /\ i + 1 - 1 = i
      BY <3>1
    <3>3. QED
      BY <3>1, <3>2, SubSeqProperties
  <2>2. PICK s \in Seq(Tokens) : s = SubSeq(text, i, i)
    BY <2>1
  <2>3. Len(s) = 1 /\ s[1] = text[i]
    BY <2>1, <2>2
  <2>4. s = <<c>> <=> s[1] = c
    BY <2>3
  <2>5. QED
    BY <2>2, <2>3, <2>4
<1>3. \A i \in 1..Len(text) : i + Len(<<c>>) - 1 = i
  BY <1>1
<1>4. 1..(Len(text) - Len(<<c>>) + 1) = 1..Len(text)
  BY <1>1
<1>5. QED
  BY <1>2, <1>3, <1>4 DEF Matches

LEMMA FindOneIs ==
  ASSUME NEW text \in Texts, NEW c
  PROVE  FirstOf(text, c, Find(text, <<c>>))
<1>1. PICK f : f = Find(text, <<c>>)
  OBVIOUS
<1>2. PICK M : M = Matches(text, <<c>>)
  OBVIOUS
<1>3. \A i : i \in M <=> i \in 1..Len(text) /\ text[i] = c
  BY <1>2, OneMatches
<1>4. M = {} => f = 0
  BY <1>1, <1>2, FindIs
<1>5. M # {} => f \in M /\ \A k \in M : f <= k
  BY <1>1, <1>2, FindIs
<1>6. Len(text) \in Nat
  BY LenProperties DEF Texts
<1>7. ASSUME M = {} PROVE FirstOf(text, c, f)
  BY <1>3, <1>4, <1>6, <1>7 DEF FirstOf
<1>8. ASSUME M # {} PROVE FirstOf(text, c, f)
  BY <1>3, <1>5, <1>6, <1>8 DEF FirstOf
<1>9. FirstOf(text, c, f)
  BY <1>7, <1>8
<1>10. QED
  BY <1>1, <1>9

LEMMA DataMatches ==
  ASSUME NEW text \in Texts
  PROVE  \A i : i \in Matches(text, DataSegment) <=> DataAt(text, i)
<1>1. Len(text) \in Nat
  BY LenProperties DEF Texts
<1>2. PICK p : p = DataSegment
  OBVIOUS
<1>3. Len(p) = 3
  BY <1>2 DEF DataSegment
<1>4. ASSUME NEW i \in 1..Len(text), i + 2 <= Len(text)
      PROVE  SubSeq(text, i, i + 2) = p <=> DataAt(text, i)
  <2>1. PICK s : s = SubSeq(text, i, i + 2)
    OBVIOUS
  <2>2. /\ s \in Seq(Tokens) /\ Len(s) = 3
        /\ s[1] = text[i] /\ s[2] = text[i + 1] /\ s[3] = text[i + 2]
    <3>1. PICK j \in Int : j = i + 2
      OBVIOUS
    <3>2. i \in Int /\ i <= j /\ j - i + 1 = 3
      BY <3>1
    <3>3. \A k \in i..j : text[k] \in Tokens
      BY <1>1, <1>4, <3>1, ElementOfSeq DEF Texts
    <3>4. s \in Seq(Tokens) /\ Len(s) = 3 /\ \A k \in 1..3 : s[k] = text[i + k - 1]
      BY <2>1, <3>1, <3>2, <3>3, SubSeqProperties
    <3>5. 1 \in 1..3 /\ 2 \in 1..3 /\ 3 \in 1..3 /\ i + 1 - 1 = i
          /\ i + 2 - 1 = i + 1 /\ i + 3 - 1 = i + 2
      OBVIOUS
    <3>6. QED
      BY <3>4, <3>5
  <2>3. s = p <=> s[1] = "/" /\ s[2] = "data" /\ s[3] = "/"
    BY <1>2, <2>2 DEF DataSegment
  <2>4. QED
    BY <1>4, <2>1, <2>2, <2>3 DEF DataAt
<1>5. ASSUME NEW i PROVE i \in 1..(Len(text) - 3 + 1) <=> i \in 1..Len(text) /\ i + 2 <= Len(text)
  BY <1>1
<1>6. ASSUME NEW i \in 1..Len(text) PROVE i + 3 - 1 = i + 2
  OBVIOUS
<1>7. ASSUME NEW i
      PROVE  i \in Matches(text, p) <=>
               i \in 1..(Len(text) - 3 + 1) /\ SubSeq(text, i, i + 3 - 1) = p
  BY ONLY <1>3 DEF Matches
<1>8. ASSUME NEW i PROVE i \in Matches(text, p) <=> DataAt(text, i)
  <2>1. CASE i \in 1..Len(text) /\ i + 2 <= Len(text)
    BY <1>4, <1>5, <1>6, <1>7, <2>1
  <2>2. CASE ~ (i \in 1..Len(text) /\ i + 2 <= Len(text))
    <3>1. i \notin Matches(text, p)
      BY <1>5, <1>7, <2>2
    <3>2. ~ DataAt(text, i)
      BY <2>2 DEF DataAt
    <3>3. QED
      BY <3>1, <3>2
  <2>3. QED
    BY <2>1, <2>2
<1>9. QED
  BY <1>2, <1>8

LEMMA FindDataIs ==
  ASSUME NEW text \in Texts
  PROVE  FirstData(text, Find(text, DataSegment))
<1>1. PICK f : f = Find(text, DataSegment)
  OBVIOUS
<1>2. PICK M : M = Matches(text, DataSegment)
  OBVIOUS
<1>3. \A i : i \in M <=> DataAt(text, i)
  BY <1>2, DataMatches
<1>4. M = {} => f = 0
  BY <1>1, <1>2, FindIs
<1>5. M # {} => f \in M /\ \A k \in M : f <= k
  BY <1>1, <1>2, FindIs
<1>6. Len(text) \in Nat /\ \A i : DataAt(text, i) => i \in 1..Len(text)
  BY LenProperties DEF Texts, DataAt
<1>7. ASSUME M = {} PROVE FirstData(text, f)
  BY <1>3, <1>4, <1>6, <1>7 DEF FirstData
<1>8. ASSUME M # {} PROVE FirstData(text, f)
  <2>1. f \in M /\ \A k \in M : f <= k
    BY <1>5, <1>8
  <2>2. DataAt(text, f) /\ f \in 1..Len(text)
    BY <1>3, <1>6, <2>1
  <2>3. \A i \in 1..Len(text) : i < f => ~ DataAt(text, i)
    BY <1>3, <1>6, <2>1, <2>2
  <2>4. QED
    BY <1>6, <2>2, <2>3 DEF FirstData
<1>9. FirstData(text, f)
  BY <1>7, <1>8
<1>10. QED
  BY <1>1, <1>9

LEMMA FirstIsUnique ==
  ASSUME NEW text \in Texts, NEW f, NEW g
  PROVE  /\ \A c : FirstOf(text, c, f) /\ FirstOf(text, c, g) => f = g
         /\ FirstData(text, f) /\ FirstData(text, g) => f = g
<1>1. Len(text) \in Nat
  BY LenProperties DEF Texts
<1>2. QED
  BY <1>1 DEF FirstOf, FirstData

-----------------------------------------------------------------------------
(* Texts are cut where they were joined, and joined where they were cut.      *)

Mid(b, p, a) == b \o p \o a

LEMMA BeforeIs ==
  ASSUME NEW text \in Texts, NEW i \in 1..Len(text)
  PROVE  /\ Before(text, i) \in Texts /\ Len(Before(text, i)) = i - 1
         /\ \A k \in 1..i - 1 : Before(text, i)[k] = text[k]
<1>1. Len(text) \in Nat
  BY LenProperties DEF Texts
<1>2. PICK j \in Int : j = i - 1
  OBVIOUS
<1>3. /\ \A k \in 1..j : k \in 1..Len(text) /\ 1 + k - 1 = k
      /\ 1 \in Int /\ j - 1 + 1 = j /\ (1 <= j \/ j = 0)
  BY <1>1, <1>2
<1>4. \A k \in 1..j : text[k] \in Tokens
  BY <1>3, ElementOfSeq DEF Texts
<1>5. PICK s : s = SubSeq(text, 1, j)
  OBVIOUS
<1>6. s \in Seq(Tokens) /\ Len(s) = IF 1 <= j THEN j - 1 + 1 ELSE 0
  BY <1>3, <1>4, <1>5, SubSeqProperties
<1>7. \A k \in 1..j - 1 + 1 : s[k] = text[1 + k - 1]
  BY <1>3, <1>4, <1>5, SubSeqProperties
<1>8. Len(s) = j /\ \A k \in 1..j : s[k] = text[k]
  BY <1>3, <1>6, <1>7
<1>9. Before(text, i) = s
  BY <1>2, <1>5 DEF Before
<1>10. QED
  BY <1>2, <1>6, <1>8, <1>9 DEF Texts

LEMMA AfterIs ==
  ASSUME NEW text \in Texts, NEW i \in 0..Len(text)
  PROVE  /\ After(text, i) \in Texts /\ Len(After(text, i)) = Len(text) - i
         /\ \A k \in 1..Len(text) - i : After(text, i)[k] = text[i + k]
<1>1. Len(text) \in Nat
  BY LenProperties DEF Texts
<1>2. PICK j \in Int : j = i + 1
  OBVIOUS
<1>3. PICK n \in Int : n = Len(text)
  BY <1>1
<1>4. /\ \A k \in j..n : k \in 1..Len(text)
      /\ \A k \in 1..n - i : j + k - 1 = i + k
      /\ n - j + 1 = n - i /\ (j <= n \/ n - i = 0)
  BY <1>1, <1>2, <1>3
<1>5. \A k \in j..n : text[k] \in Tokens
  BY <1>4, ElementOfSeq DEF Texts
<1>6. PICK s : s = SubSeq(text, j, n)
  OBVIOUS
<1>7. s \in Seq(Tokens) /\ Len(s) = IF j <= n THEN n - j + 1 ELSE 0
  BY <1>5, <1>6, SubSeqProperties
<1>8. \A k \in 1..n - j + 1 : s[k] = text[j + k - 1]
  BY <1>5, <1>6, SubSeqProperties
<1>9. Len(s) = n - i /\ \A k \in 1..n - i : s[k] = text[i + k]
  BY <1>4, <1>7, <1>8
<1>10. After(text, i) = s
  BY <1>2, <1>3, <1>6 DEF After
<1>11. QED
  BY <1>3, <1>7, <1>9, <1>10 DEF Texts

Consists(t, b, p, a) ==
  /\ t \in Texts /\ Len(t) = Len(b) + Len(p) + Len(a)
  /\ \A i \in 1..Len(b) : t[i] = b[i]
  /\ \A i \in 1..Len(p) : t[Len(b) + i] = p[i]
  /\ \A i \in 1..Len(a) : t[Len(b) + Len(p) + i] = a[i]

LEMMA MidIs ==
  ASSUME NEW b \in Texts, NEW p \in Texts, NEW a \in Texts, NEW t, t = Mid(b, p, a)
  PROVE  Consists(t, b, p, a)
<1>1. Len(b) \in Nat /\ Len(p) \in Nat /\ Len(a) \in Nat
  BY LenProperties DEF Texts
<1>2. PICK u : u = b \o p
  OBVIOUS
<1>3. t = u \o a
  BY <1>2 DEF Mid
<1>4. /\ u \in Seq(Tokens) /\ Len(u) = Len(b) + Len(p)
      /\ \A i \in 1..Len(b) : u[i] = b[i]
      /\ \A i \in 1..Len(p) : u[Len(b) + i] = p[i]
  BY <1>2, Joined DEF Texts
<1>5. /\ t \in Seq(Tokens) /\ Len(t) = Len(u) + Len(a)
      /\ \A i \in 1..Len(u) : t[i] = u[i]
      /\ \A i \in 1..Len(a) : t[Len(u) + i] = a[i]
  <2>1. u \in Seq(Tokens) /\ a \in Seq(Tokens)
    BY <1>4 DEF Texts
  <2>2. QED
    BY ONLY <1>3, <2>1, Joined
<1>6. /\ \A i \in 1..Len(b) : i \in 1..Len(u)
      /\ \A i \in 1..Len(p) : Len(b) + i \in 1..Len(u)
  BY <1>1, <1>4
<1>7. QED
  BY <1>1, <1>4, <1>5, <1>6 DEF Consists, Texts

LEMMA SameText ==
  ASSUME NEW s \in Texts, NEW t \in Texts, Len(s) = Len(t), \A i \in 1..Len(s) : s[i] = t[i]
  PROVE  s = t
BY SeqEqual DEF Texts

Cuts(t, i, j, b, a) == Before(t, i) = b /\ After(t, j) = a

LEMMA CutMid ==
  ASSUME NEW b \in Texts, NEW p \in Texts, NEW a \in Texts, NEW t, t = Mid(b, p, a),
         NEW i, i = Len(b) + 1, NEW j, j = Len(b) + Len(p), p # <<>>
  PROVE  Cuts(t, i, j, b, a)
<1>1. Len(b) \in Nat /\ Len(p) \in Nat /\ Len(a) \in Nat /\ Len(p) # 0
  BY LenProperties, EmptySeq DEF Texts
<1>0. Consists(t, b, p, a)
  BY MidIs
<1>2. t \in Texts /\ Len(t) = Len(b) + Len(p) + Len(a)
  BY <1>0 DEF Consists
<1>3. i \in 1..Len(t) /\ j \in 0..Len(t)
  BY <1>1, <1>2
<1>4. /\ \A k \in 1..Len(b) : t[k] = b[k]
      /\ \A k \in 1..Len(a) : t[Len(b) + Len(p) + k] = a[k]
  BY <1>0 DEF Consists
<1>5. \A k \in 1..Len(a) : t[j + k] = a[k]
  BY <1>4
<1>6. PICK u : u = Before(t, i)
  OBVIOUS
<1>7. u \in Texts /\ Len(u) = i - 1 /\ \A k \in 1..i - 1 : u[k] = t[k]
  BY <1>2, <1>3, <1>6, BeforeIs
<1>8. Len(u) = Len(b) /\ \A k \in 1..Len(u) : u[k] = b[k]
  BY <1>1, <1>4, <1>7
<1>9. u = b
  BY <1>7, <1>8, SameText
<1>10. PICK v : v = After(t, j)
  OBVIOUS
<1>11. v \in Texts /\ Len(v) = Len(t) - j /\ \A k \in 1..Len(t) - j : v[k] = t[j + k]
  BY <1>2, <1>3, <1>10, AfterIs
<1>12. Len(v) = Len(a) /\ \A k \in 1..Len(v) : v[k] = a[k]
  BY <1>1, <1>2, <1>5, <1>11
<1>13. v = a
  BY <1>11, <1>12, SameText
<1>14. QED
  BY <1>6, <1>9, <1>10, <1>13 DEF Cuts

LEMMA Rejoin ==
  ASSUME NEW t \in Texts, NEW p \in Texts, NEW i \in 1..Len(t), NEW j \in 0..Len(t),
         j = i + Len(p) - 1, \A k \in 1..Len(p) : t[i + k - 1] = p[k]
  PROVE  t = Mid(Before(t, i), p, After(t, j))
<1>1. Len(p) \in Nat /\ Len(t) \in Nat
  BY LenProperties DEF Texts
<1>2. PICK b : b = Before(t, i)
  OBVIOUS
<1>3. PICK a : a = After(t, j)
  OBVIOUS
<1>4. b \in Texts /\ Len(b) = i - 1 /\ \A k \in 1..i - 1 : b[k] = t[k]
  BY <1>2, BeforeIs
<1>5. a \in Texts /\ Len(a) = Len(t) - j /\ \A k \in 1..Len(t) - j : a[k] = t[j + k]
  BY <1>3, AfterIs
<1>6. PICK u : u = Mid(b, p, a)
  OBVIOUS
<1>7. /\ u \in Texts /\ Len(u) = Len(b) + Len(p) + Len(a)
      /\ \A k \in 1..Len(b) : u[k] = b[k]
      /\ \A k \in 1..Len(p) : u[Len(b) + k] = p[k]
      /\ \A k \in 1..Len(a) : u[Len(b) + Len(p) + k] = a[k]
  <2>1. Consists(u, b, p, a)
    BY <1>4, <1>5, <1>6, MidIs
  <2>2. QED
    BY <2>1 DEF Consists
<1>8. Len(t) = Len(u)
  BY <1>1, <1>4, <1>5, <1>7
<1>9. ASSUME NEW k \in 1..Len(t) PROVE t[k] = u[k]
  <2>1. CASE k < i
    <3>1. k \in 1..i - 1
      BY <2>1
    <3>2. QED
      BY <1>4, <1>7, <3>1
  <2>2. CASE i <= k /\ k <= j
    <3>1. PICK l \in 1..Len(p) : l = k - i + 1
      BY <1>1, <2>2
    <3>2. i + l - 1 = k /\ Len(b) + l = k
      BY <1>4, <3>1
    <3>3. t[i + l - 1] = p[l]
      OBVIOUS
    <3>4. u[Len(b) + l] = p[l]
      BY <1>7
    <3>5. QED
      BY <3>2, <3>3, <3>4
  <2>3. CASE j < k
    <3>1. k - j \in 1..(Len(t) - j)
      BY <1>1, <2>3
    <3>0. PICK l \in 1..(Len(t) - j) : l = k - j
      BY <3>1
    <3>2. l \in 1..Len(a) /\ j + l = k /\ Len(b) + Len(p) + l = k
      BY <1>1, <1>4, <1>5, <3>0
    <3>3. l \in 1..Len(a)
      BY <3>2
    <3>4. a[l] = t[j + l]
      BY <1>5
    <3>5. u[Len(b) + Len(p) + l] = a[l]
      BY <1>7, <3>3
    <3>6. QED
      BY <3>2, <3>4, <3>5
  <2>4. QED
    BY <1>1, <2>1, <2>2, <2>3
<1>10. t = u
  BY <1>7, <1>8, <1>9, SameText
<1>11. QED
  BY <1>2, <1>3, <1>6, <1>10

-----------------------------------------------------------------------------
(* What stands before the first '#', what stands after it, and mount and      *)
(* path.                                                                      *)

LEMMA TokensAre ==
  /\ {"vault:", "/", "#", "data"} \subseteq Tokens
  /\ \A c \in Tokens : <<c>> \in Texts /\ Len(<<c>>) = 1 /\ <<c>>[1] = c /\ <<c>> # <<>>
  /\ DataSegment \in Texts /\ Len(DataSegment) = 3 /\ DataSegment # <<>>
  /\ DataSegment[1] = "/" /\ DataSegment[2] = "data" /\ DataSegment[3] = "/"
<1>1. {"vault:", "/", "#", "data"} \subseteq Tokens
  BY VaultRefAssumption DEF Tokens
<1>2. ASSUME NEW c \in Tokens
      PROVE  <<c>> \in Texts /\ Len(<<c>>) = 1 /\ <<c>>[1] = c /\ <<c>> # <<>>
  BY DEF Texts
<1>3. QED
  BY <1>1, <1>2 DEF DataSegment, Texts

Free(text, c) == \A i \in 1..Len(text) : text[i] # c

LEMMA HashSplit ==
  ASSUME NEW t \in Texts, NEW h, h = Find(t, <<"#">>)
  PROVE  /\ h \in 0..Len(t)
         /\ h = 0 => Free(t, "#")
         /\ h # 0 => /\ Before(t, h) \in Texts /\ Free(Before(t, h), "#")
                     /\ After(t, h) \in Texts
                     /\ t = Mid(Before(t, h), <<"#">>, After(t, h))
<1>1. FirstOf(t, "#", h) /\ Len(t) \in Nat
  BY FindOneIs, LenProperties DEF Texts
<1>2. h \in 0..Len(t) /\ (h = 0 => Free(t, "#"))
  BY <1>1 DEF FirstOf, Free
<1>3. ASSUME h # 0
      PROVE  /\ Before(t, h) \in Texts /\ Free(Before(t, h), "#")
             /\ After(t, h) \in Texts
             /\ t = Mid(Before(t, h), <<"#">>, After(t, h))
  <2>1. /\ h \in 1..Len(t) /\ h \in 0..Len(t) /\ t[h] = "#"
        /\ \A i \in 1..Len(t) : i < h => t[i] # "#"
    BY <1>1, <1>3 DEF FirstOf
  <2>2. PICK b : b = Before(t, h)
    OBVIOUS
  <2>3. b \in Texts /\ Len(b) = h - 1 /\ \A k \in 1..h - 1 : b[k] = t[k]
    BY <2>1, <2>2, BeforeIs
  <2>4. Free(b, "#")
    <3>1. ASSUME NEW i \in 1..Len(b) PROVE b[i] # "#"
      <4>1. i \in 1..h - 1 /\ i \in 1..Len(t) /\ i < h
        BY <2>1, <2>3
      <4>2. QED
        BY <2>1, <2>3, <4>1
    <3>2. QED
      BY <3>1 DEF Free
  <2>5. PICK p \in Texts : p = <<"#">>
    BY TokensAre
  <2>6. Len(p) = 1 /\ p[1] = "#"
    BY <2>5
  <2>7. h = h + Len(p) - 1 /\ \A k \in 1..Len(p) : t[h + k - 1] = p[k]
    <3>1. \A k \in 1..Len(p) : k = 1 /\ h + k - 1 = h
      BY <2>1, <2>6
    <3>2. QED
      BY <2>1, <2>6, <3>1
  <2>8. t = Mid(Before(t, h), p, After(t, h))
    BY <2>1, <2>7, Rejoin
  <2>9. After(t, h) \in Texts
    BY <2>1, AfterIs
  <2>10. QED
    BY <2>2, <2>3, <2>4, <2>5, <2>8, <2>9
<1>4. QED
  BY <1>2, <1>3

LEMMA HashCut ==
  ASSUME NEW b \in Texts, Free(b, "#"), NEW a \in Texts, NEW t, t = Mid(b, <<"#">>, a),
         NEW h, h = Find(t, <<"#">>)
  PROVE  /\ t \in Texts /\ h = Len(b) + 1 /\ h > 0
         /\ Before(t, h) = b /\ After(t, h) = a
<1>1. PICK p \in Texts : p = <<"#">>
  BY TokensAre
<1>2. Len(p) = 1 /\ p[1] = "#" /\ p # <<>>
  BY <1>1
<1>3. Consists(t, b, p, a) /\ Len(b) \in Nat /\ Len(a) \in Nat
  BY <1>1, MidIs, LenProperties DEF Texts
<1>4. PICK i \in Nat : i = Len(b) + 1
  BY <1>3
<1>5. FirstOf(t, "#", i)
  <2>1. t[i] = "#" /\ i \in 1..Len(t) /\ i # 0 /\ i \in 0..Len(t)
    BY <1>2, <1>3, <1>4 DEF Consists
  <2>2. ASSUME NEW k \in 1..Len(t), k < i PROVE t[k] # "#"
    <3>1. k \in 1..Len(b)
      BY <1>3, <1>4, <2>2
    <3>2. QED
      BY <1>3, <3>1 DEF Consists, Free
  <2>3. QED
    BY <2>1, <2>2 DEF FirstOf
<1>6. t \in Texts
  BY <1>3 DEF Consists
<1>7. FirstOf(t, "#", h)
  BY <1>6, FindOneIs
<1>8. h = i
  BY <1>5, <1>6, <1>7, FirstIsUnique
<1>9. i = Len(b) + Len(p)
  BY <1>2, <1>4
<1>10. t = Mid(b, p, a)
  BY <1>1
<1>11. Cuts(t, i, i, b, a)
  BY <1>2, <1>4, <1>9, <1>10, CutMid
<1>12. QED
  BY <1>3, <1>4, <1>6, <1>8, <1>11 DEF Cuts

\* A mount and a path that are read back from what is made of them.
IsPlace(m, p) ==
  /\ m \in Texts /\ p \in Texts /\ m # <<>> /\ p # <<>>
  /\ Free(m, "#") /\ Free(p, "#")
  /\ FirstData(Mid(m, DataSegment, p), Len(m) + 1)

LEMMA PlaceIs ==
  ASSUME NEW m, NEW p, IsPlace(m, p), NEW full, full = Mid(m, DataSegment, p)
  PROVE  /\ full \in Texts /\ Free(full, "#") /\ Find(full, <<"/">>) > 0
         /\ MountAndPath(full) = [mount |-> m, path |-> p]
<1>1. m \in Texts /\ p \in Texts /\ Free(m, "#") /\ Free(p, "#")
  BY DEF IsPlace
<1>2. PICK d \in Texts : d = DataSegment
  BY TokensAre
<1>3. /\ Len(d) = 3 /\ d # <<>>
      /\ d[1] = "/" /\ d[2] = "data" /\ d[3] = "/"
  BY <1>2, TokensAre
<1>4. Consists(full, m, d, p) /\ Len(m) \in Nat /\ Len(p) \in Nat
  BY <1>1, <1>2, MidIs, LenProperties DEF Texts
<1>5. full \in Texts
  BY <1>4 DEF Consists
<1>6. PICK i \in Nat : i = Len(m) + 1
  BY <1>4
<1>7. FirstData(full, i)
  BY <1>6 DEF IsPlace
<1>8. Find(full, DataSegment) = i
  BY <1>5, <1>7, FindDataIs, FirstIsUnique
<1>9. Before(full, i) = m /\ After(full, i + 2) = p
  <2>1. PICK j : j = Len(m) + Len(d)
    OBVIOUS
  <2>2. j = i + 2
    BY <1>3, <1>4, <1>6, <2>1
  <2>3. full = Mid(m, d, p)
    BY <1>2
  <2>4. Cuts(full, i, j, m, p)
    BY <1>1, <1>3, <1>6, <2>1, <2>3, CutMid
  <2>5. QED
    BY <2>2, <2>4 DEF Cuts
<1>10. MountAndPath(full) = [mount |-> m, path |-> p]
  BY <1>6, <1>8, <1>9 DEF MountAndPath
<1>11. ASSUME NEW k \in 1..Len(full) PROVE full[k] # "#"
  <2>1. CASE k <= Len(m)
    <3>1. k \in 1..Len(m)
      BY <1>4, <2>1
    <3>2. QED
      BY <1>1, <1>4, <3>1 DEF Consists, Free
  <2>2. CASE k > Len(m) /\ k <= Len(m) + 3
    <3>1. k = Len(m) + 1 \/ k = Len(m) + 2 \/ k = Len(m) + 3
      BY <1>4, <2>2
    <3>2. full[Len(m) + 1] = "/" /\ full[Len(m) + 2] = "data" /\ full[Len(m) + 3] = "/"
      BY <1>3, <1>4 DEF Consists
    <3>3. "data" # "#" /\ "/" # "#"
      OBVIOUS
    <3>4. QED
      BY <3>1, <3>2, <3>3
  <2>3. CASE k > Len(m) + 3
    <3>1. Len(full) = Len(m) + 3 + Len(p)
      BY <1>3, <1>4 DEF Consists
    <3>2. k - (Len(m) + 3) \in 1..Len(p)
      BY <1>4, <2>3, <3>1
    <3>3. PICK l \in 1..Len(p) : l = k - (Len(m) + 3)
      BY <3>2
    <3>4. k = Len(m) + Len(d) + l
      BY <1>3, <1>4, <3>3
    <3>5. full[Len(m) + Len(d) + l] = p[l]
      BY <1>4 DEF Consists
    <3>6. QED
      BY <1>1, <3>4, <3>5 DEF Free
  <2>4. QED
    BY <1>4, <2>1, <2>2, <2>3
<1>12. Find(full, <<"/">>) > 0
  <2>1. full[i] = "/" /\ i \in 1..Len(full)
    BY <1>3, <1>4, <1>6 DEF Consists
  <2>2. FirstOf(full, "/", Find(full, <<"/">>))
    BY <1>5, FindOneIs
  <2>3. QED
    BY <2>1, <2>2 DEF FirstOf
<1>13. QED
  BY <1>5, <1>10, <1>11, <1>12 DEF Free

LEMMA RejoinData ==
  ASSUME NEW full \in Texts, NEW d, FirstData(full, d), d > 0
  PROVE  full = Mid(Before(full, d), DataSegment, After(full, d + 2))
<1>1. PICK seg \in Texts : seg = DataSegment
  BY TokensAre
<1>2. /\ Len(seg) = 3
      /\ seg[1] = "/" /\ seg[2] = "data" /\ seg[3] = "/"
  BY <1>1, TokensAre
<1>3. /\ d \in 1..Len(full) /\ d \in Nat /\ Len(full) \in Nat /\ d + 2 <= Len(full)
      /\ full[d] = "/" /\ full[d + 1] = "data" /\ full[d + 2] = "/"
  BY LenProperties DEF FirstData, DataAt, Texts
<1>4. PICK j : j = d + 2
  OBVIOUS
<1>5. j \in 0..Len(full) /\ j = d + Len(seg) - 1
  BY <1>2, <1>3, <1>4
<1>6. ASSUME NEW k \in 1..Len(seg) PROVE full[d + k - 1] = seg[k]
  <2>1. k = 1 \/ k = 2 \/ k = 3
    BY <1>2
  <2>2. d + 1 - 1 = d /\ d + 2 - 1 = d + 1 /\ d + 3 - 1 = d + 2
    BY <1>3
  <2>3. QED
    BY <1>2, <1>3, <2>1, <2>2
<1>7. full = Mid(Before(full, d), seg, After(full, j))
  BY <1>3, <1>5, <1>6, Rejoin
<1>8. QED
  BY <1>1, <1>4, <1>7

LEMMA CutPath ==
  ASSUME NEW full \in Texts, Free(full, "#"), Find(full, <<"/">>) > 0,
         NEW m, m = MountAndPath(full).mount, m # <<>>,
         NEW p, p = MountAndPath(full).path, p # <<>>
  PROVE  IsPlace(m, p)
<1>1. PICK d : d = Find(full, DataSegment)
  OBVIOUS
<1>2. PICK s : s = Find(full, <<"/">>)
  OBVIOUS
<1>3. FirstData(full, d) /\ FirstOf(full, "/", s) /\ Len(full) \in Nat
  BY <1>1, <1>2, FindDataIs, FindOneIs, LenProperties DEF Texts
<1>4. PICK seg \in Texts : seg = DataSegment
  BY TokensAre
<1>5. /\ Len(seg) = 3 /\ seg # <<>>
      /\ seg[1] = "/" /\ seg[2] = "data" /\ seg[3] = "/"
  BY <1>4, TokensAre
<1>6. ASSUME NEW i \in 1..Len(full), NEW j \in 0..Len(full), m = Before(full, i), p = After(full, j)
      PROVE  /\ m \in Texts /\ p \in Texts /\ Free(m, "#") /\ Free(p, "#")
             /\ Len(m) = i - 1 /\ \A k \in 1..i - 1 : m[k] = full[k]
  <2>1. m \in Texts /\ Len(m) = i - 1 /\ \A k \in 1..i - 1 : m[k] = full[k]
    BY <1>6, BeforeIs
  <2>2. p \in Texts /\ Len(p) = Len(full) - j /\ \A k \in 1..Len(full) - j : p[k] = full[j + k]
    BY <1>6, AfterIs
  <2>3. ASSUME NEW k \in 1..Len(m) PROVE m[k] # "#"
    <3>1. k \in 1..i - 1 /\ k \in 1..Len(full)
      BY <1>3, <2>1
    <3>2. QED
      BY <2>1, <3>1 DEF Free
  <2>4. ASSUME NEW k \in 1..Len(p) PROVE p[k] # "#"
    <3>1. k \in 1..Len(full) - j /\ j + k \in 1..Len(full)
      BY <1>3, <2>2
    <3>2. QED
      BY <2>2, <3>1 DEF Free
  <2>5. QED
    BY <2>1, <2>2, <2>3, <2>4 DEF Free
<1>7. CASE d > 0
  <2>1. d \in 1..Len(full) /\ d \in Nat /\ d + 2 \in 0..Len(full) /\ DataAt(full, d)
    BY <1>3, <1>7 DEF FirstData, DataAt
  <2>2. m = Before(full, d) /\ p = After(full, d + 2)
    BY <1>1, <1>7 DEF MountAndPath
  <2>3. /\ m \in Texts /\ p \in Texts /\ Free(m, "#") /\ Free(p, "#") /\ Len(m) = d - 1
    BY <1>6, <2>1, <2>2
  <2>4. full = Mid(m, seg, p)
    BY <1>3, <1>4, <1>7, <2>2, RejoinData
  <2>5. FirstData(Mid(m, seg, p), Len(m) + 1)
    <3>1. Len(m) + 1 = d
      BY <2>1, <2>3
    <3>2. QED
      BY <1>3, <2>4, <3>1
  <2>6. QED
    BY <1>4, <2>3, <2>5 DEF IsPlace
<1>8. CASE ~ (d > 0)
  <2>1. s \in 1..Len(full) /\ s \in 0..Len(full) /\ \A i \in 1..Len(full) : i < s => full[i] # "/"
    BY <1>2, <1>3 DEF FirstOf
  <2>2. m = Before(full, s) /\ p = After(full, s)
    BY <1>1, <1>2, <1>8 DEF MountAndPath
  <2>3. /\ m \in Texts /\ p \in Texts /\ Free(m, "#") /\ Free(p, "#") /\ Len(m) = s - 1
        /\ \A k \in 1..s - 1 : m[k] = full[k]
    BY <1>6, <2>1, <2>2
  <2>4. PICK t : t = Mid(m, seg, p)
    OBVIOUS
  <2>5. Consists(t, m, seg, p) /\ Len(m) \in Nat /\ Len(p) \in Nat
    BY <2>3, <2>4, MidIs, LenProperties DEF Texts
  <2>6. DataAt(t, s)
    <3>1. /\ t[Len(m) + 1] = "/" /\ t[Len(m) + 2] = "data" /\ t[Len(m) + 3] = "/"
          /\ Len(t) = Len(m) + 3 + Len(p)
      <4>1. /\ \A k \in 1..Len(seg) : t[Len(m) + k] = seg[k]
            /\ Len(t) = Len(m) + Len(seg) + Len(p)
        BY <2>5 DEF Consists
      <4>2. 1 \in 1..Len(seg) /\ 2 \in 1..Len(seg) /\ 3 \in 1..Len(seg)
        BY <1>5
      <4>3. QED
        BY <1>5, <4>1, <4>2
    <3>2. Len(m) + 1 = s /\ Len(m) + 2 = s + 1 /\ Len(m) + 3 = s + 2
      BY <2>1, <2>3
    <3>3. t[s] = "/" /\ t[s + 1] = "data" /\ t[s + 2] = "/"
      BY <3>1, <3>2
    <3>4. s \in 1..Len(t) /\ s + 2 <= Len(t)
      <4>1. s \in Nat /\ s >= 1 /\ s = Len(m) + 1
        BY <1>3, <2>1, <2>3
      <4>2. Len(t) = s + 2 + Len(p)
        BY <2>5, <3>1, <4>1
      <4>3. PICK n \in Nat : n = Len(p)
        BY <2>5
      <4>4. PICK l : l = Len(t)
        OBVIOUS
      <4>5. l = s + 2 + n
        BY <4>2, <4>3, <4>4
      <4>6. s \in 1..l /\ s + 2 <= l
        BY ONLY <4>1, <4>5, n \in Nat
      <4>7. QED
        BY <4>4, <4>6
    <3>5. QED
      BY <3>3, <3>4 DEF DataAt
  <2>7. ASSUME NEW i \in 1..Len(t), i < s PROVE ~ DataAt(t, i)
    <3>1. i \in 1..s - 1 /\ i \in 1..Len(m) /\ i \in 1..Len(full)
      BY <2>1, <2>3, <2>7
    <3>2. t[i] = m[i] /\ m[i] = full[i]
      BY <2>3, <2>5, <3>1 DEF Consists
    <3>3. full[i] # "/"
      BY <2>1, <2>7, <3>1
    <3>4. QED
      BY <3>2, <3>3 DEF DataAt
  <2>8. FirstData(t, s)
    <3>1. s \in 0..Len(t) /\ s # 0
      BY <2>1, <2>6 DEF DataAt
    <3>2. QED
      BY <2>6, <2>7, <3>1 DEF FirstData
  <2>9. Len(m) + 1 = s
    BY <2>1, <2>3
  <2>10. QED
    BY <1>4, <2>3, <2>4, <2>8, <2>9 DEF IsPlace
<1>9. QED
  BY <1>7, <1>8

\* What ParseVaultRef makes of what stands after the first '#'.
KeyAndVersion(m, p, after) ==
  LET verPos  == Find(after, <<"#">>)
      verText == After(after, verPos)
      key     == IF verPos = 0 THEN after ELSE Before(after, verPos)
  IN  IF after # <<>> /\ key # <<>> /\ (verPos > 0 => IsNumber(verText))
        THEN [mount |-> m, path |-> p, key |-> key,
              version |-> IF verPos = 0 THEN None ELSE Numeral[verText[1]]]
        ELSE None

\* A text begins with "vault:".
Begun(text, rest) == text # <<>> /\ Head(text) = "vault:" /\ Tail(text) = rest

LEMMA ParsedAs ==
  ASSUME NEW m, NEW p, IsPlace(m, p), NEW full, full = Mid(m, DataSegment, p),
         NEW after \in Texts, NEW rest, rest = Mid(full, <<"#">>, after),
         NEW text, Begun(text, rest)
  PROVE  ParseVaultRef(text) = KeyAndVersion(m, p, after)
<1>1. /\ full \in Texts /\ Free(full, "#") /\ Find(full, <<"/">>) > 0
      /\ MountAndPath(full) = [mount |-> m, path |-> p]
  BY PlaceIs
<1>2. PICK h : h = Find(rest, <<"#">>)
  OBVIOUS
<1>3. h > 0 /\ Before(rest, h) = full /\ After(rest, h) = after
  BY <1>1, <1>2, HashCut
<1>4. m # <<>> /\ p # <<>> /\ MountAndPath(full).mount = m /\ MountAndPath(full).path = p
  BY <1>1 DEF IsPlace
<1>5. text # <<>> /\ Head(text) = "vault:" /\ Tail(text) = rest
  BY DEF Begun
<1>6. QED
  BY ONLY <1>1, <1>2, <1>3, <1>4, <1>5 DEF ParseVaultRef, KeyAndVersion

-----------------------------------------------------------------------------
(* The text under which a key is filed.                                       *)

Cat(a, b) == a \o b

LEMMA CatIs ==
  ASSUME NEW a \in Texts, NEW b \in Texts
  PROVE  /\ Cat(a, b) \in Texts
         /\ Cat(a, <<>>) = a
         /\ \A c \in Texts : Cat(Cat(a, b), c) = Cat(a, Cat(b, c))
<1>1. Cat(a, b) \in Texts
  BY ConcatProperties DEF Cat, Texts
<1>2. Cat(a, <<>>) = a
  BY ConcatEmptySeq DEF Cat, Texts
<1>3. ASSUME NEW c \in Texts PROVE Cat(Cat(a, b), c) = Cat(a, Cat(b, c))
  BY ConcatAssociative DEF Cat, Texts
<1>4. QED
  BY <1>1, <1>2, <1>3

LEMMA MidIsCat == \A b, p, a : Mid(b, p, a) = Cat(Cat(b, p), a)
BY DEF Mid, Cat

Pin(version) == IF version = None THEN <<>> ELSE <<"#", Decimal[version]>>

Versions == DOMAIN Decimal \cup {None}

LEMMA PinIs ==
  ASSUME NEW version \in Versions
  PROVE  /\ Pin(version) \in Texts
         /\ version = None => Pin(version) = <<>>
         /\ version # None =>
              /\ Pin(version) = Mid(<<>>, <<"#">>, <<Decimal[version]>>)
              /\ <<Decimal[version]>> \in Texts
              /\ IsNumber(<<Decimal[version]>>) /\ Numeral[<<Decimal[version]>>[1]] = version
<1>1. CASE version = None
  BY <1>1 DEF Pin, Texts
<1>2. CASE version # None
  <2>1. version \in DOMAIN Decimal
    BY <1>2 DEF Versions
  <2>2. PICK w : w = Decimal[version]
    OBVIOUS
  <2>3. w \in DOMAIN Numeral /\ Numeral[w] = version /\ w \in Tokens
    BY <2>1, <2>2, VaultRefAssumption DEF Tokens
  <2>4. Pin(version) = <<"#", w>>
    BY <1>2, <2>2 DEF Pin
  <2>5. <<"#", w>> \in Texts /\ <<w>> \in Texts /\ IsNumber(<<w>>) /\ <<w>>[1] = w
    BY <2>3, TokensAre DEF IsNumber, Texts
  <2>6. <<"#", w>> = Mid(<<>>, <<"#">>, <<w>>)
    BY DEF Mid
  <2>7. QED
    BY <1>2, <2>2, <2>3, <2>4, <2>5, <2>6
<1>3. QED
  BY <1>1, <1>2

LEMMA CacheKeyIs ==
  ASSUME NEW m \in Texts, NEW p \in Texts, NEW key \in Texts, NEW version \in Versions,
         NEW ref, ref = [mount |-> m, path |-> p, key |-> key, version |-> version]
  PROVE  LET rest == Mid(Mid(m, DataSegment, p), <<"#">>, Cat(key, Pin(version)))
         IN  /\ rest \in Texts /\ CacheKey(ref) = Cat(<<"vault:">>, rest)
             /\ Begun(CacheKey(ref), rest)
<1>1. PICK v \in Texts : v = <<"vault:">>
  BY TokensAre
<1>2. PICK d \in Texts : d = DataSegment
  BY TokensAre
<1>3. PICK h \in Texts : h = <<"#">>
  BY TokensAre
<1>4. PICK n \in Texts : n = Pin(version)
  BY PinIs
<1>5. PICK text : text = CacheKey(ref)
  OBVIOUS
<1>6. text = Cat(Cat(Cat(Cat(Cat(Cat(v, m), d), p), h), key), n)
  BY <1>1, <1>2, <1>3, <1>4, <1>5 DEF CacheKey, Pin, Cat
<1>7. PICK full : full = Cat(Cat(m, d), p)
  OBVIOUS
<1>8. PICK rest : rest = Cat(Cat(full, h), Cat(key, n))
  OBVIOUS
<1>9. /\ Cat(m, d) \in Texts /\ full \in Texts /\ Cat(full, h) \in Texts
      /\ Cat(key, n) \in Texts /\ rest \in Texts
  BY <1>7, <1>8, CatIs
<1>10. Cat(Cat(Cat(v, m), d), p) = Cat(v, full)
  BY <1>7, <1>9, CatIs
<1>11. Cat(Cat(Cat(v, full), h), key) = Cat(v, Cat(Cat(full, h), key))
  BY <1>9, CatIs
<1>12. Cat(Cat(full, h), key) \in Texts
  BY <1>9, CatIs
<1>13. Cat(Cat(v, Cat(Cat(full, h), key)), n) = Cat(v, rest)
  BY <1>8, <1>9, <1>12, CatIs
<1>14. text = Cat(v, rest)
  BY <1>6, <1>10, <1>11, <1>13
<1>15. rest = Mid(Mid(m, DataSegment, p), <<"#">>, Cat(key, Pin(version)))
  BY <1>2, <1>3, <1>4, <1>7, <1>8 DEF Mid, Cat
<1>16. Begun(text, rest)
  <2>1. text = <<"vault:">> \o rest /\ rest \in Seq(Tokens) /\ "vault:" \in Tokens
    BY <1>1, <1>9, <1>14, TokensAre DEF Cat, Texts
  <2>2. QED
    BY ONLY <2>1 DEF Begun
<1>17. QED
  BY <1>1, <1>5, <1>9, <1>14, <1>15, <1>16

\* The keys and versions of references that parse, and the keys of secrets.
LEMMA FiledFinds ==
  ASSUME NEW m, NEW p, NEW key \in Texts, NEW version \in Versions,
         NEW filed, filed = [mount |-> m, path |-> p, key |-> key, version |-> version]
  PROVE  KeyAndVersion(m, p, Cat(key, Pin(version))) = Finds(filed)
<1>1. PICK h : h = Find(key, <<"#">>)
  OBVIOUS
<1>2. PICK after : after = Cat(key, Pin(version))
  OBVIOUS
<1>3. PICK v : v = Find(after, <<"#">>)
  OBVIOUS
<1>4. Len(key) \in Nat /\ h \in 0..Len(key)
  BY <1>1, HashSplit, LenProperties DEF Texts
<1>5. /\ Finds(filed) = IF h = 0 /\ key # <<>> THEN filed
                        ELSE IF h > 1 /\ version = None /\ IsNumber(After(key, h))
                          THEN [mount |-> m, path |-> p, key |-> Before(key, h),
                                version |-> Numeral[After(key, h)[1]]]
                        ELSE None
  <2>1. /\ filed.mount = m /\ filed.path = p
        /\ filed.key = key /\ filed.version = version
    OBVIOUS
  <2>2. QED
    BY ONLY <1>1, <2>1 DEF Finds
<1>6. KeyAndVersion(m, p, after) =
        LET new == IF v = 0 THEN after ELSE Before(after, v)
        IN  IF after # <<>> /\ new # <<>> /\ (v > 0 => IsNumber(After(after, v)))
              THEN [mount |-> m, path |-> p, key |-> new,
                    version |-> IF v = 0 THEN None ELSE Numeral[After(after, v)[1]]]
              ELSE None
  BY <1>3 DEF KeyAndVersion
<1>7. CASE version = None
  <2>1. after = key /\ v = h
    BY <1>1, <1>2, <1>3, <1>7, PinIs, CatIs
  <2>2. CASE h = 0
    <3>1. CASE key = <<>>
      BY <1>2, <1>5, <1>6, <2>1, <2>2, <3>1
    <3>2. CASE key # <<>>
      <4>1. KeyAndVersion(m, p, after) = [mount |-> m, path |-> p, key |-> key, version |-> None]
        BY <1>6, <2>1, <2>2, <3>2
      <4>2. QED
        BY <1>2, <1>5, <1>7, <2>2, <3>2, <4>1
    <3>3. QED
      BY <3>1, <3>2
  <2>3. CASE h = 1
    <3>1. Len(Before(key, 1)) = 0 /\ Before(key, 1) \in Texts
      BY <1>4, <2>3, BeforeIs
    <3>2. Before(key, 1) = <<>>
      BY <3>1, EmptySeq DEF Texts
    <3>3. KeyAndVersion(m, p, after) = None /\ Finds(filed) = None
      BY <1>5, <1>6, <2>1, <2>3, <3>2
    <3>4. QED
      BY <1>2, <3>3
  <2>4. CASE h > 1
    <3>1. Len(Before(key, h)) = h - 1 /\ h \in 1..Len(key)
      BY <1>4, <2>4, BeforeIs
    <3>2. Before(key, h) # <<>> /\ key # <<>>
      BY <1>4, <2>4, <3>1, EmptySeq
    <3>3. QED
      BY ONLY <1>2, <1>4, <1>5, <1>6, <1>7, <2>1, <2>4, <3>2
  <2>5. QED
    BY <1>4, <2>2, <2>3, <2>4
<1>8. CASE version # None
  <2>1. PICK d \in Texts : d = <<Decimal[version]>>
    BY <1>8, PinIs
  <2>2. IsNumber(d) /\ Numeral[d[1]] = version
    BY <1>8, <2>1, PinIs
  <2>3. PICK pin \in Texts : pin = Pin(version)
    BY PinIs
  <2>4. pin = Cat(<<"#">>, d)
    <3>1. pin = Mid(<<>>, <<"#">>, d)
      BY <1>8, <2>1, <2>3, PinIs
    <3>2. QED
      BY <3>1 DEF Mid, Cat
  <2>5. PICK hash \in Texts : hash = <<"#">>
    BY TokensAre
  <2>6. CASE h = 0
    <3>1. Free(key, "#")
      BY <1>1, <2>6, HashSplit
    <3>2. after = Mid(key, hash, d)
      <4>1. after = Cat(key, Cat(hash, d))
        BY <1>2, <2>3, <2>4, <2>5
      <4>2. after = Cat(Cat(key, hash), d)
        BY <4>1, CatIs
      <4>3. QED
        BY <4>2, MidIsCat
    <3>3. v > 0 /\ Before(after, v) = key /\ After(after, v) = d /\ after \in Texts
      BY <1>3, <2>5, <3>1, <3>2, HashCut
    <3>4. after # <<>>
      <4>1. Consists(after, key, hash, d) /\ Len(hash) = 1
        BY <2>5, <3>2, MidIs
      <4>2. Len(after) # 0
        BY <1>4, <4>1, LenProperties DEF Consists, Texts
      <4>3. QED
        BY <4>2, EmptySeq
    <3>5. CASE key = <<>>
      BY <1>2, <1>5, <1>6, <1>8, <2>6, <3>3, <3>5
    <3>6. CASE key # <<>>
      BY <1>2, <1>5, <1>6, <1>8, <2>2, <2>6, <3>3, <3>4, <3>6
    <3>7. QED
      BY <3>5, <3>6
  <2>7. CASE h # 0
    <3>1. PICK b \in Texts : b = Before(key, h) /\ Free(b, "#")
      BY <1>1, <2>7, HashSplit
    <3>2. PICK a \in Texts : a = After(key, h)
      BY <1>1, <2>7, HashSplit
    <3>3. key = Mid(b, hash, a)
      BY <1>1, <2>5, <2>7, <3>1, <3>2, HashSplit
    <3>4. after = Mid(b, hash, Cat(a, pin)) /\ Cat(a, pin) \in Texts
      <4>1. key = Cat(Cat(b, hash), a) /\ Cat(b, hash) \in Texts
        BY <3>3, CatIs DEF Mid, Cat
      <4>2. after = Cat(Cat(b, hash), Cat(a, pin))
        BY <1>2, <2>3, <4>1, CatIs
      <4>3. QED
        BY <4>2, CatIs DEF Mid, Cat
    <3>5. v > 0 /\ After(after, v) = Cat(a, pin)
      BY <1>3, <2>5, <3>1, <3>4, HashCut
    <3>6. ~ IsNumber(Cat(a, pin))
      <4>1. PICK n : n = Len(d)
        OBVIOUS
      <4>2. PICK x : x = Cat(a, pin)
        OBVIOUS
      <4>3. x = Mid(a, hash, d)
        <5>1. x = Cat(a, Cat(hash, d))
          BY <2>3, <2>4, <2>5, <4>2
        <5>2. x = Cat(Cat(a, hash), d)
          BY <5>1, CatIs
        <5>3. QED
          BY <5>2, MidIsCat
      <4>4. Len(x) = Len(a) + Len(hash) + Len(d) /\ Len(a) \in Nat /\ Len(hash) = 1
        <5>1. Consists(x, a, hash, d) /\ Len(a) \in Nat
          BY <4>3, MidIs, LenProperties DEF Texts
        <5>2. Len(hash) = 1
          BY <2>5
        <5>3. QED
          BY <5>1, <5>2 DEF Consists
      <4>5. Len(d) = 1
        BY <2>2 DEF IsNumber
      <4>6. Len(x) # 1
        BY <4>4, <4>5
      <4>7. QED
        BY <4>2, <4>6 DEF IsNumber
    <3>7. KeyAndVersion(m, p, after) = None
      BY <1>6, <3>5, <3>6
    <3>8. Finds(filed) = None
      BY <1>5, <1>8, <2>7
    <3>9. QED
      BY <1>2, <3>7, <3>8
  <2>8. QED
    BY <2>6, <2>7
<1>9. QED
  BY <1>7, <1>8

\* What is read back: a place, a key without '#' and maybe a version.
IsRef(ref) ==
  /\ ref = [mount |-> ref.mount, path |-> ref.path, key |-> ref.key, version |-> ref.version]
  /\ IsPlace(ref.mount, ref.path)
  /\ ref.key \in Texts /\ ref.key # <<>> /\ Free(ref.key, "#")
  /\ ref.version \in Versions

LEMMA KeyIs ==
  ASSUME NEW m, NEW p, IsPlace(m, p), NEW after \in Texts,
         NEW ref, ref = KeyAndVersion(m, p, after), ref # None
  PROVE  IsRef(ref)
<1>1. PICK v : v = Find(after, <<"#">>)
  OBVIOUS
<1>2. PICK key : key = IF v = 0 THEN after ELSE Before(after, v)
  OBVIOUS
<1>3. PICK version : version = IF v = 0 THEN None ELSE Numeral[After(after, v)[1]]
  OBVIOUS
<1>4. /\ key # <<>> /\ (v > 0 => IsNumber(After(after, v)))
      /\ ref = [mount |-> m, path |-> p, key |-> key, version |-> version]
  BY <1>1, <1>2, <1>3 DEF KeyAndVersion
<1>5. v \in Nat /\ key \in Texts /\ Free(key, "#")
  <2>1. v \in 0..Len(after) /\ Len(after) \in Nat
    BY <1>1, HashSplit, LenProperties DEF Texts
  <2>2. CASE v = 0
    <3>1. v = 0 => Free(after, "#")
      BY <1>1, HashSplit
    <3>2. QED
      BY <1>2, <2>2, <3>1
  <2>3. CASE v # 0
    BY <1>1, <1>2, <2>1, <2>3, HashSplit
  <2>4. QED
    BY <2>1, <2>2, <2>3
<1>6. version \in Versions
  BY <1>3, <1>4, <1>5, VaultRefAssumption DEF IsNumber, Versions
<1>7. /\ ref.mount = m /\ ref.path = p /\ ref.key = key /\ ref.version = version
  BY <1>4
<1>8. QED
  BY ONLY <1>4, <1>5, <1>6, <1>7, IsPlace(m, p) DEF IsRef

LEMMA ParsedIs ==
  ASSUME NEW text \in Texts, NEW ref, ref = ParseVaultRef(text), ref # None
  PROVE  IsRef(ref)
<1>1. PICK rest : rest = Tail(text)
  OBVIOUS
<1>2. PICK h : h = Find(rest, <<"#">>)
  OBVIOUS
<1>3. PICK full : full = Before(rest, h)
  OBVIOUS
<1>4. PICK after : after = After(rest, h)
  OBVIOUS
<1>5. PICK m : m = MountAndPath(full).mount
  OBVIOUS
<1>6. PICK p : p = MountAndPath(full).path
  OBVIOUS
<1>7. /\ text # <<>> /\ h > 0 /\ Find(full, <<"/">>) > 0
      /\ m # <<>> /\ p # <<>> /\ ref = KeyAndVersion(m, p, after)
  BY <1>1, <1>2, <1>3, <1>4, <1>5, <1>6 DEF ParseVaultRef, KeyAndVersion
<1>8. rest \in Texts
  BY <1>1, <1>7, HeadTailProperties DEF Texts
<1>9. full \in Texts /\ Free(full, "#") /\ after \in Texts
  BY <1>2, <1>3, <1>4, <1>7, <1>8, HashSplit
<1>10. IsPlace(m, p)
  BY <1>5, <1>6, <1>7, <1>9, CutPath
<1>11. QED
  BY <1>7, <1>9, <1>10, KeyIs

\* Under which reference a key is found that is filed under any reference.
LEMMA FiledRead ==
  ASSUME NEW m, NEW p, IsPlace(m, p), NEW key \in Texts, NEW version \in Versions,
         NEW filed, filed = [mount |-> m, path |-> p, key |-> key, version |-> version]
  PROVE  ParseVaultRef(CacheKey(filed)) = Finds(filed)
<1>1. m \in Texts /\ p \in Texts
  BY DEF IsPlace
<1>2. PICK full : full = Mid(m, DataSegment, p)
  OBVIOUS
<1>3. PICK after \in Texts : after = Cat(key, Pin(version))
  BY PinIs, CatIs
<1>4. PICK rest : rest = Mid(full, <<"#">>, after)
  OBVIOUS
<1>5. Begun(CacheKey(filed), rest)
  BY <1>1, <1>2, <1>3, <1>4, CacheKeyIs
<1>6. ParseVaultRef(CacheKey(filed)) = KeyAndVersion(m, p, after)
  BY <1>2, <1>4, <1>5, ParsedAs
<1>7. QED
  BY <1>3, <1>6, FiledFinds

LEMMA TextRoundTrips == value \in Texts => RoundTrip
<1>1. SUFFICES ASSUME value \in Texts,
                      NEW ref, ref = ParseVaultRef(value), ref # None,
                      NEW key \in StoredKeys \cup {ref.key}
               PROVE  LET filed == [ref EXCEPT !.key = key]
                      IN  /\ ParseVaultRef(CacheKey(filed)) = Finds(filed)
                          /\ Finds(ref) = ref
  BY DEF RoundTrip
<1>2. IsRef(ref)
  BY <1>1, ParsedIs
<1>3. PICK m : m = ref.mount
  OBVIOUS
<1>4. PICK p : p = ref.path
  OBVIOUS
<1>5. PICK version : version = ref.version
  OBVIOUS
<1>6. /\ IsPlace(m, p) /\ version \in Versions /\ ref.key \in Texts
      /\ ref.key # <<>> /\ Free(ref.key, "#")
      /\ ref = [mount |-> m, path |-> p, key |-> ref.key, version |-> version]
  BY <1>2, <1>3, <1>4, <1>5 DEF IsRef
<1>7. key \in Texts
  BY <1>1, <1>6, MCProtoAssumption, Zenon DEF Texts
<1>8. PICK filed : filed = [mount |-> m, path |-> p, key |-> key, version |-> version]
  OBVIOUS
<1>9. [ref EXCEPT !.key = key] = filed
  BY <1>6, <1>8
<1>10. ParseVaultRef(CacheKey(filed)) = Finds(filed)
  BY <1>6, <1>7, <1>8, FiledRead
<1>11. Finds(ref) = ref
  <2>1. FirstOf(ref.key, "#", Find(ref.key, <<"#">>))
    BY <1>6, FindOneIs
  <2>2. Find(ref.key, <<"#">>) = 0
    BY <1>6, <2>1 DEF FirstOf, Free
  <2>3. QED
    BY ONLY <1>6, <2>2 DEF Finds
<1>12. QED
  BY <1>9, <1>10, <1>11

-----------------------------------------------------------------------------
(* The documented form.                                                       *)

\* What stands after the '#' of a text of the documented form is a key and maybe a
\* version as it is printed.
LEMMA DocumentedKey ==
  ASSUME NEW after \in Texts, Len(after) > 0, after[1] # "#",
         \/ Free(after, "#")
         \/ /\ \A k \in 1..Len(after) - 2 : after[k] # "#"
            /\ Len(after) > 1 /\ after[Len(after) - 1] = "#"
            /\ after[Len(after)] \in Range(Decimal)
  PROVE  \E key \in Texts, version \in Versions :
           /\ key # <<>> /\ after = Cat(key, Pin(version))
           /\ \A m, p : KeyAndVersion(m, p, after)
                        = [mount |-> m, path |-> p, key |-> key, version |-> version]
<1>1. PICK v : v = Find(after, <<"#">>)
  OBVIOUS
<1>2. PICK n \in Nat : n = Len(after)
  BY LenProperties DEF Texts
<1>3. after # <<>>
  BY EmptySeq
<1>4. FirstOf(after, "#", v)
  BY <1>1, FindOneIs
<1>5. CASE Free(after, "#")
  <2>1. v = 0
    BY <1>4, <1>5 DEF FirstOf, Free
  <2>2. PICK version \in Versions : version = None
    BY DEF Versions
  <2>3. after = Cat(after, Pin(version))
    BY <2>2, PinIs, CatIs
  <2>4. ASSUME NEW m, NEW p
        PROVE  KeyAndVersion(m, p, after)
               = [mount |-> m, path |-> p, key |-> after, version |-> version]
    BY ONLY <1>1, <1>3, <2>1, <2>2 DEF KeyAndVersion
  <2>5. QED
    BY <1>3, <2>3, <2>4
<1>6. CASE ~ Free(after, "#")
  <2>1. /\ \A k \in 1..n - 2 : after[k] # "#"
        /\ n > 1 /\ after[n - 1] = "#" /\ after[n] \in Range(Decimal)
    BY <1>2, <1>6
  <2>2. n > 2
    BY <2>1
  <2>3. FirstOf(after, "#", n - 1)
    <3>1. n - 1 \in 1..Len(after) /\ n - 1 \in 0..Len(after) /\ n - 1 # 0
      BY <1>2, <2>2
    <3>2. ASSUME NEW k \in 1..Len(after), k < n - 1 PROVE after[k] # "#"
      <4>1. k \in 1..n - 2
        BY <1>2, <3>2
      <4>2. QED
        BY <2>1, <4>1
    <3>3. QED
      BY <2>1, <3>1, <3>2 DEF FirstOf
  <2>4. v = n - 1
    BY <1>4, <2>3, FirstIsUnique
  <2>5. PICK version \in DOMAIN Decimal : after[n] = Decimal[version]
    BY <2>1 DEF Range
  <2>6. version \in Versions /\ version # None
    BY <2>5, VaultRefAssumption DEF Versions
  <2>7. PICK d \in Texts : d = <<Decimal[version]>>
    BY <2>6, PinIs
  <2>8. Len(d) = 1 /\ d[1] = after[n] /\ IsNumber(d) /\ Numeral[d[1]] = version
    BY <2>5, <2>6, <2>7, PinIs
  <2>9. PICK number : number = After(after, v)
    OBVIOUS
  <2>10. number = d
    <3>1. v \in 0..Len(after) /\ Len(after) - v = 1 /\ v + 1 = n
      BY <1>2, <2>2, <2>4
    <3>2. number \in Texts /\ Len(number) = Len(after) - v
          /\ \A k \in 1..Len(after) - v : number[k] = after[v + k]
      BY <2>9, <3>1, AfterIs
    <3>3. Len(number) = 1 /\ number[1] = after[n]
      BY <3>1, <3>2
    <3>4. Len(number) = Len(d) /\ \A k \in 1..Len(number) : number[k] = d[k]
      BY <2>8, <3>3
    <3>5. QED
      BY <3>2, <3>4, SameText
  <2>11. PICK key : key = Before(after, v)
    OBVIOUS
  <2>12. key \in Texts /\ Len(key) = v - 1 /\ v \in Nat /\ v > 1
    <3>1. v \in 1..Len(after) /\ v \in Nat /\ v > 1
      BY <1>2, <2>2, <2>4
    <3>2. QED
      BY <2>11, <3>1, BeforeIs
  <2>13. key # <<>>
    <3>1. Len(key) # 0
      BY <2>12
    <3>2. QED
      BY <3>1, EmptySeq
  <2>14. after = Cat(key, Pin(version))
    <3>1. PICK hash \in Texts : hash = <<"#">>
      BY TokensAre
    <3>2. v # 0
      BY <2>12
    <3>3. after = Mid(key, hash, d)
      <4>1. after = Mid(Before(after, v), <<"#">>, After(after, v))
        BY <1>1, <3>2, HashSplit
      <4>2. QED
        BY <2>9, <2>10, <2>11, <3>1, <4>1
    <3>4. PICK pin : pin = Pin(version)
      OBVIOUS
    <3>5. pin = Cat(hash, d)
      <4>1. pin = Mid(<<>>, hash, d)
        BY <2>6, <2>7, <3>1, <3>4, PinIs
      <4>2. QED
        BY <4>1, ConcatEmptySeq DEF Mid, Cat, Texts
    <3>6. after = Cat(Cat(key, hash), d)
      BY <3>3, MidIsCat
    <3>7. after = Cat(key, Cat(hash, d))
      BY <2>12, <3>6, CatIs
    <3>8. QED
      BY <3>4, <3>5, <3>7
  <2>15. ASSUME NEW m, NEW p
         PROVE  KeyAndVersion(m, p, after)
                = [mount |-> m, path |-> p, key |-> key, version |-> version]
    <3>1. v # 0
      BY <2>12
    <3>2. IsNumber(number) /\ Numeral[number[1]] = version
      BY <2>8, <2>10
    <3>3. QED
      BY ONLY <1>1, <1>3, <2>9, <2>11, <2>13, <3>1, <3>2 DEF KeyAndVersion
  <2>16. QED
    BY <2>6, <2>12, <2>13, <2>14, <2>15
<1>7. QED
  BY <1>5, <1>6

\* A place, a key and a version that are put together are the text they are read from.
LEMMA Canonical ==
  ASSUME NEW m, NEW p, IsPlace(m, p), NEW key \in Texts, NEW version \in Versions,
         NEW after \in Texts, after = Cat(key, Pin(version)),
         NEW ref, ref = [mount |-> m, path |-> p, key |-> key, version |-> version],
         KeyAndVersion(m, p, after) = ref,
         NEW full, full = Mid(m, DataSegment, p),
         NEW rest, rest = Mid(full, <<"#">>, after),
         NEW text, Begun(text, rest), text = Cat(<<"vault:">>, rest)
  PROVE  ParseVaultRef(text) # None /\ CacheKey(ParseVaultRef(text)) = text
<1>1. m \in Texts /\ p \in Texts
  BY DEF IsPlace
<1>2. ParseVaultRef(text) = ref
  BY ParsedAs
<1>3. CacheKey(ref) = text
  BY <1>1, CacheKeyIs
<1>4. ref # None
  <2>1. ref \in [mount : Seq(Tokens), path : Seq(Tokens), key : Seq(Tokens),
                 version : DOMAIN Decimal \cup {None}]
    BY <1>1 DEF Texts, Versions
  <2>2. QED
    BY <2>1, MCProtoAssumption, Zenon
<1>5. QED
  BY <1>2, <1>3, <1>4

LEMMA DocumentedIsCanonical ==
  ASSUME NEW text \in Texts, DocumentedForm(text)
  PROVE  ParseVaultRef(text) # None /\ CacheKey(ParseVaultRef(text)) = text
<1>1. PICK i \in 2..Len(text), j \in 2..Len(text) :
        /\ i > 2 /\ i + 3 < j /\ j < Len(text)
        /\ text[1] = "vault:" /\ text[2] # "/"
        /\ SubSeq(text, i, i + 2) = DataSegment
        /\ text[j] = "#" /\ text[j + 1] # "#"
        /\ "#" \notin {text[k] : k \in 2..(j - 1)}
        /\ \/ "#" \notin {text[k] : k \in (j + 1)..Len(text)}
           \/ /\ "#" \notin {text[k] : k \in (j + 1)..(Len(text) - 2)}
              /\ text[Len(text) - 1] = "#"
              /\ Last(text) \in Range(Decimal)
  BY DEF DocumentedForm
<1>2. PICK n \in Nat : n = Len(text)
  BY LenProperties DEF Texts
<1>3. i \in Nat /\ j \in Nat /\ i > 2 /\ i + 3 < j /\ j < n
  BY <1>1, <1>2
<1>4. text # <<>>
  BY <1>2, <1>3, EmptySeq
<1>5. PICK rest : rest = Tail(text)
  OBVIOUS
<1>6. rest \in Texts /\ Len(rest) = n - 1 /\ \A k \in 1..n - 1 : rest[k] = text[k + 1]
  BY <1>2, <1>4, <1>5, HeadTailProperties DEF Texts
<1>7. Begun(text, rest) /\ text = Cat(<<"vault:">>, rest)
  <2>1. Head(text) = text[1]
    OBVIOUS
  <2>2. Begun(text, rest)
    BY <1>1, <1>4, <1>5, <2>1 DEF Begun
  <2>3. PICK v \in Texts : v = <<"vault:">> /\ Len(v) = 1 /\ v[1] = "vault:"
    BY TokensAre
  <2>4. PICK t : t = v \o rest
    OBVIOUS
  <2>5. /\ t \in Seq(Tokens) /\ Len(t) = Len(v) + Len(rest)
        /\ \A k \in 1..Len(v) : t[k] = v[k]
        /\ \A k \in 1..Len(rest) : t[Len(v) + k] = rest[k]
    <3>1. v \in Seq(Tokens) /\ rest \in Seq(Tokens)
      BY <1>6 DEF Texts
    <3>2. QED
      BY ONLY <2>4, <3>1, Joined
  <2>6. ASSUME NEW k \in 1..Len(text) PROVE text[k] = t[k]
    <3>1. CASE k = 1
      BY <1>1, <2>3, <2>5, <3>1
    <3>2. CASE k # 1
      <4>1. PICK l \in 1..n - 1 : l = k - 1
        BY <1>2, <3>2
      <4>2. rest[l] = text[l + 1] /\ l + 1 = k
        BY <1>2, <1>6, <4>1
      <4>3. l \in 1..Len(rest) /\ Len(v) + l = k
        BY <1>6, <2>3, <4>1
      <4>4. t[Len(v) + l] = rest[l]
        BY <2>5, <4>3
      <4>5. QED
        BY <4>2, <4>3, <4>4
    <3>3. QED
      BY <3>1, <3>2
  <2>7. Len(text) = Len(t) /\ t \in Texts
    BY <1>2, <1>6, <2>3, <2>5 DEF Texts
  <2>8. text = t
    BY <2>6, <2>7, SameText
  <2>9. QED
    BY <2>2, <2>3, <2>4, <2>8 DEF Cat
<1>8. PICK h : h = Find(rest, <<"#">>)
  OBVIOUS
<1>9. h = j - 1
  <2>1. j - 1 \in 1..Len(rest) /\ j - 1 \in 0..Len(rest) /\ j - 1 # 0
    BY <1>3, <1>6
  <2>2. rest[j - 1] = "#"
    <3>1. j - 1 \in 1..n - 1 /\ (j - 1) + 1 = j
      BY <1>3
    <3>2. QED
      BY <1>1, <1>6, <3>1
  <2>3. ASSUME NEW k \in 1..Len(rest), k < j - 1 PROVE rest[k] # "#"
    <3>1. k \in 1..n - 1 /\ k + 1 \in 2..(j - 1)
      BY <1>3, <1>6, <2>3
    <3>2. QED
      BY <1>1, <1>6, <3>1
  <2>4. FirstOf(rest, "#", j - 1)
    BY <2>1, <2>2, <2>3 DEF FirstOf
  <2>5. QED
    BY <1>6, <1>8, <2>4, FindOneIs, FirstIsUnique
<1>10. h \in Nat /\ h # 0 /\ h \in 1..Len(rest) /\ h \in 0..Len(rest)
  BY <1>3, <1>6, <1>9
<1>11. PICK full : full = Before(rest, h)
  OBVIOUS
<1>12. PICK after : after = After(rest, h)
  OBVIOUS
<1>13. /\ full \in Texts /\ Free(full, "#") /\ after \in Texts
       /\ rest = Mid(full, <<"#">>, after)
  BY <1>6, <1>8, <1>10, <1>11, <1>12, HashSplit
<1>14. Len(full) = j - 2 /\ \A k \in 1..j - 2 : full[k] = text[k + 1]
  <2>1. Len(full) = h - 1 /\ \A k \in 1..h - 1 : full[k] = rest[k]
    BY <1>6, <1>10, <1>11, BeforeIs
  <2>2. \A k \in 1..j - 2 : k \in 1..h - 1 /\ k \in 1..n - 1
    BY <1>3, <1>9
  <2>3. h - 1 = j - 2
    BY <1>3, <1>9
  <2>4. QED
    BY <1>6, <2>1, <2>2, <2>3
<1>15. Len(after) = n - j /\ \A k \in 1..n - j : after[k] = text[j + k]
  <2>1. Len(after) = Len(rest) - h /\ \A k \in 1..Len(rest) - h : after[k] = rest[h + k]
    BY <1>6, <1>10, <1>12, AfterIs
  <2>2. Len(rest) - h = n - j
    BY <1>3, <1>6, <1>9
  <2>3. \A k \in 1..n - j : h + k \in 1..n - 1 /\ (h + k) + 1 = j + k
    BY <1>3, <1>9
  <2>4. QED
    BY <1>6, <2>1, <2>2, <2>3
<1>16. PICK d : d = Find(full, DataSegment)
  OBVIOUS
<1>17. FirstData(full, d)
  BY <1>13, <1>16, FindDataIs
<1>18. d \in Nat /\ d > 1 /\ d <= i - 1
  <2>1. DataAt(text, i)
    <3>1. i \in Matches(text, DataSegment)
      <4>1. i \in 1..(Len(text) - 3 + 1) /\ i + 3 - 1 = i + 2 /\ Len(DataSegment) = 3
        BY <1>2, <1>3, TokensAre
      <4>2. QED
        BY <1>1, <4>1 DEF Matches
    <3>2. QED
      BY <3>1, DataMatches
  <2>2. DataAt(full, i - 1)
    <3>1. PICK a \in Nat : a = i - 1
      BY <1>3
    <3>2. /\ a \in 1..j - 2 /\ a + 1 \in 1..j - 2 /\ a + 2 \in 1..j - 2
          /\ a + 1 = i /\ (a + 1) + 1 = i + 1 /\ (a + 2) + 1 = i + 2
      BY <1>3, <3>1
    <3>3. full[a] = text[i] /\ full[a + 1] = text[i + 1] /\ full[a + 2] = text[i + 2]
      BY <1>14, <3>2
    <3>4. a \in 1..Len(full) /\ a + 2 <= Len(full)
      BY <1>3, <1>14, <3>1
    <3>5. DataAt(full, a)
      BY <2>1, <3>3, <3>4 DEF DataAt
    <3>6. QED
      BY <3>1, <3>5
  <2>3. i - 1 \in 1..Len(full) /\ Len(full) \in Nat
    BY <1>3, <1>14
  <2>4. d \in 1..Len(full) /\ d <= i - 1 /\ DataAt(full, d)
    BY <1>3, <1>17, <2>2, <2>3 DEF FirstData
  <2>5. d # 1
    <3>1. full[1] = text[2]
      <4>1. 1 \in 1..j - 2 /\ 1 + 1 = 2
        BY <1>3
      <4>2. QED
        BY <1>14, <4>1
    <3>2. QED
      BY <1>1, <2>4, <3>1 DEF DataAt
  <2>6. QED
    BY <2>3, <2>4, <2>5
<1>19. PICK m : m = MountAndPath(full).mount
  OBVIOUS
<1>20. PICK p : p = MountAndPath(full).path
  OBVIOUS
<1>21. m = Before(full, d) /\ p = After(full, d + 2)
  BY <1>16, <1>18, <1>19, <1>20 DEF MountAndPath
<1>22. full = Mid(m, DataSegment, p)
  BY <1>13, <1>17, <1>18, <1>21, RejoinData
<1>23. IsPlace(m, p)
  <2>1. d \in 1..Len(full) /\ d + 2 \in 0..Len(full) /\ Len(full) - (d + 2) > 0
    <3>1. PICK l \in Nat : l = j - 2
      BY <1>3
    <3>2. d \in 1..l /\ d + 2 \in 0..l /\ l - (d + 2) > 0
      BY <1>3, <1>18, <3>1
    <3>3. QED
      BY <1>14, <3>1, <3>2
  <2>2. Len(m) = d - 1 /\ Len(p) = Len(full) - (d + 2)
    BY <1>13, <1>21, <2>1, BeforeIs, AfterIs
  <2>3. Len(m) # 0 /\ Len(p) # 0
    BY <1>18, <2>1, <2>2
  <2>4. m # <<>> /\ p # <<>>
    BY <2>3, EmptySeq
  <2>5. Find(full, <<"/">>) > 0
    <3>1. FirstOf(full, "/", Find(full, <<"/">>))
      BY <1>13, FindOneIs
    <3>2. full[d] = "/"
      BY <1>17, <1>18 DEF FirstData, DataAt
    <3>3. QED
      BY <2>1, <3>1, <3>2 DEF FirstOf
  <2>6. QED
    BY <1>13, <1>19, <1>20, <2>4, <2>5, CutPath
<1>24. /\ Len(after) > 0 /\ after[1] # "#"
       /\ \/ Free(after, "#")
          \/ /\ \A k \in 1..Len(after) - 2 : after[k] # "#"
             /\ Len(after) > 1 /\ after[Len(after) - 1] = "#"
             /\ after[Len(after)] \in Range(Decimal)
  <2>1. Len(after) > 0 /\ after[1] # "#"
    <3>1. 1 \in 1..n - j
      BY <1>3
    <3>2. QED
      BY <1>1, <1>15, <3>1
  <2>2. CASE "#" \notin {text[k] : k \in (j + 1)..Len(text)}
    <3>1. ASSUME NEW k \in 1..Len(after) PROVE after[k] # "#"
      <4>1. k \in 1..n - j /\ j + k \in (j + 1)..Len(text)
        BY <1>2, <1>3, <1>15
      <4>2. QED
        BY <1>15, <2>2, <4>1
    <3>2. QED
      BY <2>1, <3>1 DEF Free
  <2>3. CASE /\ "#" \notin {text[k] : k \in (j + 1)..(Len(text) - 2)}
             /\ text[Len(text) - 1] = "#"
             /\ Last(text) \in Range(Decimal)
    <3>1. PICK l \in Nat : l = n - j
      BY <1>3
    <3>2. l = Len(after) /\ \A k \in 1..l : after[k] = text[j + k]
      BY <1>15, <3>1
    <3>3. after[l] \in Range(Decimal)
      <4>1. l \in 1..l /\ j + l = n
        BY <1>3, <3>1
      <4>2. after[l] = Last(text)
        BY <1>2, <3>2, <4>1 DEF Last
      <4>3. QED
        BY <2>3, <4>2
    <3>4. CASE l = 1
      BY <2>1, <3>2, <3>4 DEF Free
    <3>5. CASE l # 1
      <4>1. l > 1 /\ l - 1 \in 1..l /\ j + (l - 1) = n - 1
        BY <1>3, <3>1, <3>5
      <4>2. after[l - 1] = "#"
        BY <1>2, <2>3, <3>2, <4>1
      <4>3. ASSUME NEW k \in 1..l - 2 PROVE after[k] # "#"
        <5>1. k \in 1..l /\ j + k \in (j + 1)..(Len(text) - 2)
          BY <1>2, <1>3, <3>1
        <5>2. QED
          BY <2>3, <3>2, <5>1
      <4>4. QED
        BY <2>1, <3>2, <3>3, <4>1, <4>2, <4>3
    <3>6. QED
      BY <3>4, <3>5
  <2>4. QED
    BY <1>1, <2>2, <2>3
<1>25. PICK key \in Texts, version \in Versions :
         /\ key # <<>> /\ after = Cat(key, Pin(version))
         /\ \A x, y : KeyAndVersion(x, y, after)
                      = [mount |-> x, path |-> y, key |-> key, version |-> version]
  BY <1>13, <1>24, DocumentedKey
<1>26. PICK ref : ref = [mount |-> m, path |-> p, key |-> key, version |-> version]
  OBVIOUS
<1>27. KeyAndVersion(m, p, after) = ref
  BY <1>25, <1>26
<1>28. QED
  BY <1>7, <1>13, <1>22, <1>23, <1>25, <1>26, <1>27, Canonical

-----------------------------------------------------------------------------
(* The texts that are typed.                                                  *)

Typed == Tokens \cup DOMAIN Numbers \cup {" ", "s", "m", "h"}

LEMMA Less == \A n, max \in Nat : n < max => n + 1 <= max
OBVIOUS

LEMMA TypedStep ==
  ASSUME NEW token \in Typed, value \in Seq(Typed), value' = Append(value, token)
  PROVE  /\ value' \in Seq(Typed) /\ Len(value') = Len(value) + 1 /\ value' # <<>>
         /\ value # <<>> => value'[1] = value[1]
         /\ value = <<>> => value'[1] = token
         /\ value \in Seq(Tokens) /\ token \in Tokens => value' \in Seq(Tokens)
<1>1. /\ value' \in Seq(Typed) /\ Len(value') = Len(value) + 1 /\ value' # <<>>
      /\ \A i \in 1..Len(value) : value'[i] = value[i]
      /\ value'[Len(value) + 1] = token
  BY AppendProperties
<1>2. Len(value) \in Nat /\ (value # <<>> => Len(value) # 0) /\ (value = <<>> => Len(value) = 0)
  BY LenProperties, EmptySeq
<1>3. value # <<>> => 1 \in 1..Len(value)
  BY <1>2
<1>4. value = <<>> => value'[1] = token
  BY <1>1, <1>2
<1>5. value \in Seq(Tokens) /\ token \in Tokens => value' \in Seq(Tokens)
  BY AppendProperties
<1>6. QED
  BY <1>1, <1>3, <1>4, <1>5

LEMMA TextInvariant == Init => TextInv
<1>1. SUFFICES ASSUME Init PROVE TextInv
  OBVIOUS
<1>2. value \in {<<"vault:">>, <<>>} /\ MaxDuration \in Nat /\ "vault:" \in Tokens
  BY <1>1, MCProtoAssumption, TokensAre, Zenon DEF Init
<1>3. CASE value = <<"vault:">>
  <2>1. value \in Seq(Tokens) /\ value \in Seq(Typed) /\ IsReference
    BY <1>2, <1>3 DEF IsReference, Typed
  <2>2. QED
    BY <2>1 DEF TextInv, Typed
<1>4. CASE value = <<>>
  <2>1. value \in Seq(Typed) /\ ~ IsReference /\ Len(value) <= MaxDuration
    BY <1>2, <1>4 DEF IsReference
  <2>2. QED
    BY <2>1 DEF TextInv, Typed
<1>5. QED
  BY <1>2, <1>3, <1>4

LEMMA TextStep == TextInv /\ [Next]_vars => TextInv'
<1>1. SUFFICES ASSUME TextInv, [Next]_vars PROVE TextInv'
  OBVIOUS
<1>2. /\ value \in Seq(Typed) /\ (IsReference => value \in Seq(Tokens))
      /\ (~ IsReference => Len(value) <= MaxDuration)
  BY <1>1 DEF TextInv, Typed
<1>3. ASSUME value' = value PROVE TextInv'
  BY <1>1, <1>3 DEF TextInv, IsReference
<1>4. CASE TypeReference
  <2>1. PICK token \in Tokens : value' = Append(value, token)
    BY <1>4 DEF TypeReference, Type, Tokens
  <2>2. IsReference /\ token \in Typed
    BY <1>4 DEF TypeReference, Typed
  <2>3. value # <<>> /\ value[1] = "vault:" /\ value \in Seq(Tokens)
    BY <1>2, <2>2 DEF IsReference
  <2>4. value' \in Seq(Typed) /\ value' \in Seq(Tokens) /\ value' # <<>> /\ value'[1] = "vault:"
    BY <1>2, <2>1, <2>2, <2>3, TypedStep
  <2>5. QED
    BY <2>4 DEF TextInv, IsReference, Typed
<1>5. CASE TypeDuration
  <2>1. /\ ~ IsReference /\ Len(value) < MaxDuration
        /\ \E token \in DOMAIN Numbers \cup {" ", "s", "m", "h"} : value' = Append(value, token)
    BY <1>5 DEF TypeDuration, Type
  <2>2. PICK token \in DOMAIN Numbers \cup {" ", "s", "m", "h"} : value' = Append(value, token)
    BY <2>1
  <2>3. token \in Typed
    BY DEF Typed
  <2>4. DOMAIN Numbers \cap {" ", "s", "m", "h", "vault:"} = {} /\ MaxDuration \in Nat
    BY MCProtoAssumption, Zenon
  <2>5. token # "vault:"
    BY <2>4
  <2>6. /\ value' \in Seq(Typed) /\ Len(value') = Len(value) + 1 /\ value' # <<>>
        /\ (value # <<>> => value'[1] = value[1]) /\ (value = <<>> => value'[1] = token)
    BY <1>2, <2>2, <2>3, TypedStep
  <2>7. value'[1] # "vault:"
    BY <2>1, <2>5, <2>6 DEF IsReference
  <2>8. Len(value') <= MaxDuration
    <3>1. Len(value) \in Nat
      BY <1>2, LenProperties
    <3>2. Len(value) + 1 <= MaxDuration
      BY <2>1, <2>4, <3>1, Less
    <3>3. QED
      BY <2>6, <3>2
  <2>9. QED
    BY <2>6, <2>7, <2>8 DEF TextInv, IsReference, Typed
<1>6. CASE Send
  BY <1>3, <1>6 DEF Send
<1>7. CASE Arrive
  BY <1>3, <1>7 DEF Arrive
<1>8. CASE Execute
  BY <1>3, <1>8 DEF Execute
<1>9. CASE UNCHANGED vars
  BY <1>3, <1>9 DEF vars
<1>10. QED
  BY <1>1, <1>4, <1>5, <1>6, <1>7, <1>8, <1>9 DEF Next

\* The texts that are typed are references all through, or no longer than a duration.
THEOREM TextInvariance == Spec => []TextInv
BY TextInvariant, TextStep, PTL DEF Spec

\* For any words, numbers and keys of secrets, a key that is filed for a reference is
\* found by that very reference, or by the one that RoundTrip names (`Finds`), or by
\* none: what the Vault backend's cache relies on.
THEOREM RoundTrips == Spec => []RoundTrip
<1>1. TextInv => RoundTrip
  <2>1. TextInv /\ IsReference => value \in Texts
    BY DEF TextInv, Texts
  <2>2. ~ IsReference => RoundTrip
    BY DEF RoundTrip
  <2>3. QED
    BY <2>1, <2>2, TextRoundTrips
<1>2. QED
  BY <1>1, TextInvariance, PTL

\* For any words and numbers, every text of the documented form is accepted and is its
\* own cache key.
THEOREM DocumentedIsItsOwnKey == Spec => []DocumentedFormIsCanonical
<1>1. TextInv => DocumentedFormIsCanonical
  <2>1. TextInv /\ IsReference => value \in Texts
    BY DEF TextInv, Texts
  <2>2. QED
    BY <2>1, DocumentedIsCanonical DEF DocumentedFormIsCanonical
<1>2. QED
  BY <1>1, TextInvariance, PTL

-----------------------------------------------------------------------------
(* Durations: a text is trimmed, and what is left is a number and a unit.     *)

LEMMA MaxIs ==
  ASSUME NEW n \in Nat, NEW S \in SUBSET (0..n), S # {}
  PROVE  Max(S) \in S /\ \A k \in S : Max(S) >= k
<1> DEFINE T == {n - x : x \in S}
<1>1. T \subseteq Nat /\ T # {}
  <2>1. \A x \in S : n - x \in Nat
    OBVIOUS
  <2>2. QED
    BY <2>1
<1>2. PICK t : t = Min(T)
  OBVIOUS
<1>3. t \in T /\ \A k \in T : t <= k
  <2> HIDE DEF T
  <2> QED
    BY <1>1, <1>2, MinIs
<1>4. PICK m \in S : t = n - m
  BY <1>3
<1>5. ASSUME NEW k \in S PROVE m >= k
  <2>1. t <= n - k
    BY <1>3
  <2>2. QED
    BY <1>4, <2>1
<1>6. QED
  BY <1>5 DEF Max

\* A space: what says " " to Z3 cannot be read by it.
Blank == " "

\* v is c, with x spaces before it and y after it.
Padded(v, x, c, y) ==
  /\ x \in Nat /\ y \in Nat /\ Len(v) = x + Len(c) + y
  /\ \A i \in 1..x : v[i] = Blank
  /\ \A i \in 1..Len(c) : v[x + i] = c[i]
  /\ \A i \in 1..y : v[x + Len(c) + i] = Blank

Spaces(n) == [i \in 1..n |-> Blank]

LEMMA SpacesAre ==
  ASSUME NEW n \in Nat
  PROVE  /\ Spaces(n) \in Seq(Typed) /\ Len(Spaces(n)) = n
         /\ \A i \in 1..n : Spaces(n)[i] = Blank
<1>0. Blank \in Typed
  BY Zenon DEF Blank, Typed
<1>1. Spaces(n) \in [1..n -> Typed]
  BY <1>0 DEF Spaces
<1>2. Spaces(n) \in Seq(Typed)
  BY <1>1, IsSeq
<1>3. DOMAIN Spaces(n) = 1..n /\ \A i \in 1..n : Spaces(n)[i] = Blank
  BY DEF Spaces
<1>4. PICK s \in Seq(Typed) : s = Spaces(n)
  BY <1>2
<1>5. DOMAIN s = 1..n /\ DOMAIN s = 1..Len(s) /\ Len(s) \in Nat
  BY <1>3, <1>4, LenProperties
<1>6. Len(s) = n
  BY <1>5
<1>7. QED
  BY <1>2, <1>3, <1>4, <1>6

LEMMA PaddedText ==
  ASSUME NEW x \in Nat, NEW y \in Nat, NEW c \in Seq(Typed),
         NEW v, v = Spaces(x) \o c \o Spaces(y)
  PROVE  v \in Seq(Typed) /\ Padded(v, x, c, y)
<1>1. PICK a \in Seq(Typed) : a = Spaces(x) /\ Len(a) = x /\ \A i \in 1..x : a[i] = Blank
  BY SpacesAre
<1>2. PICK b \in Seq(Typed) : b = Spaces(y) /\ Len(b) = y /\ \A i \in 1..y : b[i] = Blank
  BY SpacesAre
<1>3. PICK u : u = a \o c
  OBVIOUS
<1>4. v = u \o b
  BY <1>1, <1>2, <1>3
<1>5. Len(c) \in Nat
  BY LenProperties
<1>6. /\ u \in Seq(Typed) /\ Len(u) = Len(a) + Len(c)
      /\ \A i \in 1..Len(a) : u[i] = a[i]
      /\ \A i \in 1..Len(c) : u[Len(a) + i] = c[i]
  <2>1. a \in Seq(Typed) /\ c \in Seq(Typed)
    OBVIOUS
  <2>2. QED
    BY ONLY <1>3, <2>1, Joined
<1>7. /\ v \in Seq(Typed) /\ Len(v) = Len(u) + Len(b)
      /\ \A i \in 1..Len(u) : v[i] = u[i]
      /\ \A i \in 1..Len(b) : v[Len(u) + i] = b[i]
  <2>1. u \in Seq(Typed) /\ b \in Seq(Typed)
    BY <1>6
  <2>2. QED
    BY ONLY <1>4, <2>1, Joined
<1>8. Len(u) = x + Len(c) /\ Len(v) = x + Len(c) + y
  BY <1>1, <1>2, <1>5, <1>6, <1>7
<1>9. ASSUME NEW i \in 1..x PROVE v[i] = Blank
  <2>1. i \in 1..Len(u) /\ i \in 1..Len(a)
    BY <1>1, <1>5, <1>8
  <2>2. QED
    BY <1>1, <1>6, <1>7, <2>1
<1>10. ASSUME NEW i \in 1..Len(c) PROVE v[x + i] = c[i]
  <2>1. x + i \in 1..Len(u) /\ x + i = Len(a) + i
    BY <1>1, <1>5, <1>8
  <2>2. QED
    BY <1>6, <1>7, <2>1
<1>11. ASSUME NEW i \in 1..y PROVE v[x + Len(c) + i] = Blank
  <2>1. i \in 1..Len(b)
    BY <1>2
  <2>2. v[Len(u) + i] = b[i] /\ b[i] = Blank
    BY <1>2, <1>7, <2>1
  <2>3. QED
    BY <1>8, <2>2
<1>12. QED
  BY <1>7, <1>8, <1>9, <1>10, <1>11 DEF Padded

LEMMA PaddedIs ==
  ASSUME NEW v \in Seq(Typed), NEW x, NEW y, NEW c \in Seq(Typed), Padded(v, x, c, y)
  PROVE  v = Spaces(x) \o c \o Spaces(y)
<1>1. PICK t : t = Spaces(x) \o c \o Spaces(y)
  OBVIOUS
<1>2. x \in Nat /\ y \in Nat /\ Len(c) \in Nat
  BY LenProperties DEF Padded
<1>3. t \in Seq(Typed) /\ Padded(t, x, c, y)
  BY <1>1, <1>2, PaddedText
<1>4. Len(v) = Len(t) /\ Len(v) = x + Len(c) + y
  BY <1>3 DEF Padded
<1>5. ASSUME NEW i \in 1..Len(v) PROVE v[i] = t[i]
  <2>1. CASE i \in 1..x
    BY <1>3, <2>1 DEF Padded
  <2>2. CASE i > x /\ i <= x + Len(c)
    <3>1. PICK k \in 1..Len(c) : k = i - x
      BY <1>2, <2>2
    <3>2. i = x + k
      BY <1>2, <3>1
    <3>3. v[x + k] = c[k] /\ t[x + k] = c[k]
      BY <1>3 DEF Padded
    <3>4. QED
      BY <3>2, <3>3
  <2>3. CASE i > x + Len(c)
    <3>1. PICK n \in Nat : n = x + Len(c)
      BY <1>2
    <3>2. PICK k \in 1..y : k = i - n
      <4>1. i <= n + y
        BY <1>4, <3>1
      <4>2. i - n \in 1..y
        BY <1>2, <2>3, <3>1, <4>1
      <4>3. QED
        BY <4>2
    <3>3. i = x + Len(c) + k
      BY <1>2, <3>1, <3>2
    <3>4. v[x + Len(c) + k] = Blank /\ t[x + Len(c) + k] = Blank
      BY <1>3 DEF Padded
    <3>5. QED
      BY <3>3, <3>4
  <2>4. QED
    BY <1>2, <2>1, <2>2, <2>3
<1>6. v = t
  BY <1>3, <1>4, <1>5, SeqEqual
<1>7. QED
  BY <1>1, <1>6

\* The positions of what is not a space.
Marks(v) == {i \in DOMAIN v : v[i] # Blank}

\* What is left of a text that is trimmed: it begins and ends with no space.
Bare(c) == c \in Seq(Typed) /\ Len(c) > 0 /\ c[1] # Blank /\ c[Len(c)] # Blank

LEMMA MarksAre ==
  ASSUME NEW v \in Seq(Typed), NEW x \in Nat, NEW y \in Nat, NEW n \in Nat, n > 0,
         NEW c, Bare(c), n = Len(c), Padded(v, x, c, y)
  PROVE  /\ \A i \in Marks(v) : i \in x + 1..x + n
         /\ x + 1 \in Marks(v) /\ x + n \in Marks(v)
<1>1. PICK l \in Nat : l = x + n + y
  OBVIOUS
<1>2. DOMAIN v = 1..l
  <2>1. DOMAIN v = 1..Len(v)
    BY LenProperties
  <2>2. QED
    BY <1>1, <2>1 DEF Padded
<1>3. \A i \in 1..x : v[i] = Blank
  BY DEF Padded
<1>4. \A i \in 1..n : v[x + i] = c[i]
  BY DEF Padded
<1>5. \A i \in 1..y : v[(x + n) + i] = Blank
  BY DEF Padded
<1>6. ASSUME NEW i \in Marks(v) PROVE i \in x + 1..x + n
  <2>1. i \in 1..l /\ v[i] # Blank
    BY <1>2 DEF Marks
  <2>2. ~ (i \in 1..x)
    BY <1>3, <2>1
  <2>3. ASSUME i > x + n PROVE FALSE
    <3>1. PICK k : k = i - (x + n)
      OBVIOUS
    <3>2. k \in 1..y /\ (x + n) + k = i
      BY <1>1, <2>1, <2>3, <3>1
    <3>3. v[(x + n) + k] = Blank
      BY <1>5, <3>2
    <3>4. QED
      BY <2>1, <3>2, <3>3
  <2>4. QED
    BY <2>1, <2>2, <2>3
<1>7. x + 1 \in Marks(v)
  <2>1. 1 \in 1..n /\ x + 1 \in 1..l
    BY <1>1
  <2>2. v[x + 1] = c[1]
    BY <1>4, <2>1
  <2>3. v[x + 1] # Blank
    BY <2>2 DEF Bare
  <2>4. QED
    BY <1>2, <2>1, <2>3 DEF Marks
<1>8. x + n \in Marks(v)
  <2>1. n \in 1..n /\ x + n \in 1..l
    BY <1>1
  <2>2. v[x + n] = c[n]
    BY <1>4, <2>1
  <2>3. v[x + n] # Blank
    BY <2>2 DEF Bare
  <2>4. QED
    BY <1>2, <2>1, <2>3 DEF Marks
<1>9. QED
  BY <1>6, <1>7, <1>8

LEMMA SliceIs ==
  ASSUME NEW v \in Seq(Typed), NEW a \in 1..Len(v), NEW b \in a..Len(v),
         NEW s, s = SubSeq(v, a, b)
  PROVE  s \in Seq(Typed) /\ Len(s) = b - a + 1 /\ \A i \in 1..b - a + 1 : s[i] = v[a + i - 1]
<1>1. Len(v) \in Nat
  BY LenProperties
<1>2. a \in Int /\ b \in Int /\ a <= b /\ \A i \in a..b : i \in 1..Len(v)
  BY <1>1
<1>3. \A i \in a..b : v[i] \in Typed
  BY <1>2, ElementOfSeq
<1>4. s \in Seq(Typed) /\ Len(s) = IF a <= b THEN b - a + 1 ELSE 0
  BY <1>2, <1>3, SubSeqProperties
<1>5. \A i \in 1..b - a + 1 : s[i] = v[a + i - 1]
  BY <1>2, <1>3, SubSeqProperties
<1>6. QED
  BY <1>2, <1>4, <1>5

LEMMA TrimShape ==
  ASSUME NEW v
  PROVE  Config!Trim(v) = IF Marks(v) = {} THEN <<>> ELSE SubSeq(v, Min(Marks(v)), Max(Marks(v)))
<1>1. \A S : Config!Min(S) = Min(S) /\ Config!Max(S) = Max(S)
  BY Zenon DEF Config!Min, Min, Config!Max, Max
<1>2. QED
  BY <1>1, Zenon DEF Config!Trim, Marks, Blank

LEMMA TrimIs ==
  ASSUME NEW v \in Seq(Typed), NEW x, NEW y, NEW c, Bare(c), Padded(v, x, c, y)
  PROVE  Config!Trim(v) = c
<1>1. PICK n \in Nat : n = Len(c) /\ n > 0
  BY LenProperties DEF Bare
<1>2. x \in Nat /\ y \in Nat
  BY DEF Padded
<1>3. PICK M : M = Marks(v)
  OBVIOUS
<1>4. \A i \in M : i \in x + 1..x + n
  BY <1>1, <1>2, <1>3, MarksAre
<1>5. x + 1 \in M /\ x + n \in M
  BY <1>1, <1>2, <1>3, MarksAre
<1>6. M \in SUBSET (0..x + n) /\ M \in SUBSET Nat /\ M # {} /\ x + n \in Nat
  BY <1>1, <1>2, <1>4, <1>5
<1>7. Min(M) = x + 1
  <2>1. PICK a : a = Min(M)
    OBVIOUS
  <2>2. a \in M /\ \A k \in M : a <= k
    BY <1>6, <2>1, MinIs
  <2>3. a <= x + 1 /\ a \in x + 1..x + n
    BY <1>4, <1>5, <2>2
  <2>4. a = x + 1
    BY <1>1, <1>2, <2>3
  <2>5. QED
    BY <2>1, <2>4
<1>8. Max(M) = x + n
  <2>1. PICK a : a = Max(M)
    OBVIOUS
  <2>2. a \in M /\ \A k \in M : a >= k
    BY <1>6, <2>1, MaxIs
  <2>3. a >= x + n /\ a \in x + 1..x + n
    BY <1>4, <1>5, <2>2
  <2>4. a = x + n
    BY <1>1, <1>2, <2>3
  <2>5. QED
    BY <2>1, <2>4
<1>9. PICK a : a = x + 1
  OBVIOUS
<1>10. PICK b : b = x + n
  OBVIOUS
<1>11. PICK s : s = SubSeq(v, a, b)
  OBVIOUS
<1>12. Len(v) = x + Len(c) + y
  BY DEF Padded
<1>13. a \in 1..Len(v) /\ b \in a..Len(v) /\ b - a + 1 = n /\ \A i \in 1..n : a + i - 1 = x + i
  BY <1>1, <1>2, <1>9, <1>10, <1>12
<1>14. s \in Seq(Typed) /\ Len(s) = n /\ \A i \in 1..n : s[i] = v[a + i - 1]
  BY <1>11, <1>13, SliceIs
<1>15. ASSUME NEW i \in 1..Len(s) PROVE s[i] = c[i]
  <2>1. i \in 1..Len(c) /\ i \in 1..n
    BY <1>1, <1>14
  <2>2. v[x + i] = c[i]
    BY <2>1 DEF Padded
  <2>3. s[i] = v[x + i]
    BY <1>13, <1>14, <2>1
  <2>4. QED
    BY <2>2, <2>3
<1>16. s = c
  <2>1. Len(s) = Len(c) /\ c \in Seq(Typed)
    BY <1>1, <1>14 DEF Bare
  <2>2. QED
    BY <1>14, <1>15, <2>1, SeqEqual
<1>17. Config!Trim(v) = SubSeq(v, a, b)
  BY <1>3, <1>6, <1>7, <1>8, <1>9, <1>10, TrimShape
<1>18. QED
  BY <1>11, <1>16, <1>17

LEMMA Trimmed ==
  ASSUME NEW v \in Seq(Typed), NEW s, s = Config!Trim(v), s # <<>>
  PROVE  s \in Seq(Typed) /\ \E x, y \in 0..Len(v) : Padded(v, x, s, y)
<1>1. PICK n \in Nat : n = Len(v) /\ DOMAIN v = 1..n
  BY LenProperties
<1>2. PICK M : M = Marks(v)
  OBVIOUS
<1>3. \A i : i \in M <=> i \in 1..n /\ v[i] # Blank
  BY <1>1, <1>2 DEF Marks
<1>4. Config!Trim(v) = IF M = {} THEN <<>> ELSE SubSeq(v, Min(M), Max(M))
  BY <1>2, TrimShape
<1>5. M # {} /\ s = SubSeq(v, Min(M), Max(M))
  BY <1>4
<1>6. PICK a : a = Min(M)
  OBVIOUS
<1>7. PICK b : b = Max(M)
  OBVIOUS
<1>8. a \in 1..n /\ \A i \in M : a <= i
  <2>1. M \in SUBSET Nat
    BY <1>2 DEF Marks
  <2>2. a \in M /\ \A i \in M : a <= i
    BY <1>5, <1>6, <2>1, MinIs
  <2>3. QED
    BY <1>3, <2>2
<1>9. b \in 1..n /\ b \in M /\ \A i \in M : b >= i
  <2>1. M \in SUBSET (0..n)
    BY <1>3
  <2>2. b \in M /\ \A i \in M : b >= i
    BY <1>5, <1>7, <2>1, MaxIs
  <2>3. QED
    BY <1>3, <2>2
<1>10. a <= b /\ a \in Nat /\ b \in Nat
  BY <1>8, <1>9
<1>11. s = SubSeq(v, a, b)
  BY <1>5, <1>6, <1>7
<1>12. s \in Seq(Typed) /\ Len(s) = b - a + 1 /\ \A i \in 1..b - a + 1 : s[i] = v[a + i - 1]
  <2>1. a \in 1..Len(v) /\ b \in a..Len(v)
    BY <1>1, <1>8, <1>9, <1>10
  <2>2. QED
    BY <1>11, <2>1, SliceIs
<1>13. PICK x \in Nat : x = a - 1
  BY <1>8
<1>14. PICK y \in Nat : y = n - b
  BY <1>9
<1>15. x + Len(s) = b /\ Len(v) = x + Len(s) + y
  BY <1>1, <1>10, <1>12, <1>13, <1>14
<1>16. ASSUME NEW i \in 1..x PROVE v[i] = Blank
  <2>1. i \in 1..n /\ ~ (a <= i)
    BY <1>8, <1>13
  <2>2. QED
    BY <1>3, <1>8, <2>1
<1>17. ASSUME NEW i \in 1..Len(s) PROVE v[x + i] = s[i]
  <2>1. i \in 1..b - a + 1 /\ a + i - 1 = x + i
    BY <1>10, <1>12, <1>13
  <2>2. QED
    BY <1>12, <2>1
<1>18. ASSUME NEW i \in 1..y PROVE v[x + Len(s) + i] = Blank
  <2>1. b + i \in 1..n /\ ~ (b >= b + i)
    BY <1>9, <1>14
  <2>2. v[b + i] = Blank
    BY <1>3, <1>9, <2>1
  <2>3. QED
    BY <1>15, <2>2
<1>19. x \in 0..Len(v) /\ y \in 0..Len(v)
  BY <1>1, <1>8, <1>9, <1>13, <1>14
<1>20. Padded(v, x, s, y)
  BY <1>15, <1>16, <1>17, <1>18 DEF Padded
<1>21. QED
  BY <1>12, <1>19, <1>20

\* A number and a unit, and how many seconds one of it is.
Units == {<<>>, <<"s">>, <<"m">>, <<"h">>}

UnitSeconds(u) == IF u = <<"m">> THEN 60 ELSE IF u = <<"h">> THEN 3600 ELSE 1

\* ParseDuration of what is left of a text that is trimmed.
Meaning(s) ==
  LET hasUnit == s # <<>> /\ Last(s) \in DOMAIN Config!Seconds
      num     == IF hasUnit THEN Front(s) ELSE s
  IN  IF Len(num) # 1 \/ num[1] \notin DOMAIN Numbers THEN None
      ELSE (Numbers[num[1]] * Config!Seconds[IF hasUnit THEN Last(s) ELSE "s"]) % Width

LEMMA MeaningIs == ASSUME NEW v PROVE Config!ParseDuration(v) = Meaning(Config!Trim(v))
<1>1. \A s : Config!Last(s) = Last(s) /\ Config!Front(s) = Front(s)
  BY Zenon DEF Config!Last, Last, Config!Front, Front
<1>2. QED
  BY <1>1, Zenon DEF Config!ParseDuration, Meaning

LEMMA SecondsAre ==
  /\ DOMAIN Config!Seconds = {"s", "m", "h"}
  /\ Config!Seconds["s"] = 1 /\ Config!Seconds["m"] = 60 /\ Config!Seconds["h"] = 3600
BY DEF Config!Seconds

LEMMA NumbersAre ==
  ASSUME NEW w \in DOMAIN Numbers
  PROVE  w \in Typed /\ w # Blank /\ w \notin {"s", "m", "h"}
BY MCProtoAssumption, Zenon DEF Typed, Blank

LEMMA UnitsAre == ASSUME NEW x \in {"s", "m", "h"} PROVE x \in Typed /\ x # Blank
<1>1. x \in Typed
  BY Zenon DEF Typed
<1>2. x # Blank
  <2>1. "s" # " " /\ "m" # " " /\ "h" # " "
    BY Zenon
  <2>2. QED
    BY <2>1, Zenon DEF Blank
<1>3. QED
  BY <1>1, <1>2

LEMMA Associated ==
  ASSUME NEW S, NEW a \in Seq(S), NEW b \in Seq(S), NEW c \in Seq(S)
  PROVE  a \o (b \o c) = (a \o b) \o c
<1>1. (a \o b) \o c = a \o (b \o c)
  BY ConcatAssociative
<1>2. QED
  BY <1>1

LEMMA Pairs ==
  /\ \A w, x \in Typed : <<w>> \o <<x>> = <<w, x>>
  /\ \A w \in Typed : /\ <<w>> \in Seq(Typed) /\ Len(<<w>>) = 1
                       /\ <<w>>[1] = w /\ <<w>> # <<>>
  /\ \A w, x \in Typed : /\ <<w, x>> \in Seq(Typed) /\ Len(<<w, x>>) = 2
                          /\ <<w, x>>[1] = w /\ <<w, x>>[2] = x /\ <<w, x>> # <<>>
<1>1. ASSUME NEW w \in Typed
      PROVE  <<w>> \in Seq(Typed) /\ Len(<<w>>) = 1 /\ <<w>>[1] = w /\ <<w>> # <<>>
  OBVIOUS
<1>2. ASSUME NEW w \in Typed, NEW x \in Typed
      PROVE  /\ <<w, x>> \in Seq(Typed) /\ Len(<<w, x>>) = 2
             /\ <<w, x>>[1] = w /\ <<w, x>>[2] = x /\ <<w, x>> # <<>>
  OBVIOUS
<1>3. ASSUME NEW w \in Typed, NEW x \in Typed PROVE <<w>> \o <<x>> = <<w, x>>
  <2>1. PICK a \in Seq(Typed) : a = <<w>> /\ Len(a) = 1 /\ a[1] = w
    BY <1>1
  <2>2. PICK b \in Seq(Typed) : b = <<x>> /\ Len(b) = 1 /\ b[1] = x
    BY <1>1
  <2>3. PICK t \in Seq(Typed) : t = <<w, x>> /\ Len(t) = 2 /\ t[1] = w /\ t[2] = x
    <3>1. PICK t : t = <<w, x>>
      OBVIOUS
    <3>2. t \in Seq(Typed) /\ Len(t) = 2 /\ t[1] = w /\ t[2] = x
      BY <1>2, <3>1
    <3>3. QED
      BY <3>1, <3>2
  <2>4. PICK u : u = a \o b
    OBVIOUS
  <2>5. /\ u \in Seq(Typed) /\ Len(u) = Len(a) + Len(b)
        /\ \A i \in 1..Len(a) : u[i] = a[i]
        /\ \A i \in 1..Len(b) : u[Len(a) + i] = b[i]
    <3>1. a \in Seq(Typed) /\ b \in Seq(Typed)
      OBVIOUS
    <3>2. QED
      BY ONLY <2>4, <3>1, Joined
  <2>6. u[1] = w /\ u[2] = x /\ Len(u) = 2
    <3>1. 1 \in 1..Len(a) /\ 1 \in 1..Len(b) /\ Len(a) + 1 = 2
      BY <2>1, <2>2
    <3>2. QED
      BY <2>1, <2>2, <2>5, <3>1
  <2>7. \A i \in 1..Len(u) : u[i] = t[i]
    BY <2>3, <2>6
  <2>8. u = t
    BY <2>3, <2>5, <2>6, <2>7, SeqEqual
  <2>9. QED
    BY <2>1, <2>2, <2>3, <2>4, <2>8
<1>4. QED
  BY ONLY <1>1, <1>2, <1>3

LEMMA MeaningOf ==
  ASSUME NEW w \in DOMAIN Numbers, NEW u \in Units, NEW s, s = <<w>> \o u
  PROVE  Bare(s) /\ Meaning(s) = (Numbers[w] * UnitSeconds(u)) % Width
<1>1. w \in Typed /\ w # Blank /\ w \notin {"s", "m", "h"}
  BY NumbersAre
<1>2. CASE u = <<>>
  <2>1. s = <<w>>
    BY <1>1, <1>2
  <2>2. Len(s) = 1 /\ s[1] = w /\ Last(s) = w /\ s # <<>> /\ s \in Seq(Typed)
    BY ONLY <1>1, <2>1, Pairs DEF Last
  <2>3. Bare(s)
    BY <1>1, <2>2 DEF Bare
  <2>4. ~ (s # <<>> /\ Last(s) \in DOMAIN Config!Seconds)
    BY <1>1, <2>2, SecondsAre
  <2>5. Meaning(s) = (Numbers[w] * Config!Seconds["s"]) % Width
    BY ONLY <2>2, <2>4, w \in DOMAIN Numbers DEF Meaning
  <2>6. UnitSeconds(u) = 1
    BY <1>2 DEF UnitSeconds
  <2>7. QED
    BY <2>3, <2>5, <2>6, SecondsAre
<1>3. ASSUME NEW x \in {"s", "m", "h"}, u = <<x>>
      PROVE  Bare(s) /\ Meaning(s) = (Numbers[w] * Config!Seconds[x]) % Width
  <2>1. x \in Typed /\ x # Blank
    BY UnitsAre
  <2>2. s = <<w, x>>
    BY ONLY s = <<w>> \o u, <1>1, <1>3, <2>1, Pairs
  <2>3. Len(s) = 2 /\ s[1] = w /\ s[2] = x /\ s # <<>> /\ s \in Seq(Typed)
    BY ONLY <1>1, <2>1, <2>2, Pairs
  <2>4. Last(s) = x
    BY <2>3 DEF Last
  <2>5. Bare(s)
    BY <1>1, <2>1, <2>3 DEF Bare
  <2>6. PICK f : f = Front(s)
    OBVIOUS
  <2>7. Len(f) = 1 /\ f[1] = w
    <3>1. f = SubSeq(s, 1, 1)
      BY <2>3, <2>6 DEF Front
    <3>2. 1 \in 1..Len(s) /\ 1 - 1 + 1 = 1 /\ 1 + 1 - 1 = 1 /\ 1 \in 1..1
      BY <2>3
    <3>3. QED
      BY <2>3, <3>1, <3>2, SliceIs
  <2>8. s # <<>> /\ Last(s) \in DOMAIN Config!Seconds
    BY <2>3, <2>4, SecondsAre
  <2>9. QED
    BY ONLY <2>4, <2>5, <2>6, <2>7, <2>8, w \in DOMAIN Numbers DEF Meaning
<1>4. CASE u # <<>>
  <2>1. PICK x \in {"s", "m", "h"} : u = <<x>>
    BY <1>4 DEF Units
  <2>2. UnitSeconds(u) = Config!Seconds[x]
    <3>1. CASE x = "s"
      BY <2>1, <3>1, SecondsAre DEF UnitSeconds
    <3>2. CASE x = "m"
      BY <2>1, <3>2, SecondsAre DEF UnitSeconds
    <3>3. CASE x = "h"
      BY <2>1, <3>3, SecondsAre DEF UnitSeconds
    <3>4. QED
      BY <3>1, <3>2, <3>3
  <2>3. QED
    BY <1>3, <2>1, <2>2
<1>5. QED
  BY <1>2, <1>4

LEMMA MeaningNone ==
  ASSUME NEW s \in Seq(Typed), \A w \in DOMAIN Numbers, u \in Units : s # <<w>> \o u
  PROVE  Meaning(s) = None
<1>1. PICK n \in Nat : n = Len(s)
  BY LenProperties
<1>2. CASE s # <<>> /\ Last(s) \in DOMAIN Config!Seconds
  <2>1. PICK f : f = Front(s)
    OBVIOUS
  <2>2. ASSUME Len(f) = 1, f[1] \in DOMAIN Numbers PROVE FALSE
    <3>1. n > 0
      BY <1>1, <1>2, EmptySeq
    <3>2. n # 1
      <4>1. SUFFICES ASSUME n = 1 PROVE FALSE
        OBVIOUS
      <4>2. f = <<>>
        BY <1>1, <2>1, <4>1 DEF Front
      <4>3. QED
        BY <2>2, <4>2
    <3>3. PICK k \in Nat : k = n - 1 /\ k \in 1..n /\ k <= n
      BY <3>1, <3>2
    <3>4. f = SubSeq(s, 1, k)
      BY <1>1, <2>1, <3>3 DEF Front
    <3>5. Len(f) = k - 1 + 1 /\ \A i \in 1..k - 1 + 1 : f[i] = s[1 + i - 1]
      <4>1. 1 \in 1..Len(s) /\ k \in 1..Len(s)
        BY <1>1, <3>3
      <4>2. QED
        BY <3>4, <4>1, SliceIs
    <3>6. k = 1 /\ n = 2
      <4>1. k - 1 + 1 = 1
        BY <2>2, <3>5
      <4>2. QED
        BY <3>3, <4>1
    <3>7. f[1] = s[1]
      BY <3>5, <3>6
    <3>8. s = <<s[1], s[2]>>
      <4>1. Len(s) = 2
        BY <1>1, <3>6
      <4>2. s[1] \in Typed /\ s[2] \in Typed
        BY <4>1, ElementOfSeq
      <4>3. PICK t : t = <<s[1], s[2]>>
        OBVIOUS
      <4>4. t \in Seq(Typed) /\ Len(t) = 2 /\ t[1] = s[1] /\ t[2] = s[2]
        BY ONLY <4>2, <4>3, Pairs
      <4>5. \A i \in 1..Len(s) : s[i] = t[i]
        BY <4>1, <4>4
      <4>6. s = t
        BY <4>1, <4>4, <4>5, SeqEqual
      <4>7. QED
        BY <4>3, <4>6
    <3>9. PICK w \in DOMAIN Numbers : w = s[1]
      BY <2>2, <3>7
    <3>10. PICK x \in {"s", "m", "h"} : x = s[2]
      BY <1>1, <1>2, <3>6, SecondsAre DEF Last
    <3>11. s = <<w>> \o <<x>>
      BY <3>8, <3>9, <3>10
    <3>12. <<x>> \in Units
      BY DEF Units
    <3>13. QED
      BY <3>11, <3>12
  <2>3. QED
    BY ONLY <1>2, <2>1, <2>2 DEF Meaning
<1>3. CASE ~ (s # <<>> /\ Last(s) \in DOMAIN Config!Seconds)
  <2>1. ASSUME Len(s) = 1, s[1] \in DOMAIN Numbers PROVE FALSE
    <3>1. s = <<s[1]>>
      BY <2>1
    <3>2. PICK w \in DOMAIN Numbers : w = s[1]
      BY <2>1
    <3>3. s = <<w>> \o <<>> /\ <<>> \in Units
      BY <3>1, <3>2 DEF Units
    <3>4. QED
      BY <3>3
  <2>2. QED
    BY ONLY <1>3, <2>1 DEF Meaning
<1>4. QED
  BY <1>2, <1>3

LEMMA Wraps ==
  ASSUME NEW n \in Nat, NEW width \in Nat \ {0}
  PROVE  /\ n % width <= n /\ (n - (n % width)) % width = 0
         /\ n < width => n % width = n
<1>1. PICK q \in Nat : q = n \div width
  BY DivMod
<1>2. PICK r \in 0..width - 1 : r = n % width
  BY DivMod
<1>3. q * width + r = n
  BY <1>1, <1>2, DivMod
<1>4. q * width \in Nat
  OBVIOUS
<1>5. n - r = q * width /\ r <= n
  BY <1>3, <1>4
<1>6. (q * width) % width = 0
  OBVIOUS
<1>7. n < width => n % width = n
  BY DivMod
<1>8. QED
  BY <1>2, <1>5, <1>6, <1>7

\* What a text may mean as a duration, and that it is parsed so.
Meant ==
  {m \in (DOMAIN Numbers) \X Units :
     \E before, after \in 0..MaxDuration :
       value = Spaces(before) \o <<m[1]>> \o m[2] \o Spaces(after)}

Exactly(m) ==
  LET seconds == CASE m[2] = <<"m">> -> 60 * Numbers[m[1]]
                   [] m[2] = <<"h">> -> 60 * 60 * Numbers[m[1]]
                   [] OTHER          -> Numbers[m[1]]
      parsed  == Config!ParseDuration(value)
  IN  parsed <= seconds /\ (seconds - parsed) % Width = 0
        /\ (seconds < Width => parsed = seconds)

LEMMA ExactShape ==
  ASSUME IF Meant = {} THEN Config!ParseDuration(value) = None ELSE \A m \in Meant : Exactly(m)
  PROVE  DurationExact
BY Zenon DEF DurationExact, Meant, Exactly, Units, Spaces, Blank

LEMMA MeantIs ==
  ASSUME value \in Seq(Typed), Len(value) <= MaxDuration, MaxDuration \in Nat
  PROVE  /\ \A w \in DOMAIN Numbers, u \in Units : \A x, y \in 0..Len(value) :
              Padded(value, x, <<w>> \o u, y) => <<w, u>> \in Meant
         /\ \A m \in Meant :
              /\ m[1] \in DOMAIN Numbers /\ m[2] \in Units
              /\ \E x, y \in Nat : Padded(value, x, <<m[1]>> \o m[2], y)
<1>1. ASSUME NEW w \in DOMAIN Numbers, NEW u \in Units
      PROVE  /\ <<w>> \o u \in Seq(Typed)
             /\ \A x, y \in Nat : Spaces(x) \o (<<w>> \o u) \o Spaces(y)
                                  = Spaces(x) \o <<w>> \o u \o Spaces(y)
  <2>1. <<w>> \in Seq(Typed)
    BY NumbersAre, Pairs
  <2>2. u \in Seq(Typed)
    <3>1. CASE u = <<>>
      BY <3>1
    <3>2. ASSUME NEW x \in {"s", "m", "h"}, u = <<x>> PROVE u \in Seq(Typed)
      BY <3>2, UnitsAre, Pairs
    <3>3. QED
      BY <3>1, <3>2 DEF Units
  <2>3. <<w>> \o u \in Seq(Typed)
    BY <2>1, <2>2, ConcatProperties
  <2>4. ASSUME NEW x \in Nat, NEW y \in Nat
        PROVE  Spaces(x) \o (<<w>> \o u) = (Spaces(x) \o <<w>>) \o u
    <3>1. PICK a \in Seq(Typed) : a = Spaces(x)
      BY SpacesAre
    <3>2. PICK b \in Seq(Typed) : b = <<w>>
      BY <2>1
    <3>3. a \o (b \o u) = (a \o b) \o u
      BY <2>2, Associated
    <3>4. QED
      BY ONLY <3>1, <3>2, <3>3
  <2>5. QED
    BY <2>3, <2>4
<1>2. ASSUME NEW w \in DOMAIN Numbers, NEW u \in Units,
             NEW x \in 0..Len(value), NEW y \in 0..Len(value), Padded(value, x, <<w>> \o u, y)
      PROVE  <<w, u>> \in Meant
  <2>1. PICK c : c = <<w>> \o u
    OBVIOUS
  <2>2. c \in Seq(Typed) /\ Padded(value, x, c, y)
    BY <1>1, <1>2, <2>1
  <2>3. value = Spaces(x) \o c \o Spaces(y)
    BY <2>2, PaddedIs
  <2>4. x \in Nat /\ y \in Nat /\ x \in 0..MaxDuration /\ y \in 0..MaxDuration
    <3>1. Len(value) \in Nat
      BY LenProperties
    <3>2. QED
      BY <3>1
  <2>5. value = Spaces(x) \o <<w>> \o u \o Spaces(y)
    BY <1>1, <2>1, <2>3, <2>4
  <2>6. PICK m : m = <<w, u>>
    OBVIOUS
  <2>7. m \in (DOMAIN Numbers) \X Units /\ m[1] = w /\ m[2] = u
    BY <2>6
  <2>8. m \in Meant
    BY <2>4, <2>5, <2>7 DEF Meant
  <2>9. QED
    BY <2>6, <2>8
<1>3. ASSUME NEW m \in Meant
      PROVE  /\ m[1] \in DOMAIN Numbers /\ m[2] \in Units
             /\ \E x, y \in Nat : Padded(value, x, <<m[1]>> \o m[2], y)
  <2>1. m \in (DOMAIN Numbers) \X Units
    BY DEF Meant
  <2>2. PICK x \in 0..MaxDuration, y \in 0..MaxDuration :
          value = Spaces(x) \o <<m[1]>> \o m[2] \o Spaces(y)
    BY DEF Meant
  <2>3. PICK w \in DOMAIN Numbers : w = m[1]
    BY <2>1
  <2>4. PICK u \in Units : u = m[2]
    BY <2>1
  <2>5. x \in Nat /\ y \in Nat
    OBVIOUS
  <2>6. PICK c : c = <<w>> \o u
    OBVIOUS
  <2>7. c \in Seq(Typed) /\ value = Spaces(x) \o c \o Spaces(y)
    <3>1. /\ <<w>> \o u \in Seq(Typed)
          /\ Spaces(x) \o (<<w>> \o u) \o Spaces(y) = Spaces(x) \o <<w>> \o u \o Spaces(y)
      BY ONLY <1>1, <2>5, w \in DOMAIN Numbers, u \in Units
    <3>2. value = Spaces(x) \o <<w>> \o u \o Spaces(y)
      BY ONLY <2>2, <2>3, <2>4
    <3>3. QED
      BY ONLY <2>6, <3>1, <3>2
  <2>8. Padded(value, x, c, y)
    BY <2>5, <2>7, PaddedText
  <2>9. QED
    BY <2>3, <2>4, <2>5, <2>6, <2>8
<1>4. QED
  BY <1>2, <1>3

LEMMA DurationIs ==
  ASSUME value \in Seq(Typed), Len(value) <= MaxDuration
  PROVE  DurationExact
<1>1. MaxDuration \in Nat /\ Width \in Nat \ {0}
  BY MCProtoAssumption, Zenon
<1>2. PICK s : s = Config!Trim(value)
  OBVIOUS
<1>3. Config!ParseDuration(value) = Meaning(s)
  BY <1>2, MeaningIs
<1>4. ASSUME Meant = {} PROVE Config!ParseDuration(value) = None
  <2>1. CASE s = <<>>
    <3>1. Meaning(s) = None
      <4>1. Len(s) = 0
        BY <2>1
      <4>2. QED
        BY ONLY <2>1, <4>1 DEF Meaning
    <3>2. QED
      BY <1>3, <3>1
  <2>2. CASE s # <<>>
    <3>1. s \in Seq(Typed) /\ \E x, y \in 0..Len(value) : Padded(value, x, s, y)
      BY <1>2, <2>2, Trimmed
    <3>2. ASSUME NEW w \in DOMAIN Numbers, NEW u \in Units, s = <<w>> \o u PROVE FALSE
      <4>1. PICK x \in 0..Len(value), y \in 0..Len(value) : Padded(value, x, <<w>> \o u, y)
        BY <3>1, <3>2
      <4>2. <<w, u>> \in Meant
        BY <1>1, <4>1, MeantIs
      <4>3. QED
        BY <1>4, <4>2
    <3>3. Meaning(s) = None
      BY <3>1, <3>2, MeaningNone
    <3>4. QED
      BY <1>3, <3>3
  <2>3. QED
    BY <2>1, <2>2
<1>5. ASSUME NEW m \in Meant PROVE Exactly(m)
  <2>1. PICK w \in DOMAIN Numbers : w = m[1]
    BY <1>1, MeantIs
  <2>2. PICK u \in Units : u = m[2]
    BY <1>1, MeantIs
  <2>3. PICK c : c = <<w>> \o u
    OBVIOUS
  <2>4. PICK x \in Nat, y \in Nat : Padded(value, x, c, y)
    BY <1>1, <2>1, <2>2, <2>3, MeantIs
  <2>5. Bare(c) /\ Meaning(c) = (Numbers[w] * UnitSeconds(u)) % Width
    BY <2>3, MeaningOf
  <2>6. s = c
    BY <1>2, <2>4, <2>5, TrimIs
  <2>7. PICK number \in Nat : number = Numbers[w]
    <3>1. Numbers[w] \in 0..Width - 1
      BY MCProtoAssumption, Zenon
    <3>2. Numbers[w] \in Nat
      BY <1>1, <3>1
    <3>3. QED
      BY <3>2
  <2>8. PICK seconds : seconds = CASE u = <<"m">> -> 60 * number
                                   [] u = <<"h">> -> 60 * 60 * number
                                   [] OTHER       -> number
    OBVIOUS
  <2>9. seconds = number * UnitSeconds(u) /\ seconds \in Nat
    <3>1. <<"m">> # <<"h">>
      <4>1. <<"m">>[1] # <<"h">>[1]
        OBVIOUS
      <4>2. QED
        BY <4>1
    <3>2. CASE u = <<"m">>
      <4>1. seconds = 60 * number /\ UnitSeconds(u) = 60
        BY <2>8, <3>1, <3>2 DEF UnitSeconds
      <4>2. QED
        BY <4>1
    <3>3. CASE u = <<"h">>
      <4>1. seconds = 60 * 60 * number /\ UnitSeconds(u) = 3600
        BY <2>8, <3>1, <3>3 DEF UnitSeconds
      <4>2. QED
        BY <4>1
    <3>4. CASE u # <<"m">> /\ u # <<"h">>
      <4>1. seconds = number /\ UnitSeconds(u) = 1
        BY <2>8, <3>4 DEF UnitSeconds
      <4>2. QED
        BY <4>1
    <3>5. QED
      BY <3>2, <3>3, <3>4
  <2>10. PICK parsed : parsed = Config!ParseDuration(value)
    OBVIOUS
  <2>11. parsed = seconds % Width
    BY <1>3, <2>5, <2>6, <2>7, <2>9, <2>10
  <2>12. /\ parsed <= seconds /\ (seconds - parsed) % Width = 0
         /\ seconds < Width => parsed = seconds
    BY <1>1, <2>9, <2>11, Wraps
  <2>13. QED
    BY ONLY <2>1, <2>2, <2>7, <2>8, <2>10, <2>12 DEF Exactly
<1>6. QED
  BY <1>4, <1>5, ExactShape

\* For any words that are numbers, a duration that parses is a number and perhaps one unit,
\* with spaces around it only, and it means so many seconds as far as the width goes.
THEOREM DurationsAreExact == Spec => []DurationExact
<1>1. TextInv => DurationExact
  <2>1. TextInv /\ ~ IsReference => value \in Seq(Typed) /\ Len(value) <= MaxDuration
    BY Zenon DEF TextInv, Typed
  <2>2. IsReference => DurationExact
    BY Zenon DEF DurationExact
  <2>3. QED
    BY <2>1, <2>2, DurationIs
<1>2. QED
  BY <1>1, TextInvariance, PTL

-----------------------------------------------------------------------------
(* The entries of PYTHONPATH and JAVA_TOOL_OPTIONS.                           *)

IsUsers(l, e) == (IF l = "python" THEN e \o <<Marker[l]>> ELSE e) \notin Files
Places(l, s)  == {i \in DOMAIN s : IsUsers(l, s[i])}
UpTo(S, i)    == {j \in S : j <= i}

LEMMA UsersAre ==
  ASSUME NEW l, NEW s, s # Unset
  PROVE  Users(l, s) = {<<Cardinality(UpTo(Places(l, s), i)), s[i]>> : i \in Places(l, s)}
BY DEF Users, Places, IsUsers, UpTo

LEMMA ShiftKeepsCardinality ==
  ASSUME NEW n \in Nat, NEW S \in SUBSET (1..n)
  PROVE  Cardinality({j + 1 : j \in S}) = Cardinality(S)
<1> DEFINE T == {j + 1 : j \in S}
           f == [j \in S |-> j + 1]
<1>1. IsFiniteSet(S)
  <2>1. IsFiniteSet(1..n)
    BY FS_Interval
  <2>2. QED
    BY <2>1, FS_Subset
<1>2. f \in [S -> T] /\ \A a, b \in S : f[a] = f[b] => a = b
  OBVIOUS
<1>3. \A t \in T : \E j \in S : f[j] = t
  OBVIOUS
<1>4. f \in Bijection(S, T)
  BY <1>2, <1>3, Fun_IsBij
<1>5. ExistsBijection(S, T)
  BY <1>4, Fun_ExistsBij
<1>6. QED
  BY <1>1, <1>5, FS_Bijection

\* A hook in front of the others is none of the user's entries.
LEMMA HookPrepended ==
  ASSUME NEW l, NEW d, ~ IsUsers(l, d),
         NEW n \in Nat, NEW s, s # Unset, DOMAIN s = 1..n,
         NEW t, t # Unset, DOMAIN t = 1..n + 1,
         t[1] = d, \A i \in 1..n : t[i + 1] = s[i]
  PROVE  Users(l, t) = Users(l, s)
<1> DEFINE K == Places(l, s)
           M == Places(l, t)
<1>1. K \in SUBSET (1..n)
  BY DEF Places
<1>2. M = {i + 1 : i \in K}
  <2>1. ASSUME NEW i \in M PROVE \E j \in K : i = j + 1
    <3>1. i \in 1..n + 1 /\ IsUsers(l, t[i])
      BY DEF Places
    <3>2. i # 1
      BY <3>1
    <3>3. PICK j \in 1..n : i = j + 1
      <4>1. i - 1 \in 1..n /\ i = (i - 1) + 1
        BY <3>1, <3>2
      <4>2. QED
        BY <4>1
    <3>4. j \in K
      BY <3>1, <3>3 DEF Places
    <3>5. QED
      BY <3>3, <3>4
  <2>2. ASSUME NEW j \in K PROVE j + 1 \in M
    <3>1. j \in 1..n /\ IsUsers(l, s[j])
      BY DEF Places
    <3>2. j + 1 \in 1..n + 1 /\ t[j + 1] = s[j]
      BY <3>1
    <3>3. QED
      BY <3>1, <3>2 DEF Places
  <2> HIDE DEF K, M
  <2>3. QED
    BY <2>1, <2>2
<1> HIDE DEF K, M
<1>3. ASSUME NEW i \in K
      PROVE  Cardinality(UpTo(M, i + 1)) = Cardinality(UpTo(K, i)) /\ t[i + 1] = s[i]
  <2>1. UpTo(K, i) \in SUBSET (1..n)
    BY <1>1 DEF UpTo
  <2>2. UpTo(M, i + 1) = {j + 1 : j \in UpTo(K, i)}
    <3>1. \A j \in K : j + 1 <= i + 1 <=> j <= i
      BY <1>1
    <3>2. QED
      BY <1>2, <3>1 DEF UpTo
  <2>3. QED
    BY <1>1, <2>1, <2>2, ShiftKeepsCardinality
<1>4. Users(l, s) = {<<Cardinality(UpTo(K, i)), s[i]>> : i \in K}
  BY UsersAre DEF K
<1>5. Users(l, t) = {<<Cardinality(UpTo(M, i)), t[i]>> : i \in M}
  BY UsersAre DEF M
<1> DEFINE g(i) == <<Cardinality(UpTo(K, i)), s[i]>>
           h(i) == <<Cardinality(UpTo(M, i)), t[i]>>
<1>6. \A i \in K : h(i + 1) = g(i)
  BY <1>3
<1>7. Users(l, s) = {g(i) : i \in K} /\ Users(l, t) = {h(i) : i \in M}
  BY <1>4, <1>5
<1> HIDE DEF g, h
<1>8. {h(i) : i \in M} = {g(i) : i \in K}
  BY <1>2, <1>6
<1>9. QED
  BY <1>7, <1>8

\* Nor is one after them.
LEMMA HookAppended ==
  ASSUME NEW l, NEW d, ~ IsUsers(l, d),
         NEW n \in Nat, NEW s, s # Unset, DOMAIN s = 1..n,
         NEW t, t # Unset, DOMAIN t = 1..n + 1,
         t[n + 1] = d, \A i \in 1..n : t[i] = s[i]
  PROVE  Users(l, t) = Users(l, s)
<1>1. Places(l, t) = Places(l, s)
  <2>1. ASSUME NEW i \in Places(l, t) PROVE i \in Places(l, s)
    <3>1. i \in 1..n + 1 /\ IsUsers(l, t[i])
      BY DEF Places
    <3>2. i # n + 1
      BY <3>1
    <3>3. i \in 1..n
      BY <3>1, <3>2
    <3>4. QED
      BY <3>1, <3>3 DEF Places
  <2>2. ASSUME NEW i \in Places(l, s) PROVE i \in Places(l, t)
    <3>1. i \in 1..n /\ IsUsers(l, s[i])
      BY DEF Places
    <3>2. QED
      BY <3>1 DEF Places
  <2>3. QED
    BY <2>1, <2>2
<1>2. \A i \in Places(l, s) : t[i] = s[i]
  BY DEF Places
<1>3. PICK K : K = Places(l, s)
  OBVIOUS
<1>4. Users(l, s) = {<<Cardinality(UpTo(K, i)), s[i]>> : i \in K}
  BY <1>3, UsersAre
<1>5. Users(l, t) = {<<Cardinality(UpTo(K, i)), t[i]>> : i \in K}
  BY <1>1, <1>3, UsersAre
<1>6. QED
  BY <1>2, <1>3, <1>4, <1>5

-----------------------------------------------------------------------------
(* The directories and files that the hooks are taken from.                   *)

LEMMA PathsAre ==
  /\ \A l \in Languages : HookVar[l] \in Range(HookVar) /\ PathVar[l] \in Range(PathVar)
  /\ <<>> \in Seq(Path) /\ \A s : s \in Path \/ s \in Seq(Path) => s # Unset
BY ProgramsAssumption DEF Languages, HookVar, PathVar, Range

LEMMA CandidatesAre ==
  ASSUME NEW dir \in Path, NEW l \in Languages
  PROVE  /\ dir \o <<"envproxy", l>> \in Path
         /\ dir \o <<"..", "share", "envproxy", l>> \in Path
         /\ dir \o <<"..", l>> \in Path
         /\ dir \o <<"..", "..", "support", l>> \in Path
<1>1. l \in Names /\ "envproxy" \in Names /\ "share" \in Names /\ "support" \in Names /\ ".." \in Names
  BY ProgramsAssumption
<1>2. /\ <<"envproxy", l>> \in Seq(Names) /\ <<"..", "share", "envproxy", l>> \in Seq(Names)
      /\ <<"..", l>> \in Seq(Names) /\ <<"..", "..", "support", l>> \in Seq(Names)
  BY <1>1
<1>3. \A a \in Seq(Names) : dir \o a \in Seq(Names)
  BY ConcatProperties DEF Path
<1>4. QED
  BY <1>2, <1>3 DEF Path

LEMMA SupportDirIs ==
  ASSUME NEW e, HasPaths(e), NEW lib \in Files, NEW l \in Languages,
         NEW d, d = FindSupportDir(e, lib, l), d # Unset
  PROVE  d \in Path /\ d \o <<Marker[l]>> \in Files
<1>1. PICK override : override = Value(e, PathVar[l])
  OBVIOUS
<1>2. override # Unset => override \in Path
  BY <1>1 DEF Value, HasPaths
<1>3. PICK dir : dir = Front(lib)
  OBVIOUS
<1>4. dir \in Path
  <2>1. lib \in Seq(Names)
    BY ProgramsAssumption DEF Path
  <2>2. Len(lib) \in Nat /\ \A i \in 1..Len(lib) : lib[i] \in Names
    BY <2>1, LenProperties, ElementOfSeq
  <2>3. SubSeq(lib, 1, Len(lib) - 1) \in Seq(Names)
    <3>1. 1 \in Int /\ Len(lib) - 1 \in Int /\ \A i \in 1..Len(lib) - 1 : lib[i] \in Names
      BY <2>2
    <3>2. QED
      BY <3>1, SubSeqProperties
  <2>4. QED
    BY <1>3, <2>3 DEF Front, Path
<1>5. PICK c : c = <<dir \o <<"envproxy", l>>, dir \o <<"..", "share", "envproxy", l>>,
                     dir \o <<"..", l>>, dir \o <<"..", "..", "support", l>>>>
  OBVIOUS
<1>6. DOMAIN c = 1..4 /\ \A i \in 1..4 : c[i] \in Path
  <2>1. PICK c1 \in Path, c2 \in Path, c3 \in Path, c4 \in Path :
          c = <<c1, c2, c3, c4>>
    BY <1>4, <1>5, CandidatesAre
  <2>2. QED
    BY <2>1
<1>7. PICK found : found = {i \in DOMAIN c : c[i] \o <<Marker[l]>> \in Files}
  OBVIOUS
<1>8. FindSupportDir(e, lib, l)
        = IF override # Unset /\ override \o <<Marker[l]>> \in Files THEN override
          ELSE IF found = {} THEN Unset ELSE c[Min(found)]
  BY ONLY <1>1, <1>3, <1>5, <1>7 DEF FindSupportDir, First
<1>9. CASE found = {}
  BY <1>2, <1>8, <1>9
<1>10. CASE found # {}
  <2>1. found \in SUBSET Nat
    BY <1>6, <1>7
  <2>2. PICK m : m = Min(found)
    OBVIOUS
  <2>3. m \in found
    BY <1>10, <2>1, <2>2, MinIs
  <2>4. c[m] \in Path /\ c[m] \o <<Marker[l]>> \in Files
    BY <1>6, <1>7, <2>3
  <2>5. QED
    BY <1>2, <1>8, <1>10, <2>2, <2>4
<1>11. QED
  BY <1>9, <1>10

\* Two environments agree on a variable.
Same(d, e, name) ==
  /\ name \in DOMAIN d <=> name \in DOMAIN e
  /\ name \in DOMAIN e => d[name] = e[name]

LEMMA SetIs ==
  ASSUME NEW e, NEW name, NEW new, NEW d, d = Setenv(e, name, new)
  PROVE  /\ Value(d, name) = new /\ name \in DOMAIN d /\ d[name] = new
         /\ \A n : n # name => Same(d, e, n)
BY DEF Setenv, Same, Value

LEMMA SameValue ==
  ASSUME NEW d, NEW e, NEW name, Same(d, e, name) PROVE Value(d, name) = Value(e, name)
BY DEF Same, Value

\* What the constructor finds in a hook's variable.
LEMMA ExistingIs ==
  ASSUME NEW e, HasPaths(e), NEW l \in Languages, NEW says \in Replies,
         NEW x, x = Existing(e, HookVar[l], says)
  PROVE  /\ x \in Seq(Path)
         /\ Users(l, x) = IF IsEnabled(e) /\ says # Unset THEN Users(l, says)
                          ELSE Users(l, Value(e, HookVar[l]))
<1>1. PICK held : held = Value(e, HookVar[l])
  OBVIOUS
<1>2. held = Unset \/ held \in Seq(Path)
  BY <1>1 DEF HasPaths, Value
<1>3. says # Unset => says \in Seq(Path)
  BY ProgramsAssumption
<1>4. PICK read : read = IF IsEnabled(e) /\ says # Unset THEN says ELSE held
  OBVIOUS
<1>5. x = IF read = Unset THEN <<>> ELSE read
  BY <1>1, <1>4 DEF Existing, Var
<1>6. Users(l, Unset) = {}
  BY DEF Users
<1>7. Users(l, <<>>) = {}
  <2>1. <<>> # Unset
    BY PathsAre
  <2>2. Places(l, <<>>) = {}
    BY DEF Places
  <2>3. QED
    BY <2>1, <2>2, UsersAre
<1>8. x \in Seq(Path)
  BY <1>2, <1>3, <1>4, <1>5, PathsAre
<1>9. Users(l, x) = Users(l, read)
  BY <1>5, <1>6, <1>7
<1>10. QED
  BY <1>1, <1>4, <1>8, <1>9

\* A hook is set up: only its variable changes, and in that no entry of the user's.
IsSetUp(d, e, lib, l, says) ==
  /\ HasPaths(d)
  /\ \A n : n # HookVar[l] => Same(d, e, n)
  /\ Users(l, Value(d, HookVar[l]))
       = IF Wanted(e, lib, l) /\ IsEnabled(e) /\ says # Unset THEN Users(l, says)
         ELSE Users(l, Value(e, HookVar[l]))

\* The variables are four different ones.
LEMMA VarsDiffer ==
  /\ HookVar["python"] = "PYTHONPATH" /\ HookVar["java"] = "JAVA_TOOL_OPTIONS"
  /\ \A k, l \in Languages : HookVar[l] # PathVar[k] /\ (k # l => HookVar[k] # HookVar[l])
  /\ \A k, l \in Languages : HookVar[l] # NoVar[k] /\ HookVar[l] # "ENVPROXY_ENABLED"
                              /\ HookVar[l] # "LD_PRELOAD" /\ HookVar[l] # "ENVPROXY_SOCKET"
                              /\ PathVar[l] # "LD_PRELOAD" /\ PathVar[l] # "ENVPROXY_SOCKET"
BY DEF HookVar, PathVar, NoVar, Languages

LEMMA NewPaths ==
  ASSUME NEW e, HasPaths(e), NEW l \in Languages, NEW new \in Seq(Path)
  PROVE  HasPaths(Setenv(e, HookVar[l], new))
<1>1. PICK d : d = Setenv(e, HookVar[l], new)
  OBVIOUS
<1>2. d[HookVar[l]] = new /\ \A n : n # HookVar[l] => Same(d, e, n)
  BY <1>1, SetIs
<1>3. HasPaths(d)
  BY <1>2, VarsDiffer DEF HasPaths, Same
<1>4. QED
  BY <1>1, <1>3

LEMMA PythonSetUp ==
  ASSUME NEW e, HasPaths(e), NEW lib \in Files, NEW says \in Replies,
         NEW d, d = SetupPythonHook(e, lib, says)
  PROVE  IsSetUp(d, e, lib, "python", says)
<1>0. "python" \in Languages
  BY DEF Languages
<1>1. CASE ~ Wanted(e, lib, "python")
  <2>1. d = e
    BY <1>1 DEF SetupPythonHook
  <2>2. QED
    BY <1>1, <2>1 DEF IsSetUp, Same
<1>2. CASE Wanted(e, lib, "python")
  <2>1. PICK h : h = FindSupportDir(e, lib, "python")
    OBVIOUS
  <2>2. h \in Path /\ ~ IsUsers("python", h)
    BY <1>0, <1>2, <2>1, SupportDirIs DEF Wanted, IsUsers
  <2>3. PICK x : x = Existing(e, HookVar["python"], says)
    OBVIOUS
  <2>4. /\ x \in Seq(Path)
        /\ Users("python", x) = IF IsEnabled(e) /\ says # Unset THEN Users("python", says)
                                ELSE Users("python", Value(e, HookVar["python"]))
    BY <1>0, <2>3, ExistingIs
  <2>5. PICK t : t = <<h>> \o x
    OBVIOUS
  <2>6. PICK n \in Nat : n = Len(x) /\ DOMAIN x = 1..n
    BY <2>4, LenProperties
  <2>7. /\ t \in Seq(Path) /\ DOMAIN t = 1..n + 1
        /\ t[1] = h /\ \A i \in 1..n : t[i + 1] = x[i]
    BY <2>2, <2>4, <2>5, <2>6
  <2>8. Users("python", t) = Users("python", x)
    <3>1. x # Unset /\ t # Unset
      BY <2>4, <2>7, PathsAre
    <3>2. QED
      BY <2>2, <2>6, <2>7, <3>1, HookPrepended
  <2>9. d = Setenv(e, HookVar["python"], t)
    BY <1>2, <2>1, <2>3, <2>5, VarsDiffer DEF SetupPythonHook
  <2>10. HasPaths(d)
    BY <1>0, <2>7, <2>9, NewPaths
  <2>11. Value(d, HookVar["python"]) = t /\ \A n_ : n_ # HookVar["python"] => Same(d, e, n_)
    BY <2>9, SetIs
  <2>12. QED
    BY <1>2, <2>4, <2>8, <2>10, <2>11 DEF IsSetUp
<1>3. QED
  BY <1>1, <1>2

LEMMA JavaSetUp ==
  ASSUME NEW e, HasPaths(e), NEW lib \in Files, NEW says \in Replies,
         NEW d, d = SetupJavaHook(e, lib, says)
  PROVE  IsSetUp(d, e, lib, "java", says)
<1>0. "java" \in Languages /\ "java" # "python"
  BY DEF Languages
<1>1. CASE ~ Wanted(e, lib, "java")
  <2>1. d = e
    BY <1>1 DEF SetupJavaHook
  <2>2. QED
    BY <1>1, <2>1 DEF IsSetUp, Same
<1>2. CASE Wanted(e, lib, "java")
  <2>1. PICK h : h = FindSupportFile(e, lib, "java")
    OBVIOUS
  <2>2. h \in Path /\ ~ IsUsers("java", h)
    <3>1. PICK dir : dir = FindSupportDir(e, lib, "java")
      OBVIOUS
    <3>2. dir # Unset /\ dir \o <<Marker["java"]>> \in Files
      BY <1>0, <1>2, <3>1, SupportDirIs DEF Wanted
    <3>3. h \in Files
      BY <2>1, <3>1, <3>2 DEF FindSupportFile
    <3>4. QED
      BY <1>0, <3>3, ProgramsAssumption DEF IsUsers
  <2>3. PICK x : x = Existing(e, HookVar["java"], says)
    OBVIOUS
  <2>4. /\ x \in Seq(Path)
        /\ Users("java", x) = IF IsEnabled(e) /\ says # Unset THEN Users("java", says)
                              ELSE Users("java", Value(e, HookVar["java"]))
    BY <1>0, <2>3, ExistingIs
  <2>5. PICK t : t = Append(x, h)
    OBVIOUS
  <2>6. PICK n \in Nat : n = Len(x) /\ DOMAIN x = 1..n
    BY <2>4, LenProperties
  <2>7. /\ t \in Seq(Path) /\ DOMAIN t = 1..n + 1
        /\ t[n + 1] = h /\ \A i \in 1..n : t[i] = x[i]
    BY <2>2, <2>4, <2>5, <2>6
  <2>8. Users("java", t) = Users("java", x)
    <3>1. x # Unset /\ t # Unset
      BY <2>4, <2>7, PathsAre
    <3>2. QED
      BY <2>2, <2>6, <2>7, <3>1, HookAppended
  <2>9. d = Setenv(e, HookVar["java"], t)
    BY <1>2, <2>1, <2>3, <2>5, VarsDiffer DEF SetupJavaHook
  <2>10. HasPaths(d)
    BY <1>0, <2>7, <2>9, NewPaths
  <2>11. Value(d, HookVar["java"]) = t /\ \A n_ : n_ # HookVar["java"] => Same(d, e, n_)
    BY <2>9, SetIs
  <2>12. QED
    BY <1>2, <2>4, <2>8, <2>10, <2>11 DEF IsSetUp
<1>3. QED
  BY <1>1, <1>2

\* Whether a hook is wanted is not up to the variables of the hooks.
LEMMA WantedAlike ==
  ASSUME NEW d, NEW e, NEW k, NEW l \in Languages, NEW lib, k \in Languages,
         \A n : n # HookVar[k] => Same(d, e, n)
  PROVE  Wanted(d, lib, l) = Wanted(e, lib, l) /\ IsEnabled(d) = IsEnabled(e)
<1>1. /\ Value(d, PathVar[l]) = Value(e, PathVar[l])
      /\ Value(d, NoVar[l]) = Value(e, NoVar[l])
      /\ Value(d, "ENVPROXY_ENABLED") = Value(e, "ENVPROXY_ENABLED")
  <2>1. PathVar[l] # HookVar[k] /\ NoVar[l] # HookVar[k] /\ "ENVPROXY_ENABLED" # HookVar[k]
    BY VarsDiffer
  <2>2. QED
    BY <2>1, SameValue
<1>2. FindSupportDir(d, lib, l) = FindSupportDir(e, lib, l)
  BY ONLY <1>1 DEF FindSupportDir
<1>3. QED
  BY ONLY <1>1, <1>2 DEF Wanted, IsEnabled

\* The entries that a variable has when a program's main is called.
LEMMA StartedIs ==
  ASSUME NEW e, HasPaths(e), NEW says \in [Languages -> Replies], NEW d, d = Started(e, says)
  PROVE  /\ HasPaths(d)
         /\ \A l \in Languages :
              Users(l, Value(d, HookVar[l]))
                = IF Preloaded(e) # Unset /\ Wanted(e, Preloaded(e), l) /\ IsEnabled(e)
                       /\ says[l] # Unset
                    THEN Users(l, says[l]) ELSE Users(l, Value(e, HookVar[l]))
<1>0. /\ Languages = {"python", "java"} /\ "python" # "java"
      /\ says["python"] \in Replies /\ says["java"] \in Replies
  BY DEF Languages
<1>1. PICK lib : lib = Preloaded(e)
  OBVIOUS
<1>2. CASE lib = Unset
  <2>1. d = e
    BY <1>1, <1>2 DEF Started
  <2>2. QED
    BY <1>1, <1>2, <2>1
<1>3. CASE lib # Unset
  <2>1. lib \in Files
    BY <1>1, <1>3 DEF Preloaded
  <2>2. PICK p : p = SetupPythonHook(e, lib, says["python"])
    OBVIOUS
  <2>3. d = SetupJavaHook(p, lib, says["java"])
    BY <1>1, <1>3, <2>2 DEF Started
  <2>4. IsSetUp(p, e, lib, "python", says["python"])
    BY <1>0, <2>1, <2>2, PythonSetUp
  <2>5. HasPaths(p) /\ \A n : n # HookVar["python"] => Same(p, e, n)
    BY <2>4 DEF IsSetUp
  <2>6. IsSetUp(d, p, lib, "java", says["java"])
    BY <1>0, <2>1, <2>3, <2>5, JavaSetUp
  <2>7. HasPaths(d) /\ \A n : n # HookVar["java"] => Same(d, p, n)
    BY <2>6 DEF IsSetUp
  <2>8. HookVar["java"] # HookVar["python"]
    BY <1>0, VarsDiffer
  <2>9. Users("python", Value(d, HookVar["python"]))
          = IF Wanted(e, lib, "python") /\ IsEnabled(e) /\ says["python"] # Unset
              THEN Users("python", says["python"])
              ELSE Users("python", Value(e, HookVar["python"]))
    <3>1. Value(d, HookVar["python"]) = Value(p, HookVar["python"])
      BY <2>7, <2>8, SameValue
    <3>2. QED
      BY <2>4, <3>1 DEF IsSetUp
  <2>10. Users("java", Value(d, HookVar["java"]))
           = IF Wanted(e, lib, "java") /\ IsEnabled(e) /\ says["java"] # Unset
               THEN Users("java", says["java"])
               ELSE Users("java", Value(e, HookVar["java"]))
    <3>1. Value(p, HookVar["java"]) = Value(e, HookVar["java"])
      BY <2>5, <2>8, SameValue
    <3>2. Wanted(p, lib, "java") = Wanted(e, lib, "java") /\ IsEnabled(p) = IsEnabled(e)
      BY <1>0, <2>5, WantedAlike
    <3>3. QED
      BY <2>6, <3>1, <3>2 DEF IsSetUp
  <2>11. QED
    BY <1>0, <1>1, <1>3, <2>7, <2>9, <2>10
<1>4. QED
  BY <1>2, <1>3

\* `run` leaves the variables of the hooks alone.
LEMMA CmdRunLeaves ==
  ASSUME NEW e, HasPaths(e), NEW socket, NEW d, d = CmdRun(e, Bin, socket)
  PROVE  HasPaths(d) /\ \A l \in Languages : Value(d, HookVar[l]) = Value(e, HookVar[l])
<1>1. ASSUME NEW n, n # "LD_PRELOAD", n # "ENVPROXY_SOCKET" PROVE Same(d, e, n)
  <2>1. PICK lib : lib = FindLibenvproxy(e, Bin)
    OBVIOUS
  <2>2. PICK p : p = Setenv(e, "LD_PRELOAD", lib)
    OBVIOUS
  <2>3. Same(p, e, n)
    BY <1>1, <2>2, SetIs
  <2>4. d = p \/ d = Setenv(p, "ENVPROXY_SOCKET", socket)
    BY <2>1, <2>2 DEF CmdRun
  <2>5. Same(d, p, n)
    <3>1. CASE d = p
      BY <3>1 DEF Same
    <3>2. CASE d = Setenv(p, "ENVPROXY_SOCKET", socket)
      BY <1>1, <3>2, SetIs
    <3>3. QED
      BY <2>4, <3>1, <3>2
  <2>6. QED
    BY <2>3, <2>5 DEF Same
<1>2. \A l \in Languages : Same(d, e, HookVar[l]) /\ Same(d, e, PathVar[l])
  BY <1>1, VarsDiffer
<1>3. HasPaths(d)
  BY <1>2 DEF HasPaths, Same
<1>4. QED
  BY <1>2, <1>3, SameValue

LEMMA StartedKeepsEntries ==
  ASSUME EntriesInv, NEW e, HasPaths(e), NEW says \in [Languages -> Replies],
         \A l \in Languages : Value(e, HookVar[l]) = Value(env, HookVar[l]),
         StartWith(e, says)
  PROVE  EntriesInv'
<1>1. PICK d : d = Started(e, says)
  OBVIOUS
<1>2. env' = d
  BY <1>1 DEF StartWith
<1>3. HasPaths(d)
  BY <1>1, StartedIs
<1>4. ASSUME NEW l \in Languages PROVE Users(l, Value(d, HookVar[l])) = users'[l]
  <2>1. users'[l] = IF Preloaded(e) # Unset /\ Wanted(e, Preloaded(e), l) /\ IsEnabled(e)
                         /\ says[l] # Unset
                      THEN Users(l, says[l]) ELSE users[l]
    BY DEF StartWith
  <2>2. users[l] = Users(l, Value(e, HookVar[l]))
    BY DEF EntriesInv, UsersEntriesKept
  <2>3. QED
    BY <1>1, <2>1, <2>2, StartedIs
<1>5. QED
  BY <1>2, <1>3, <1>4 DEF EntriesInv, UsersEntriesKept, HasPaths

LEMMA ExportKeepsEntries ==
  ASSUME EntriesInv, NEW export \in Exports, Export(export[1], export[2])
  PROVE  EntriesInv'
<1>1. PICK name : name = export[1]
  OBVIOUS
<1>2. PICK val : val = export[2]
  OBVIOUS
<1>3. PICK new : new = IF name # "PYTHONPATH" THEN val
                       ELSE val \o Existing(env, name, Unset)
  OBVIOUS
<1>4. /\ env' = Setenv(env, name, new)
      /\ users' = [l \in Languages |-> IF HookVar[l] = name THEN Users(l, new) ELSE users[l]]
  BY <1>1, <1>2, <1>3 DEF Export
<1>5. HasPaths(env)
  BY DEF EntriesInv
<1>6. /\ name \in Range(HookVar) => val \in Seq(Path)
      /\ name \in Range(PathVar) => val \in Path
  BY <1>1, <1>2, ProgramsAssumption
<1>7. ASSUME NEW l \in Languages, HookVar[l] = name PROVE new \in Seq(Path)
  <2>1. val \in Seq(Path)
    BY <1>6, <1>7, PathsAre
  <2>2. CASE name # "PYTHONPATH"
    BY <1>3, <2>1, <2>2
  <2>3. CASE name = "PYTHONPATH"
    <3>1. PICK x : x = Existing(env, name, Unset)
      OBVIOUS
    <3>2. PICK held : held = Value(env, name)
      OBVIOUS
    <3>3. held = Unset \/ held \in Seq(Path)
      BY <1>5, <1>7, <3>2 DEF HasPaths, Value
    <3>4. x = IF held = Unset THEN <<>> ELSE held
      BY <3>1, <3>2 DEF Existing, Var
    <3>5. x \in Seq(Path)
      BY <3>3, <3>4, PathsAre
    <3>6. QED
      BY <1>3, <2>1, <2>3, <3>1, <3>5, ConcatProperties
  <2>4. QED
    BY <2>2, <2>3
<1>8. ASSUME NEW l \in Languages, PathVar[l] = name PROVE new \in Path
  <2>1. name # "PYTHONPATH"
    BY <1>8, VarsDiffer DEF Languages
  <2>2. QED
    BY <1>3, <1>6, <1>8, <2>1, PathsAre
<1>9. PICK d : d = env'
  OBVIOUS
<1>10. /\ Value(d, name) = new /\ name \in DOMAIN d /\ d[name] = new
       /\ \A n : n # name => Same(d, env, n)
  BY <1>4, <1>9, SetIs
<1>11. HasPaths(d)
  <2>1. ASSUME NEW l \in Languages, HookVar[l] \in DOMAIN d PROVE d[HookVar[l]] \in Seq(Path)
    BY <1>5, <1>7, <1>10, <2>1 DEF HasPaths, Same
  <2>2. ASSUME NEW l \in Languages, PathVar[l] \in DOMAIN d PROVE d[PathVar[l]] \in Path
    BY <1>5, <1>8, <1>10, <2>2 DEF HasPaths, Same
  <2>3. QED
    BY <2>1, <2>2 DEF HasPaths
<1>12. ASSUME NEW l \in Languages PROVE Users(l, Value(d, HookVar[l])) = users'[l]
  <2>1. CASE HookVar[l] = name
    BY <1>4, <1>10, <2>1
  <2>2. CASE HookVar[l] # name
    <3>1. Value(d, HookVar[l]) = Value(env, HookVar[l])
      BY <1>10, <2>2, SameValue
    <3>2. users'[l] = users[l]
      BY <1>4, <2>2
    <3>3. QED
      BY <3>1, <3>2 DEF EntriesInv, UsersEntriesKept
  <2>3. QED
    BY <2>1, <2>2
<1>13. QED
  BY <1>9, <1>11, <1>12 DEF EntriesInv, UsersEntriesKept, HasPaths

LEMMA EntriesStep == EntriesInv /\ [Next]_vars => EntriesInv'
<1> SUFFICES ASSUME EntriesInv, [Next]_vars PROVE EntriesInv'
  OBVIOUS
<1>0. HasPaths(env)
  BY DEF EntriesInv
<1>1. CASE UNCHANGED programs
  BY <1>1 DEF EntriesInv, HasPaths, UsersEntriesKept, programs
<1>2. ASSUME NEW says \in [Languages -> Replies], Exec(says) PROVE EntriesInv'
  BY <1>0, <1>2, StartedKeepsEntries DEF Exec
<1>3. ASSUME NEW says \in [Languages -> Replies], NEW socket, Run(socket, says)
      PROVE  EntriesInv'
  <2>1. PICK e : e = CmdRun(env, Bin, socket)
    OBVIOUS
  <2>2. HasPaths(e) /\ \A l \in Languages : Value(e, HookVar[l]) = Value(env, HookVar[l])
    BY <1>0, <2>1, CmdRunLeaves
  <2>3. StartWith(e, says)
    BY <1>3, <2>1 DEF Run
  <2>4. QED
    BY <2>2, <2>3, StartedKeepsEntries
<1>4. ASSUME NEW export \in Exports, Export(export[1], export[2]) PROVE EntriesInv'
  BY <1>4, ExportKeepsEntries
<1>5. CASE ProgramsNext
  <2>1. CASE \E says \in [Languages -> Replies] :
                Exec(says) \/ \E socket \in Arguments : Run(socket, says)
    BY <1>2, <1>3, <2>1
  <2>2. CASE \E export \in Exports : Export(export[1], export[2])
    BY <1>4, <2>2
  <2>3. QED
    BY <1>5, <2>1, <2>2 DEF ProgramsNext
<1>6. QED
  BY <1>1, <1>5 DEF Next, TypeReference, TypeDuration, Type, Send, Arrive, Execute, vars

\* Every program's environment has paths where the constructors look for paths, and the
\* entries that are the user's or the agent's.
THEOREM EntriesInvariance == Spec => []EntriesInv
<1>1. Init => EntriesInv
  <2> SUFFICES ASSUME Init PROVE EntriesInv
    OBVIOUS
  <2>1. env = <<>> /\ users = [l \in Languages |-> {}]
    BY DEF Init, ProgramsInit
  <2>2. \A n : n \notin DOMAIN env
    BY <2>1
  <2>3. \A l \in Languages : Users(l, Value(env, HookVar[l])) = {}
    BY <2>2 DEF Value, Users
  <2>4. QED
    BY <2>1, <2>2, <2>3 DEF EntriesInv, HasPaths, UsersEntriesKept
<1>2. QED
  BY <1>1, EntriesStep, PTL DEF Spec

\* Whatever programs execute each other, the entries of PYTHONPATH and JAVA_TOOL_OPTIONS
\* that are not the library's stay whole and in order.
THEOREM EntriesKept == Spec => []UsersEntriesKept
<1>1. EntriesInv => UsersEntriesKept
  BY DEF EntriesInv
<1>2. QED
  BY <1>1, EntriesInvariance, PTL

=============================================================================
