------------------------------ MODULE MmcProofs ------------------------------
(***************************************************************************)
(* Proofs about the SD card driver, for every set of blocks, every         *)
(* patience and every split of the address.                                *)
(***************************************************************************)
EXTENDS Mmc, SequenceTheorems, TLAPS

Bytes == [t : {"00", "01", "05", "FE", "data"}, b : Int]

\* Nothing on the wire but answers to the commands of mmc_init.
Quiet(s) == \A i \in 1 .. Len(s) : s[i].t \in {"00", "01"}

\* A token is followed by the data of block and by nothing else, and data
\* follow a token: what is on the wire belongs to one read.
Answering(s) ==
  \A i \in 1 .. Len(s) :
    /\ s[i].t = "FE" => i = Len(s) - 1 /\ s[Len(s)] = Data(block)
    /\ s[i].t = "data" => i > 1 /\ s[i - 1].t = "FE"

\* The answer 00 comes before the token.
AnswerFirst(s) ==
  \A i \in 1 .. Len(s) : s[i].t = "FE" => i > 1 /\ s[i - 1].t = "00"

\* What the wire holds at each point of the driver.
WireInv ==
  /\ out \in Seq(Bytes)
  /\ step \in {"cmd0", "send1", "cmd1", "send16", "cmd16"} => Quiet(out)
  /\ (step = "caller" /\ result = "ok") => Quiet(out)
  /\ step = "r1" => Answering(out) /\ AnswerFirst(out)
  /\ step = "token" => Answering(out)
  /\ step = "data" => out = <<Data(block)>>

\* The card is ready once an answer 00 can have been seen.
CardInv ==
  /\ step \in {"cmd0", "send1", "cmd1"} =>
       \A i \in 1 .. Len(out) : out[i].t = "00" => mode = "ready"
  /\ step \in {"send16", "cmd16", "r1", "token", "data"} => mode = "ready"
  /\ step \in {"cmd0", "send1"} => tries > 0
  /\ step \in DOMAIN Wanted => count > 0
  /\ step \in {"r1", "token", "data"} => block \in Blocks /\ result = "ok"

MmcInv == MmcTypeOK /\ WireInv /\ CardInv /\ ReadyAfterSuccess
-----------------------------------------------------------------------------
(* The address of a block survives the masks and shifts of mmc_read_block. *)
LEMMA FieldIsBlock ==
  ASSUME MmcAssumption, NEW b \in Blocks
  PROVE  Field(b) = b
<1>1. LOW \in Nat \ {0} /\ HIGH \in Nat \ {0} /\ b \in Nat /\ b < LOW * HIGH
  BY DEF MmcAssumption
<1> DEFINE q == b \div LOW
           r == b % LOW
<1>2. q \in Int /\ r \in 0 .. LOW - 1 /\ b = LOW * q + r
  BY <1>1
<1> HIDE DEF q, r
<1>3. q >= 0
  BY <1>1, <1>2
<1>4. q < HIGH
  <2>1. SUFFICES ASSUME q >= HIGH PROVE FALSE
    BY <1>1, <1>2
  <2>2. LOW * q >= LOW * HIGH
    BY <1>1, <1>2, <2>1
  <2> QED
    BY <1>1, <1>2, <2>2
<1>5. q % HIGH = q
  BY <1>1, <1>2, <1>3, <1>4
<1> QED
  BY <1>1, <1>2, <1>5 DEF Field, varh, varl, q, r

(* The bytes that are left when the first one has been clocked in.         *)
LEMMA TailElements ==
  ASSUME NEW S, NEW s \in Seq(S), s # <<>>
  PROVE  /\ Head(s) = s[1] /\ Len(s) > 0
         /\ Tail(s) \in Seq(S) /\ Len(Tail(s)) = Len(s) - 1
         /\ \A i \in 1 .. Len(s) - 1 : Tail(s)[i] = s[i + 1]
  BY HeadTailProperties, EmptySeq

(* What a command leaves on the wire: a rest of the old bytes and then the *)
(* reply.                                                                  *)
LEMMA CommandElements ==
  ASSUME out \in Seq(Bytes), NEW reply \in Seq(Bytes), CardCommand(reply)
  PROVE  /\ out' \in Seq(Bytes)
         /\ \E k \in 0 .. Len(out) :
              /\ Len(out') = Len(out) - k + Len(reply)
              /\ \A i \in 1 .. Len(out) - k : out'[i] = out[i + k]
              /\ \A i \in 1 .. Len(reply) : out'[Len(out) - k + i] = reply[i]
<1>1. PICK k \in 1 .. Len(out) + 1 : out' = SubSeq(out, k, Len(out)) \o reply
  BY Zenon DEF CardCommand, Suffixes
<1> DEFINE rest == SubSeq(out, k, Len(out))
<1>2. Len(out) \in Nat /\ Len(reply) \in Nat
  BY LenProperties
<1>3. /\ rest \in Seq(Bytes) /\ Len(rest) = Len(out) - k + 1
      /\ \A i \in 1 .. Len(out) - k + 1 : rest[i] = out[k + i - 1]
  BY <1>2, SubSeqProperties
<1> HIDE DEF rest
<1>4. out' = rest \o reply
  BY <1>1 DEF rest
<1>5. /\ out' \in Seq(Bytes) /\ Len(out') = Len(rest) + Len(reply)
      /\ \A i \in 1 .. Len(rest) : out'[i] = rest[i]
      /\ \A i \in 1 .. Len(reply) : out'[Len(rest) + i] = reply[i]
  <2>1. \A i \in 1 .. Len(rest) + Len(reply) :
          out'[i] = IF i <= Len(rest) THEN rest[i] ELSE reply[i - Len(rest)]
    BY <1>3, <1>4, ConcatProperties
  <2>2. out' \in Seq(Bytes) /\ Len(out') = Len(rest) + Len(reply)
    BY <1>3, <1>4, ConcatProperties, Zenon
  <2>3. Len(rest) \in Nat
    BY <1>3, LenProperties
  <2>4. ASSUME NEW i \in 1 .. Len(reply)
        PROVE  out'[Len(rest) + i] = reply[i]
    <3>1. /\ Len(rest) + i \in 1 .. Len(rest) + Len(reply)
          /\ ~(Len(rest) + i <= Len(rest)) /\ (Len(rest) + i) - Len(rest) = i
      BY <1>2, <2>3
    <3> QED BY <2>1, <3>1
  <2> QED
    BY <1>2, <2>1, <2>2, <2>3, <2>4
<1> DEFINE d == k - 1
<1>6. d \in 0 .. Len(out) /\ Len(rest) = Len(out) - d
  BY <1>2, <1>3
<1>7. /\ \A i \in 1 .. Len(out) - d : out'[i] = out[i + d]
      /\ \A i \in 1 .. Len(reply) : out'[Len(out) - d + i] = reply[i]
      /\ Len(out') = Len(out) - d + Len(reply)
  BY <1>2, <1>3, <1>5, <1>6
<1> QED
  BY <1>5, <1>6, <1>7, Zenon

(* A reply of one byte, to a wire that holds only answers.                 *)
LEMMA QuietCommand ==
  ASSUME out \in Seq(Bytes), Quiet(out), NEW x \in {"00", "01"},
         CardCommand(<<Byte(x)>>)
  PROVE  /\ out' \in Seq(Bytes) /\ Quiet(out')
         /\ \A i \in 1 .. Len(out') : out'[i].t = "00" =>
              x = "00" \/ \E m \in 1 .. Len(out) : out[m].t = "00"
<1> DEFINE reply == <<Byte(x)>>
<1>1. /\ reply \in Seq(Bytes) /\ Len(reply) = 1 /\ reply[1] = Byte(x)
      /\ Byte(x).t = x
  BY DEF Byte, Bytes
<1> HIDE DEF reply
<1>2. CardCommand(reply)
  BY DEF reply
<1>3. out' \in Seq(Bytes)
  BY <1>1, <1>2, CommandElements
<1>4. PICK k \in 0 .. Len(out) :
              /\ Len(out') = Len(out) - k + Len(reply)
              /\ \A i \in 1 .. Len(out) - k : out'[i] = out[i + k]
              /\ \A i \in 1 .. Len(reply) : out'[Len(out) - k + i] = reply[i]
  BY <1>1, <1>2, CommandElements, Zenon
<1>5. Len(out) \in Nat
  BY LenProperties
<1>6. ASSUME NEW i \in 1 .. Len(out')
      PROVE  \/ \E m \in 1 .. Len(out) : out'[i] = out[m]
             \/ out'[i].t = x
  <2>1. CASE i \in 1 .. Len(out) - k
    <3>1. i + k \in 1 .. Len(out)
      BY <1>5, <2>1
    <3> QED BY <1>4, <2>1, <3>1
  <2>2. CASE i = Len(out) - k + 1
    <3>1. out'[Len(out) - k + 1] = reply[1]
      BY <1>1, <1>4
    <3> QED BY <1>1, <2>2, <3>1
  <2> QED
    BY <1>1, <1>4, <1>5, <1>6, <2>1, <2>2
<1> QED
  BY <1>3, <1>6, Zenon DEF Quiet

(* The wire after a read has been sent to a ready card: what is not of the *)
(* answer is quiet, and the token and the data are those of the block.     *)
LEMMA ReadCommand ==
  ASSUME MmcAssumption, out \in Seq(Bytes), Quiet(out), NEW b \in Blocks,
         ReadSingleBlock(Field(b)), block' = b
  PROVE  out' \in Seq(Bytes) /\ Answering(out)' /\ AnswerFirst(out)'
<1>0. Field(b) = b /\ b \in Int
  BY FieldIsBlock DEF MmcAssumption
<1> DEFINE Full == <<Byte("00"), Byte("FE"), Data(b)>>
           Refused == <<Byte("05")>>
           Broken == <<Byte("00"), Byte("05")>>
<1>1. /\ Full \in Seq(Bytes) /\ Len(Full) = 3
      /\ Full[1].t = "00" /\ Full[2].t = "FE" /\ Full[3] = Data(b)
      /\ Full[3].t = "data"
  BY <1>0 DEF Byte, Bytes, Data
<1>2. /\ Refused \in Seq(Bytes) /\ Len(Refused) = 1 /\ Refused[1].t = "05"
  BY DEF Byte, Bytes
<1>3. /\ Broken \in Seq(Bytes) /\ Len(Broken) = 2
      /\ Broken[1].t = "00" /\ Broken[2].t = "05"
  BY DEF Byte, Bytes
<1>4. CardCommand(Full) \/ CardCommand(Refused) \/ CardCommand(Broken)
  BY <1>0 DEF ReadSingleBlock
<1>5. Len(out) \in Nat
  BY LenProperties
<1> HIDE DEF Full, Refused, Broken
<1>6. CASE CardCommand(Full)
  <2>1. out' \in Seq(Bytes)
    BY <1>1, <1>6, CommandElements
  <2>2. PICK k \in 0 .. Len(out) :
              /\ Len(out') = Len(out) - k + Len(Full)
              /\ \A i \in 1 .. Len(out) - k : out'[i] = out[i + k]
              /\ \A i \in 1 .. Len(Full) : out'[Len(out) - k + i] = Full[i]
    BY <1>1, <1>6, CommandElements, Zenon
  <2> DEFINE n == Len(out) - k
  <2>3. /\ n \in Nat /\ Len(out') = n + 3
        /\ \A i \in 1 .. n : out'[i].t \in {"00", "01"}
        /\ out'[n + 1].t = "00" /\ out'[n + 2].t = "FE"
        /\ out'[n + 3] = Data(b) /\ out'[n + 3].t = "data"
    <3>1. /\ n \in Nat /\ Len(out') = n + 3
          /\ \A i \in 1 .. n : i + k \in 1 .. Len(out)
      BY <1>1, <1>5, <2>2
    <3>2. /\ out'[n + 1] = Full[1] /\ out'[n + 2] = Full[2]
          /\ out'[n + 3] = Full[3]
      BY <1>1, <2>2
    <3>3. \A i \in 1 .. n : out'[i].t \in {"00", "01"}
      BY <2>2, <3>1 DEF Quiet
    <3> QED BY <1>1, <3>1, <3>2, <3>3
  <2> HIDE DEF n
  <2>4. \A i \in 1 .. Len(out') : i \in 1 .. n \/ i = n + 1 \/ i = n + 2 \/ i = n + 3
    BY <2>3
  <2>5. ASSUME NEW i \in 1 .. Len(out'), out'[i].t = "FE"
        PROVE  /\ i = Len(out') - 1 /\ out'[Len(out')] = Data(b)
               /\ i > 1 /\ out'[i - 1].t = "00"
    <3>1. i = n + 2
      BY <2>3, <2>4, <2>5
    <3>2. i - 1 = n + 1 /\ i > 1 /\ i = Len(out') - 1
      BY <2>3, <3>1
    <3> QED BY <2>3, <3>2
  <2>6. ASSUME NEW i \in 1 .. Len(out'), out'[i].t = "data"
        PROVE  i > 1 /\ out'[i - 1].t = "FE"
    <3>1. i = n + 3
      BY <2>3, <2>4, <2>6
    <3>2. i - 1 = n + 2 /\ i > 1
      BY <2>3, <3>1
    <3> QED BY <2>3, <3>2
  <2> QED
    BY <2>1, <2>5, <2>6 DEF Answering, AnswerFirst
<1>7. ASSUME NEW reply \in Seq(Bytes), CardCommand(reply),
             \A i \in 1 .. Len(reply) : reply[i].t \in {"00", "05"}
      PROVE  out' \in Seq(Bytes) /\ Answering(out)' /\ AnswerFirst(out)'
  <2>1. out' \in Seq(Bytes)
    BY <1>7, CommandElements
  <2>2. PICK k \in 0 .. Len(out) :
              /\ Len(out') = Len(out) - k + Len(reply)
              /\ \A i \in 1 .. Len(out) - k : out'[i] = out[i + k]
              /\ \A i \in 1 .. Len(reply) : out'[Len(out) - k + i] = reply[i]
    BY <1>7, CommandElements
  <2>3. ASSUME NEW i \in 1 .. Len(out')
        PROVE  out'[i].t \in {"00", "01", "05"}
    <3>0. Len(reply) \in Nat
      BY LenProperties
    <3>1. CASE i \in 1 .. Len(out) - k
      <4>1. i + k \in 1 .. Len(out)
        BY <1>5, <3>1
      <4> QED BY <2>2, <3>1, <4>1, Zenon DEF Quiet
    <3>2. CASE i > Len(out) - k
      <4> DEFINE d == i - (Len(out) - k)
      <4>1. d \in 1 .. Len(reply) /\ Len(out) - k + d = i
        BY <1>5, <2>2, <3>0, <3>2
      <4> HIDE DEF d
      <4> QED BY <1>7, <2>2, <4>1, Zenon
    <3> QED
      BY <1>5, <3>1, <3>2
  <2> QED
    BY <2>1, <2>3 DEF Answering, AnswerFirst
<1>8. CASE CardCommand(Refused)
  BY <1>2, <1>7, <1>8
<1>9. CASE CardCommand(Broken)
  <2>1. \A i \in 1 .. Len(Broken) : Broken[i].t \in {"00", "05"}
    BY <1>3
  <2> QED BY <1>3, <1>7, <1>9, <2>1
<1> QED
  BY <1>4, <1>6, <1>8, <1>9

(* A byte clocked in while only answers are on the wire.                   *)
LEMMA QuietClocked ==
  ASSUME out \in Seq(Bytes), Quiet(out), NEW hit \in BOOLEAN, Clocked(hit)
  PROVE  /\ out' \in Seq(Bytes) /\ Quiet(out')
         /\ \A i \in 1 .. Len(out') : \E m \in 1 .. Len(out) : out'[i] = out[m]
         /\ hit => /\ \E m \in 1 .. Len(out) : out[m].t = Wanted[step]
<1>1. CASE UNCHANGED out
  <2>1. ~hit
    <3>1. CASE out # <<>>
      <4>1. Tail(out) # out /\ Head(out).t # "data"
        BY <3>1, TailElements DEF Quiet
      <4> QED BY <1>1, <4>1 DEF Clocked
    <3>2. CASE out = <<>>
      BY <3>2 DEF Clocked
    <3> QED BY <3>1, <3>2
  <2> QED BY <1>1, <2>1
<1>2. CASE out' # out
  <2>1. /\ out # <<>> /\ out' = Tail(out)
        /\ Head(out).t # "data" => hit = (Head(out).t = Wanted[step])
    BY <1>2 DEF Clocked
  <2>2. /\ Head(out) = out[1] /\ Len(out) > 0 /\ Len(out) \in Nat
        /\ out' \in Seq(Bytes) /\ Len(out') = Len(out) - 1
        /\ \A i \in 1 .. Len(out) - 1 : out'[i] = out[i + 1]
    BY <2>1, TailElements, LenProperties
  <2>3. \A i \in 1 .. Len(out') : i + 1 \in 1 .. Len(out) /\ out'[i] = out[i + 1]
    BY <2>2
  <2>4. 1 \in 1 .. Len(out)
    BY <2>2
  <2>5. out[1].t \in {"00", "01"}
    BY <2>4 DEF Quiet
  <2>6. hit => out[1].t = Wanted[step]
    BY <2>1, <2>2, <2>5, Zenon
  <2> QED
    BY <2>2, <2>3, <2>4, <2>6 DEF Quiet
<1> QED
  BY <1>1, <1>2

(* A byte clocked in while mmc_read_block waits for its answer or for the  *)
(* token: data never come first, so what mmc_response takes is an answer.  *)
LEMMA AnswerClocked ==
  ASSUME out \in Seq(Bytes), Answering(out), NEW hit \in BOOLEAN, Clocked(hit),
         UNCHANGED block, step \in {"r1", "token"},
         step = "r1" => AnswerFirst(out)
  PROVE  /\ out' \in Seq(Bytes)
         /\ ~(step = "token" /\ hit) => Answering(out)'
         /\ (step = "r1" /\ ~hit) => AnswerFirst(out)'
         /\ (step = "token" /\ hit) => out' = <<Data(block)>>
<1>0. /\ Wanted["r1"] = "00" /\ Wanted["token"] = "FE"
      /\ Len(out) \in Nat
  BY LenProperties DEF Wanted
<1>1. ASSUME out # <<>>
      PROVE  /\ Head(out) = out[1] /\ Len(out) > 0 /\ 1 \in 1 .. Len(out)
             /\ Head(out).t # "data"
             /\ Tail(out) \in Seq(Bytes) /\ Len(Tail(out)) = Len(out) - 1
             /\ \A i \in 1 .. Len(out) - 1 : Tail(out)[i] = out[i + 1]
  <2>1. /\ Head(out) = out[1] /\ Len(out) > 0
        /\ Tail(out) \in Seq(Bytes) /\ Len(Tail(out)) = Len(out) - 1
        /\ \A i \in 1 .. Len(out) - 1 : Tail(out)[i] = out[i + 1]
    BY <1>1, TailElements
  <2>2. 1 \in 1 .. Len(out)
    BY <1>0, <2>1
  <2>3. out[1].t = "data" => 1 > 1
    BY <2>2 DEF Answering
  <2> QED BY <2>1, <2>2, <2>3
<1>2. CASE UNCHANGED out
  <2>1. ~hit
    BY <1>1, <1>2, EmptySeq DEF Clocked
  <2> QED
    BY <1>2, <2>1 DEF Answering, AnswerFirst
<1>3. CASE out' # out
  <2>1. out # <<>> /\ out' = Tail(out) /\ hit = (out[1].t = Wanted[step])
    BY <1>1, <1>3 DEF Clocked
  <2>2. /\ out' \in Seq(Bytes) /\ Len(out') = Len(out) - 1 /\ Len(out) > 0
        /\ \A i \in 1 .. Len(out') : out'[i] = out[i + 1] /\ i + 1 \in 1 .. Len(out)
        /\ 1 \in 1 .. Len(out)
    BY <1>0, <1>1, <2>1
  <2>3. CASE step = "token" /\ hit
    <3>1. out[1].t = "FE"
      BY <1>0, <2>1, <2>3, Zenon
    <3>2. Len(out) = 2 /\ out[2] = Data(block)
      BY <1>0, <2>2, <3>1 DEF Answering
    <3>3. Len(out') = 1 /\ out'[1] = Data(block)
      BY <2>2, <3>2
    <3>4. out' = <<Data(block)>>
      <4>1. <<Data(block)>> \in Seq(Bytes)
        <5>1. out'[1] \in Bytes
          BY <2>2, <3>3, ElementOfSeq
        <5> QED BY <3>3, <5>1
      <4> QED BY <2>2, <3>3, <4>1, SeqEqual
    <3> QED BY <2>2, <2>3, <3>4
  <2>4. CASE ~(step = "token" /\ hit)
    <3>1. out[1].t # "FE"
      <4>1. CASE step = "token"
        BY <1>0, <2>1, <2>4, <4>1, Zenon
      <4>2. CASE step = "r1"
        <5>1. out[1].t = "FE" => 1 > 1
          BY <2>2, <4>2 DEF AnswerFirst
        <5> QED BY <5>1
      <4> QED BY <4>1, <4>2
    <3>2. ASSUME NEW i \in 1 .. Len(out'), out'[i].t = "FE"
          PROVE  i = Len(out') - 1 /\ out'[Len(out')] = Data(block)
      <4>1. i + 1 = Len(out) - 1 /\ out[Len(out)] = Data(block)
        BY <2>2, <3>2, Zenon DEF Answering
      <4>2. Len(out') \in 1 .. Len(out') /\ Len(out') + 1 = Len(out)
        BY <1>0, <2>2, <4>1
      <4> QED BY <1>0, <2>2, <4>1, <4>2
    <3>3. ASSUME NEW i \in 1 .. Len(out'), out'[i].t = "data"
          PROVE  i > 1 /\ out'[i - 1].t = "FE"
      <4>1. out[(i + 1) - 1].t = "FE" /\ (i + 1) - 1 = i
        BY <2>2, <3>3, SMTT(30) DEF Answering
      <4>2. i # 1
        BY <3>1, <4>1
      <4>3. i - 1 \in 1 .. Len(out') /\ (i - 1) + 1 = i /\ i > 1
        BY <1>0, <2>2, <4>2
      <4> QED BY <2>2, <4>1, <4>3
    <3>4. Answering(out)'
      BY <3>2, <3>3 DEF Answering
    <3>5. ASSUME step = "r1", ~hit, NEW i \in 1 .. Len(out'), out'[i].t = "FE"
          PROVE  i > 1 /\ out'[i - 1].t = "00"
      <4>0. i + 1 \in 1 .. Len(out) /\ out[i + 1].t = "FE"
        BY <2>2, <3>5
      <4>1. out[(i + 1) - 1].t = "00" /\ (i + 1) - 1 = i
        BY <3>5, <4>0 DEF AnswerFirst
      <4>2. i # 1
        BY <1>0, <2>1, <3>5, <4>1, Zenon
      <4>3. i - 1 \in 1 .. Len(out') /\ (i - 1) + 1 = i /\ i > 1
        BY <1>0, <2>2, <4>2
      <4> QED BY <2>2, <4>1, <4>3
    <3> QED
      BY <2>2, <2>4, <3>4, <3>5 DEF AnswerFirst
  <2> QED
    BY <2>3, <2>4
<1> QED
  BY <1>2, <1>3
-----------------------------------------------------------------------------
(* One step of the driver, action by action.                               *)

(* The type of the bytes, in the form of MmcTypeOK.                        *)
LEMMA WireType ==
  ASSUME NEW s \in Seq(Bytes)
  PROVE  \A i \in DOMAIN s : s[i].t \in {"00", "01", "05", "FE", "data"}
<1> TAKE i \in DOMAIN s
<1>1. s[i] \in Bytes
  BY ElementOfSeq, LenProperties
<1> QED
  BY <1>1 DEF Bytes

(* mmc_init starts from a card that has forgotten what it was about to say.*)
LEMMA InitKept ==
  ASSUME MmcAssumption, MmcInv, mmc_init
  PROVE  MmcInv'
<1>1. out' = <<Byte("01")>> /\ step' = "cmd0" /\ mode' = "idle"
  BY DEF mmc_init, GoIdle, Await
<1>2. /\ out' \in Seq(Bytes) /\ Len(out') = 1 /\ out'[1].t = "01"
  BY <1>1 DEF Byte, Bytes
<1>3. MmcTypeOK'
  <2>1. /\ count' = RESPONSE_TRIES /\ tries' = MMC_TIMEOUT /\ accepted' = FALSE
        /\ cs' = TRUE /\ UNCHANGED <<block, result, got>>
    BY DEF mmc_init, Await
  <2>2. \A i \in DOMAIN out' : out'[i].t \in {"00", "01", "05", "FE", "data"}
    BY <1>2, WireType
  <2>3. count' \in 0 .. RESPONSE_TRIES /\ tries' \in 0 .. MMC_TIMEOUT
    BY <2>1 DEF MmcAssumption
  <2>4. cs' \in BOOLEAN /\ accepted' \in BOOLEAN
    BY <2>1, Zenon
  <2>5. step' \in DOMAIN Wanted
    BY <1>1 DEF Wanted
  <2> QED
    BY <1>1, <2>1, <2>2, <2>3, <2>4, <2>5 DEF MmcInv, MmcTypeOK
<1>4. WireInv'
  BY <1>1, <1>2 DEF WireInv, Quiet
<1>5. CardInv'
  BY <1>1, <1>2 DEF CardInv, mmc_init, Await, MmcAssumption, Wanted
<1> QED
  BY <1>1, <1>3, <1>4, <1>5 DEF MmcInv, ReadyAfterSuccess

(* A read is sent to a ready card over a quiet wire.                       *)
LEMMA ReadKept ==
  ASSUME MmcAssumption, MmcInv, NEW b \in Blocks, mmc_read_block(b)
  PROVE  MmcInv'
<1>1. /\ step' = "r1" /\ block' = b /\ UNCHANGED <<mode, result, tries, accepted>>
      /\ step = "caller" /\ result = "ok" /\ got' = Garbage /\ cs' = TRUE
      /\ count' = RESPONSE_TRIES
  BY DEF mmc_read_block, ReadSingleBlock, Await
<1>2. out \in Seq(Bytes) /\ Quiet(out) /\ mode = "ready"
  BY <1>1 DEF MmcInv, WireInv, ReadyAfterSuccess
<1>3. out' \in Seq(Bytes) /\ Answering(out)' /\ AnswerFirst(out)'
  BY <1>1, <1>2, ReadCommand DEF mmc_read_block
<1>4. MmcTypeOK'
  <2>1. \A i \in DOMAIN out' : out'[i].t \in {"00", "01", "05", "FE", "data"}
    BY <1>3, WireType
  <2> QED
    BY <1>1, <2>1 DEF MmcInv, MmcTypeOK, MmcAssumption, Wanted
<1>5. WireInv'
  BY <1>1, <1>3 DEF WireInv
<1>6. CardInv'
  BY <1>1, <1>2 DEF CardInv, MmcAssumption, Wanted
<1> QED
  BY <1>1, <1>4, <1>5, <1>6 DEF MmcInv, ReadyAfterSuccess

(* A byte that mmc_response does not want.                                 *)
LEMMA WaitKept ==
  ASSUME MmcAssumption, MmcInv, KeepWaiting
  PROVE  MmcInv'
<1>1. /\ UNCHANGED <<mode, step, tries, block, result, got, cs, accepted>>
      /\ step \in {"cmd0", "cmd1", "cmd16", "r1", "token"} /\ Clocked(FALSE)
      /\ count' = count - 1 /\ count > 1
  BY Zenon DEF KeepWaiting, Wanted
<1>2. out \in Seq(Bytes)
  BY DEF MmcInv, WireInv
<1>3. CASE step \in {"cmd0", "cmd1", "cmd16"}
  <2>1. Quiet(out)
    BY <1>3 DEF MmcInv, WireInv
  <2>2. /\ out' \in Seq(Bytes) /\ Quiet(out')
        /\ \A i \in 1 .. Len(out') : \E m \in 1 .. Len(out) : out'[i] = out[m]
    BY <1>1, <1>2, <2>1, QuietClocked, Zenon
  <2>3. MmcTypeOK'
    BY <1>1, <2>2, WireType DEF MmcInv, MmcTypeOK, MmcAssumption
  <2>4. WireInv'
    BY <1>1, <1>3, <2>2 DEF WireInv, Quiet
  <2>5. CardInv'
    BY <1>1, <1>3, <2>2 DEF MmcInv, CardInv, MmcTypeOK, MmcAssumption
  <2> QED
    BY <1>1, <1>3, <2>3, <2>4, <2>5 DEF MmcInv, ReadyAfterSuccess
<1>4. CASE step \in {"r1", "token"}
  <2>1. /\ out' \in Seq(Bytes) /\ Answering(out)'
        /\ step = "r1" => AnswerFirst(out)'
    BY <1>1, <1>2, <1>4, AnswerClocked, Zenon DEF MmcInv, WireInv
  <2>3. MmcTypeOK'
    BY <1>1, <2>1, WireType DEF MmcInv, MmcTypeOK, MmcAssumption
  <2>4. WireInv'
    BY <1>1, <1>4, <2>1 DEF WireInv
  <2>5. CardInv'
    BY <1>1, <1>4 DEF MmcInv, CardInv, MmcTypeOK, MmcAssumption
  <2> QED
    BY <1>1, <1>4, <2>3, <2>4, <2>5 DEF MmcInv, ReadyAfterSuccess
<1> QED
  BY <1>1, <1>3, <1>4

(* mmc_response returns while mmc_init runs: the wire stays quiet, and a   *)
(* wanted 00 shows that the card is ready.                                 *)
LEMMA InitResponse ==
  ASSUME MmcInv, NEW p \in {"cmd0", "cmd1", "cmd16"}, NEW hit \in BOOLEAN,
         mmc_response(p, hit)
  PROVE  /\ out' \in Seq(Bytes) /\ Quiet(out')
         /\ UNCHANGED <<mode, tries, block, got>> /\ step = p
         /\ p # "cmd16" =>
              \A i \in 1 .. Len(out') : out'[i].t = "00" => mode = "ready"
         /\ (p = "cmd1" /\ hit) => mode = "ready"
<1>1. /\ step = p /\ Clocked(hit) /\ UNCHANGED <<mode, tries, block, got>>
  BY DEF mmc_response
<1>2. out \in Seq(Bytes) /\ Quiet(out)
  BY <1>1 DEF MmcInv, WireInv
<1>3. /\ out' \in Seq(Bytes) /\ Quiet(out')
      /\ \A i \in 1 .. Len(out') : \E m \in 1 .. Len(out) : out'[i] = out[m]
      /\ hit => \E m \in 1 .. Len(out) : out[m].t = Wanted[step]
  BY <1>1, <1>2, QuietClocked
<1>4. p # "cmd16" => \A i \in 1 .. Len(out) : out[i].t = "00" => mode = "ready"
  BY <1>1 DEF MmcInv, CardInv
<1>5. Wanted["cmd1"] = "00"
  BY DEF Wanted
<1> QED
  BY <1>1, <1>3, <1>4, <1>5

(* The returns of mmc_response to mmc_init.                                *)
LEMMA AfterInitKept ==
  ASSUME MmcAssumption, MmcInv, AfterCmd0 \/ AfterCmd1 \/ AfterCmd16
  PROVE  MmcInv'
<1> USE DEF Continue, MmcReturn
<1>1. CASE AfterCmd0
  <2>1. PICK hit \in BOOLEAN :
          /\ mmc_response("cmd0", hit)
          /\ IF hit THEN Continue("send1") ELSE MmcReturn("cmd0") /\ UNCHANGED count
          /\ UNCHANGED <<cs, accepted>>
    BY <1>1 DEF AfterCmd0
  <2>2. /\ out' \in Seq(Bytes) /\ Quiet(out') /\ step = "cmd0"
        /\ UNCHANGED <<mode, tries, block, got, cs, accepted, count>>
        /\ \A i \in 1 .. Len(out') : out'[i].t = "00" => mode = "ready"
        /\ \/ step' = "send1" /\ UNCHANGED result
           \/ step' = "caller" /\ result' = "cmd0"
    BY <2>1, InitResponse
  <2>3. MmcTypeOK'
    BY <2>2, WireType DEF MmcInv, MmcTypeOK
  <2>4. WireInv'
    BY <2>2 DEF WireInv, Quiet
  <2>5. CardInv'
    BY <2>2 DEF MmcInv, CardInv, Wanted
  <2> QED
    BY <2>2, <2>3, <2>4, <2>5 DEF MmcInv, ReadyAfterSuccess
<1>2. CASE AfterCmd1
  <2>1. PICK hit \in BOOLEAN :
          /\ mmc_response("cmd1", hit)
          /\ accepted' = hit
          /\ IF ~hit /\ tries > 0 THEN Continue("send1")
             ELSE IF tries = 0 THEN MmcReturn("cmd1") /\ UNCHANGED count
             ELSE Continue("send16")
          /\ UNCHANGED cs
    BY <1>2 DEF AfterCmd1
  <2>2. /\ out' \in Seq(Bytes) /\ Quiet(out') /\ step = "cmd1"
        /\ UNCHANGED <<mode, tries, block, got, cs, count>>
        /\ \A i \in 1 .. Len(out') : out'[i].t = "00" => mode = "ready"
        /\ hit => mode = "ready"
    BY <2>1, InitResponse
  <2>a. tries \in Nat
    BY DEF MmcInv, MmcTypeOK, MmcAssumption
  <2>b. /\ accepted' \in BOOLEAN
        /\ \/ step' = "send1" /\ UNCHANGED result /\ tries > 0
           \/ step' = "caller" /\ result' = "cmd1"
           \/ step' = "send16" /\ UNCHANGED result /\ mode = "ready"
    BY <2>1, <2>2, <2>a
  <2>3. MmcTypeOK'
    BY <2>2, <2>b, WireType DEF MmcInv, MmcTypeOK
  <2>4. WireInv'
    BY <2>2, <2>b DEF WireInv, Quiet
  <2>5. CardInv'
    BY <2>2, <2>b DEF MmcInv, CardInv, Wanted
  <2> QED
    BY <2>2, <2>b, <2>3, <2>4, <2>5 DEF MmcInv, ReadyAfterSuccess
<1>3. CASE AfterCmd16
  <2>1. PICK hit \in BOOLEAN :
          /\ mmc_response("cmd16", hit)
          /\ cs' = FALSE /\ MmcReturn("ok")
          /\ UNCHANGED <<count, accepted>>
    BY <1>3 DEF AfterCmd16
  <2>2. /\ out' \in Seq(Bytes) /\ Quiet(out') /\ step = "cmd16"
        /\ UNCHANGED <<mode, tries, block, got, count, accepted>>
        /\ cs' = FALSE /\ step' = "caller" /\ result' = "ok"
    BY <2>1, InitResponse
  <2>3. MmcTypeOK'
    BY <2>2, WireType, Zenon DEF MmcInv, MmcTypeOK
  <2>4. WireInv'
    BY <2>2 DEF WireInv, Quiet
  <2>5. CardInv'
    BY <2>2 DEF MmcInv, CardInv, Wanted
  <2> QED
    BY <2>2, <2>3, <2>4, <2>5 DEF MmcInv, CardInv, ReadyAfterSuccess
<1> QED
  BY <1>1, <1>2, <1>3

(* The commands mmc_init sends after the first.                            *)
LEMMA SendKept ==
  ASSUME MmcAssumption, MmcInv, SendCmd1 \/ SendCmd16
  PROVE  MmcInv'
<1>1. CASE SendCmd1
  <2>1. /\ step = "send1" /\ step' = "cmd1" /\ count' = RESPONSE_TRIES
        /\ tries' = tries - 1 /\ SendOpCond
        /\ UNCHANGED <<block, result, got, cs, accepted>>
    BY <1>1 DEF SendCmd1, Await
  <2>2. /\ out \in Seq(Bytes) /\ Quiet(out) /\ tries > 0
        /\ \A i \in 1 .. Len(out) : out[i].t = "00" => mode = "ready"
        /\ mode \in {"off", "idle", "ready"}
    BY <2>1 DEF MmcInv, WireInv, CardInv, MmcTypeOK
  <2>3. /\ out' \in Seq(Bytes) /\ Quiet(out') /\ mode' \in {"off", "idle", "ready"}
        /\ \A i \in 1 .. Len(out') : out'[i].t = "00" => mode' = "ready"
    <3>1. CASE mode' = "ready" /\ CardCommand(<<Byte("00")>>)
      BY <2>2, <3>1, QuietCommand
    <3>2. CASE mode # "ready" /\ UNCHANGED mode /\ CardCommand(<<Byte("01")>>)
      <4>1. /\ out' \in Seq(Bytes) /\ Quiet(out')
            /\ \A i \in 1 .. Len(out') : out'[i].t = "00" =>
                 "01" = "00" \/ \E m \in 1 .. Len(out) : out[m].t = "00"
        BY <2>2, <3>2, QuietCommand
      <4> QED BY <2>2, <3>2, <4>1
    <3> QED BY <2>1, <3>1, <3>2 DEF SendOpCond
  <2>4. MmcTypeOK'
    BY <2>1, <2>2, <2>3, WireType DEF MmcInv, MmcTypeOK, MmcAssumption, Wanted
  <2>5. WireInv'
    BY <2>1, <2>3 DEF WireInv, Quiet
  <2>6. CardInv'
    BY <2>1, <2>3 DEF CardInv, MmcAssumption, Wanted
  <2> QED
    BY <2>1, <2>4, <2>5, <2>6 DEF MmcInv, ReadyAfterSuccess
<1>2. CASE SendCmd16
  <2>1. /\ step = "send16" /\ step' = "cmd16" /\ count' = RESPONSE_TRIES
        /\ CardCommand(<<Byte("00")>>)
        /\ UNCHANGED <<mode, tries, block, result, got, cs, accepted>>
    BY <1>2 DEF SendCmd16, SetBlockLen, Await
  <2>2. out \in Seq(Bytes) /\ Quiet(out) /\ mode = "ready"
    BY <2>1 DEF MmcInv, WireInv, CardInv
  <2>3. out' \in Seq(Bytes) /\ Quiet(out')
    BY <2>1, <2>2, QuietCommand
  <2>4. MmcTypeOK'
    BY <2>1, <2>3, WireType DEF MmcInv, MmcTypeOK, MmcAssumption, Wanted
  <2>5. WireInv'
    BY <2>1, <2>3 DEF WireInv, Quiet
  <2>6. CardInv'
    BY <2>1, <2>2 DEF CardInv, MmcAssumption, Wanted
  <2> QED
    BY <2>1, <2>4, <2>5, <2>6 DEF MmcInv, ReadyAfterSuccess
<1> QED
  BY <1>1, <1>2

(* The returns of mmc_response to mmc_read_block.                          *)
LEMMA AfterReadKept ==
  ASSUME MmcAssumption, MmcInv, AfterR1 \/ AfterToken
  PROVE  MmcInv'
<1>0. out \in Seq(Bytes)
  BY DEF MmcInv, WireInv
<1>1. CASE AfterR1
  <2>1. PICK hit \in BOOLEAN :
          /\ mmc_response("r1", hit)
          /\ IF hit THEN Await("token") /\ UNCHANGED result
             ELSE MmcReturn("r1") /\ UNCHANGED count
          /\ UNCHANGED <<cs, accepted>>
    BY <1>1 DEF AfterR1
  <2>2. /\ step = "r1" /\ Clocked(hit)
        /\ UNCHANGED <<mode, tries, block, got, cs, accepted>>
        /\ \/ step' = "token" /\ count' = RESPONSE_TRIES /\ UNCHANGED result
           \/ step' = "caller" /\ result' = "r1" /\ UNCHANGED count
    BY <2>1 DEF mmc_response, Await, MmcReturn
  <2>3. out' \in Seq(Bytes) /\ Answering(out)'
    BY <1>0, <2>2, AnswerClocked DEF MmcInv, WireInv
  <2>4. MmcTypeOK'
    BY <2>2, <2>3, WireType DEF MmcInv, MmcTypeOK, MmcAssumption, Wanted
  <2>5. WireInv'
    BY <2>2, <2>3 DEF WireInv
  <2>6. CardInv'
    BY <2>2 DEF MmcInv, CardInv, MmcAssumption, Wanted
  <2> QED
    BY <2>2, <2>4, <2>5, <2>6 DEF MmcInv, ReadyAfterSuccess
<1>2. CASE AfterToken
  <2>1. PICK hit \in BOOLEAN :
          /\ mmc_response("token", hit)
          /\ IF hit THEN Continue("data") ELSE MmcReturn("token") /\ UNCHANGED count
          /\ UNCHANGED <<cs, accepted>>
    BY <1>2 DEF AfterToken
  <2>2. /\ step = "token" /\ Clocked(hit)
        /\ UNCHANGED <<mode, tries, block, got, cs, accepted, count>>
        /\ \/ hit /\ step' = "data" /\ UNCHANGED result
           \/ step' = "caller" /\ result' = "token"
    BY <2>1 DEF mmc_response, Continue, MmcReturn
  <2>3. out' \in Seq(Bytes) /\ (hit => out' = <<Data(block)>>)
    BY <1>0, <2>2, AnswerClocked DEF MmcInv, WireInv
  <2>4. MmcTypeOK'
    BY <2>2, <2>3, WireType DEF MmcInv, MmcTypeOK, MmcAssumption, Wanted
  <2>5. WireInv'
    BY <2>2, <2>3, SMTT(30) DEF WireInv, Data
  <2>6. CardInv'
    BY <2>2 DEF MmcInv, CardInv, MmcAssumption, Wanted
  <2> QED
    BY <2>2, <2>4, <2>5, <2>6 DEF MmcInv, ReadyAfterSuccess
<1> QED
  BY <1>1, <1>2

(* The block that is received is the one that was asked for, and it was    *)
(* the last thing on the wire.                                             *)
LEMMA BlockReceived ==
  ASSUME MmcAssumption, MmcInv, ReceiveBlock
  PROVE  MmcInv' /\ got' = block
<1>1. out = <<Data(block)>> /\ step = "data" /\ mode = "ready" /\ block \in Blocks
  BY DEF ReceiveBlock, MmcInv, WireInv, CardInv
<1>2. out # <<>> /\ Head(out).b = block /\ Tail(out) = <<>>
  BY <1>1 DEF Data
<1>3. /\ got' = block /\ out' = <<>> /\ cs' = FALSE /\ step' = "caller"
      /\ result' = "ok" /\ UNCHANGED <<mode, count, tries, block, accepted>>
  BY <1>2 DEF ReceiveBlock, MmcReturn
<1>4. out' \in Seq(Bytes) /\ Len(out') = 0
  BY <1>3
<1>5. MmcTypeOK'
  BY <1>1, <1>3, <1>4, WireType, Zenon DEF MmcInv, MmcTypeOK
<1>6. WireInv'
  BY <1>3, <1>4 DEF WireInv, Quiet
<1>7. CardInv'
  BY <1>3 DEF CardInv, Wanted
<1> QED
  BY <1>1, <1>3, <1>5, <1>6, <1>7 DEF MmcInv, ReadyAfterSuccess

(* Each step of the driver and the card keeps the invariant.               *)
LEMMA MmcInductive ==
  ASSUME MmcAssumption, MmcInv, [MmcNext]_mmcVars
  PROVE  MmcInv'
<1>1. CASE UNCHANGED mmcVars
  BY <1>1 DEF mmcVars, driverVars, cardVars, MmcInv, MmcTypeOK, WireInv, CardInv,
     ReadyAfterSuccess, Quiet, Answering, AnswerFirst
<1> QED
  BY <1>1, InitKept, ReadKept, WaitKept, AfterInitKept, SendKept, AfterReadKept,
     BlockReceived, SMTT(30) DEF MmcNext

(* It holds at power-up.                                                   *)
LEMMA MmcStart ==
  ASSUME MmcAssumption, MmcInit
  PROVE  MmcInv
<1>1. out \in Seq(Bytes) /\ Len(out) = 0
  BY DEF MmcInit
<1> QED
  <2>1. \A i \in DOMAIN out : out[i].t \in {"00", "01", "05", "FE", "data"}
    BY <1>1, WireType
  <2>2. MmcTypeOK
    <3>1. count \in 0 .. RESPONSE_TRIES /\ tries \in 0 .. MMC_TIMEOUT
      BY DEF MmcInit, MmcAssumption
    <3>2. cs \in BOOLEAN /\ accepted \in BOOLEAN
      BY Zenon DEF MmcInit
    <3> QED BY <2>1, <3>1, <3>2 DEF MmcInit, MmcTypeOK
  <2>3. WireInv /\ CardInv /\ ReadyAfterSuccess
    BY <1>1 DEF MmcInit, WireInv, CardInv, ReadyAfterSuccess, Quiet, Wanted
  <2> QED BY <2>2, <2>3 DEF MmcInv
-----------------------------------------------------------------------------
(* Whatever the card answers and however late, after a routine of mmc.c    *)
(* that reports success the card is initialized and deselected.            *)
THEOREM SuccessIsReady ==
  ASSUME MmcAssumption
  PROVE  MmcSpec => []ReadyAfterSuccess
<1>1. MmcInv => ReadyAfterSuccess
  BY DEF MmcInv
<1>2. MmcInit => MmcInv
  BY MmcStart
<1>3. MmcInv /\ [MmcNext]_mmcVars => MmcInv'
  BY MmcInductive
<1> QED
  BY <1>1, <1>2, <1>3, PTL DEF MmcSpec

(* Whatever the card answers and however late, a read of mmc_read_block    *)
(* that reports success delivers the block it was asked for.               *)
THEOREM ReadsAreGenuine ==
  ASSUME MmcAssumption
  PROVE  MmcSpec => ReadGenuine
<1>1. ASSUME MmcInv, MmcNext, step = "data", step' = "caller"
      PROVE  got' = block
  <2>1. ReceiveBlock
    BY <1>1 DEF MmcNext, mmc_init, mmc_read_block, KeepWaiting, AfterCmd0, SendCmd1,
       AfterCmd1, SendCmd16, AfterCmd16, AfterR1, AfterToken, mmc_response, Wanted
  <2> QED BY <1>1, <2>1, BlockReceived, SMTT(30)
<1>2. MmcInv /\ [MmcNext]_mmcVars =>
        [(step = "data" /\ step' = "caller") => got' = block]_mmcVars
  BY <1>1
<1>3. MmcInit => MmcInv
  BY MmcStart
<1>4. MmcInv /\ [MmcNext]_mmcVars => MmcInv'
  BY MmcInductive
<1> QED
  BY <1>2, <1>3, <1>4, PTL DEF MmcSpec, ReadGenuine
=============================================================================
