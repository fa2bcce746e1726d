---------------------------- MODULE FramerProofs ----------------------------
(***************************************************************************)
(* What OnTraffic relies on when it slices and discards what ReadFrame     *)
(* returns, for every configuration NewLengthField accepts and every       *)
(* stream: FrameWithinInput and CutAnywhere.                               *)
(***************************************************************************)
EXTENDS Framer, TLAPS

\* A configuration that NewLengthField accepts and whose end of the length
\* field is an int.
Usable(cfg) ==
    /\ cfg \in LengthFieldCfg
    /\ Accepts(cfg)
    /\ cfg.FieldOffset + cfg.FieldLength < Half

\* Wrapping yields an integer, ...
LEMMA WrapIsInt == \A n \in Int : Wrap(n) \in Int
  BY FramerAssumption, SMT DEF Wrap

\* ... and leaves what fits alone.
LEMMA WrapFits == \A n \in 0..(Half - 1) : Wrap(n) = n
  BY FramerAssumption, SMT DEF Wrap

\* The framer of an accepted configuration: its fields, and where the length
\* field ends.
LEMMA UsableFields ==
  ASSUME NEW cfg, Usable(cfg)
  PROVE  LET f == NewLengthField(cfg)
         IN  /\ f.FieldOffset \in Nat /\ f.FieldLength \in FieldLengths
             /\ f.BytesToStrip \in Nat /\ f.Adjustment \in Int /\ f.MaxFrameLen \in Int
             /\ f.LittleEndian = cfg.LittleEndian
             /\ Wrap(f.FieldOffset + f.FieldLength) = f.FieldOffset + f.FieldLength
  <1> DEFINE f == NewLengthField(cfg)
  <1>1. cfg \in [LittleEndian : BOOLEAN, MaxFrameLen : Int, FieldOffset : Int,
                 FieldLength : Int, Adjustment : Int, BytesToStrip : Int]
    BY FramerAssumption DEF Usable, LengthFieldCfg, Ints
  <1>2. /\ f.FieldOffset = cfg.FieldOffset /\ f.FieldLength = cfg.FieldLength
        /\ f.BytesToStrip = cfg.BytesToStrip /\ f.Adjustment = cfg.Adjustment
        /\ f.LittleEndian = cfg.LittleEndian
        /\ f.MaxFrameLen \in Int
    BY <1>1 DEF NewLengthField, defaultSize
  <1>3. cfg.FieldOffset \in Nat /\ cfg.BytesToStrip \in Nat /\ cfg.FieldLength \in FieldLengths
    BY <1>1 DEF Usable, Accepts
  <1>4. cfg.FieldOffset + cfg.FieldLength \in 0..(Half - 1)
    BY <1>3, FramerAssumption DEF Usable, FieldLengths
  <1>5. Wrap(cfg.FieldOffset + cfg.FieldLength) = cfg.FieldOffset + cfg.FieldLength
    BY <1>4, WrapFits
  <1> QED
    BY <1>1, <1>2, <1>3, <1>5

\* The shape of a framer.
IsFramer(f) ==
    /\ f.FieldOffset \in Nat /\ f.FieldLength \in FieldLengths
    /\ f.BytesToStrip \in Nat /\ f.Adjustment \in Int /\ f.MaxFrameLen \in Int
    /\ Wrap(f.FieldOffset + f.FieldLength) = f.FieldOffset + f.FieldLength

LEMMA DigitIsNat ==
  ASSUME NEW f, IsFramer(f), NEW input \in Seq(Bytes), Len(input) >= f.FieldOffset + f.FieldLength,
         NEW i \in 1..f.FieldLength
  PROVE  Digit(f, input, i) \in Nat
  <1> DEFINE k == f.FieldOffset + (IF f.LittleEndian THEN f.FieldLength + 1 - i ELSE i)
  <1>1. f.FieldOffset \in Nat /\ f.FieldLength \in Nat
    BY DEF IsFramer, FieldLengths
  <1>2. k \in 1..Len(input)
    BY <1>1
  <1>3. input[k] \in Bytes
    BY <1>2
  <1> QED
    BY <1>3, FramerAssumption DEF Digit, Bytes

LEMMA UnadjustedIsNat ==
  ASSUME NEW f, IsFramer(f), NEW input \in Seq(Bytes), Len(input) >= f.FieldOffset + f.FieldLength
  PROVE  UnadjustedLen(f, input) \in Nat
  <1> DEFINE d(i) == Digit(f, input, i)
             two(i) == d(i) * Base + d(i + 1)
             four(i) == two(i) * Base * Base + two(i + 2)
  <1>1. \A i \in 1..f.FieldLength : d(i) \in Nat
    BY DigitIsNat
  <1>2. Base \in Nat
    BY FramerAssumption
  <1>3. \A a, b \in Nat : a * Base + b \in Nat
    BY <1>2
  <1>4. \A a \in Nat : a * Base \in Nat
    BY <1>2
  <1>5. \A i \in Nat : i \in 1..f.FieldLength /\ i + 1 \in 1..f.FieldLength => two(i) \in Nat
    BY <1>1, <1>3
  <1>6. \A i \in Nat : i \in 1..f.FieldLength /\ i + 3 \in 1..f.FieldLength => four(i) \in Nat
    <2> SUFFICES ASSUME NEW i \in Nat, i \in 1..f.FieldLength, i + 3 \in 1..f.FieldLength
                 PROVE  four(i) \in Nat
      OBVIOUS
    <2>1. f.FieldLength \in Nat
      BY DEF IsFramer, FieldLengths
    <2>2. two(i) \in Nat
      BY <1>5, <2>1
    <2>3. two(i + 2) \in Nat
      <3>1. i + 2 \in Nat /\ i + 2 \in 1..f.FieldLength /\ (i + 2) + 1 \in 1..f.FieldLength
        BY <2>1
      <3> HIDE DEF two
      <3> QED
        BY <3>1, <1>5
    <2> HIDE DEF two
    <2>4. two(i) * Base \in Nat
      BY <2>2, <1>4
    <2> QED
      BY <2>3, <2>4, <1>3
  <1>7. CASE f.FieldLength = 1
    BY <1>1, <1>7 DEF UnadjustedLen
  <1>8. CASE f.FieldLength = 2
    <2>1. two(1) \in Nat
      BY <1>5, <1>8
    <2> QED
      BY <2>1, <1>8 DEF UnadjustedLen
  <1>9. CASE f.FieldLength = 3
    <2>1. two(1) \in Nat /\ d(3) \in Nat
      BY <1>1, <1>5, <1>9
    <2>2. two(1) * Base + d(3) \in Nat
      <3> HIDE DEF two, d
      <3> QED BY <2>1, <1>3
    <2> QED
      BY <2>2, <1>9 DEF UnadjustedLen
  <1>10. CASE f.FieldLength = 4
    <2>1. four(1) \in Nat
      BY <1>6, <1>10
    <2> QED
      BY <2>1, <1>10 DEF UnadjustedLen
  <1>11. CASE f.FieldLength = 8
    <2>1. four(1) \in Nat
      <3> HIDE DEF four
      <3> QED BY <1>6, <1>11
    <2>2. four(5) \in Nat
      <3> HIDE DEF four
      <3> QED BY <1>6, <1>11
    <2>3. four(1) * Base * Base * Base * Base + four(5) \in Nat
      <3> HIDE DEF four
      <3> QED BY <2>1, <2>2, <1>3, <1>4
    <2> QED
      BY <2>3, <1>11 DEF UnadjustedLen
  <1> QED
    BY <1>7, <1>8, <1>9, <1>10, <1>11 DEF IsFramer, FieldLengths

LEMMA UnadjustedSame ==
  ASSUME NEW f, NEW s, NEW t, f.FieldLength \in FieldLengths,
         \A i \in 1..f.FieldLength : Digit(f, s, i) = Digit(f, t, i)
  PROVE  UnadjustedLen(f, s) = UnadjustedLen(f, t)
  <1>1. CASE f.FieldLength = 1
    BY <1>1 DEF UnadjustedLen
  <1>2. CASE f.FieldLength = 2
    <2>1. Digit(f, s, 1) = Digit(f, t, 1) /\ Digit(f, s, 1 + 1) = Digit(f, t, 1 + 1)
      BY <1>2
    <2> QED BY <1>2, <2>1 DEF UnadjustedLen
  <1>3. CASE f.FieldLength = 3
    <2>1. /\ Digit(f, s, 1) = Digit(f, t, 1) /\ Digit(f, s, 1 + 1) = Digit(f, t, 1 + 1)
          /\ Digit(f, s, 3) = Digit(f, t, 3)
      BY <1>3
    <2> QED BY <1>3, <2>1 DEF UnadjustedLen
  <1>4. CASE f.FieldLength = 4
    <2>1. /\ Digit(f, s, 1) = Digit(f, t, 1) /\ Digit(f, s, 1 + 1) = Digit(f, t, 1 + 1)
          /\ Digit(f, s, 1 + 2) = Digit(f, t, 1 + 2)
          /\ Digit(f, s, 1 + 2 + 1) = Digit(f, t, 1 + 2 + 1)
      BY <1>4
    <2> QED BY <1>4, <2>1 DEF UnadjustedLen
  <1>5. CASE f.FieldLength = 8
    <2>1. /\ Digit(f, s, 1) = Digit(f, t, 1) /\ Digit(f, s, 1 + 1) = Digit(f, t, 1 + 1)
          /\ Digit(f, s, 1 + 2) = Digit(f, t, 1 + 2)
          /\ Digit(f, s, 1 + 2 + 1) = Digit(f, t, 1 + 2 + 1)
      BY <1>5
    <2>2. /\ Digit(f, s, 5) = Digit(f, t, 5) /\ Digit(f, s, 5 + 1) = Digit(f, t, 5 + 1)
          /\ Digit(f, s, 5 + 2) = Digit(f, t, 5 + 2)
          /\ Digit(f, s, 5 + 2 + 1) = Digit(f, t, 5 + 2 + 1)
      BY <1>5
    <2> QED BY <1>5, <2>1, <2>2 DEF UnadjustedLen
  <1> QED
    BY <1>1, <1>2, <1>3, <1>4, <1>5 DEF FieldLengths

LEMMA FrameLenIsInt ==
  ASSUME NEW f, IsFramer(f), NEW input \in Seq(Bytes), Len(input) >= f.FieldOffset + f.FieldLength
  PROVE  Wrap(Wrap(f.FieldOffset + f.FieldLength) + f.Adjustment + Wrap(UnadjustedLen(f, input))) \in Int
  <1>1. Wrap(UnadjustedLen(f, input)) \in Int
    BY UnadjustedIsNat, WrapIsInt
  <1>2. Wrap(f.FieldOffset + f.FieldLength) \in Int /\ f.Adjustment \in Int
    BY DEF IsFramer, FieldLengths
  <1> DEFINE a == Wrap(UnadjustedLen(f, input))
             b == Wrap(f.FieldOffset + f.FieldLength)
  <1>3. a \in Int /\ b \in Int
    BY <1>1, <1>2
  <1> HIDE DEF a, b
  <1>4. b + f.Adjustment + a \in Int
    BY <1>2, <1>3
  <1>5. Wrap(b + f.Adjustment + a) \in Int
    BY <1>4, WrapIsInt
  <1> QED
    BY <1>5 DEF a, b

\* The frame that ReadFrame returns lies within the input and has at least one
\* byte: OnTraffic's Peek and Discard of it succeed, its loop makes progress, and
\* the payload it slices out of the frame lies within the frame.
THEOREM FrameWithinInput ==
  ASSUME NEW cfg, Usable(cfg), NEW input \in Seq(Bytes),
         ReadFrame(NewLengthField(cfg), input).err = "none"
  PROVE  LET r == ReadFrame(NewLengthField(cfg), input)
         IN  /\ r.frameLen \in 1..Len(input)
             /\ r.frameLen <= NewLengthField(cfg).MaxFrameLen
             /\ 0 <= r.offset /\ r.offset <= r.end /\ r.end <= r.frameLen
  <1> DEFINE f == NewLengthField(cfg)
             fieldEnd == Wrap(f.FieldOffset + f.FieldLength)
             frameLen == Wrap(fieldEnd + f.Adjustment + Wrap(UnadjustedLen(f, input)))
  <1>1. IsFramer(f)
    BY UsableFields DEF IsFramer
  <1> HIDE DEF f
  <1>2. fieldEnd \in Nat /\ fieldEnd >= 1 /\ fieldEnd = f.FieldOffset + f.FieldLength
    BY <1>1 DEF IsFramer, FieldLengths
  <1>3. ReadFrame(f, input).err = "none"
    BY DEF f
  <1>4. Len(input) >= fieldEnd /\ Len(input) \in Nat
    BY <1>2, <1>3 DEF ReadFrame, Error
  <1>5. frameLen \in Int
    BY <1>1, <1>2, <1>4, FrameLenIsInt
  <1> HIDE DEF fieldEnd, frameLen
  <1>6. /\ ~(frameLen < fieldEnd) /\ ~(frameLen > f.MaxFrameLen)
        /\ ~(frameLen > Len(input)) /\ ~(f.BytesToStrip > frameLen)
    BY <1>3 DEF ReadFrame, Error, fieldEnd, frameLen
  <1>7. /\ ReadFrame(f, input).frameLen = frameLen
        /\ ReadFrame(f, input).offset = f.BytesToStrip
        /\ ReadFrame(f, input).end = f.BytesToStrip + (frameLen - f.BytesToStrip)
    BY <1>3 DEF ReadFrame, Error, fieldEnd, frameLen
  <1>8. /\ frameLen \in 1..Len(input) /\ frameLen <= f.MaxFrameLen
        /\ 0 <= f.BytesToStrip
        /\ f.BytesToStrip <= f.BytesToStrip + (frameLen - f.BytesToStrip)
        /\ f.BytesToStrip + (frameLen - f.BytesToStrip) <= frameLen
    BY <1>1, <1>2, <1>4, <1>5, <1>6 DEF IsFramer
  <1> QED
    BY <1>7, <1>8 DEF f

\* Where TCP cuts the stream does not matter: once ReadFrame has an answer other
\* than "incomplete", bytes that arrive later do not change it.
THEOREM CutAnywhere ==
  ASSUME NEW cfg, Usable(cfg), NEW input \in Seq(Bytes), NEW more \in Seq(Bytes),
         ReadFrame(NewLengthField(cfg), input).err # "incomplete"
  PROVE  ReadFrame(NewLengthField(cfg), input \o more) = ReadFrame(NewLengthField(cfg), input)
  <1> DEFINE f == NewLengthField(cfg)
             fieldEnd == Wrap(f.FieldOffset + f.FieldLength)
             frameLen(s) == Wrap(fieldEnd + f.Adjustment + Wrap(UnadjustedLen(f, s)))
             all == input \o more
  <1>1. IsFramer(f)
    BY UsableFields DEF IsFramer
  <1>2. ReadFrame(f, input).err # "incomplete"
    OBVIOUS
  <1> HIDE DEF f
  <1>3. /\ all \in Seq(Bytes) /\ Len(all) >= Len(input)
        /\ Len(input) \in Nat /\ Len(all) \in Nat
        /\ \A i \in 1..Len(input) : all[i] = input[i]
    OBVIOUS
  <1> HIDE DEF all
  <1>4. fieldEnd \in Nat /\ fieldEnd >= 1 /\ fieldEnd = f.FieldOffset + f.FieldLength
    BY <1>1 DEF IsFramer, FieldLengths
  <1>5. ~(Len(input) = 0) /\ ~(Len(input) < fieldEnd)
    BY <1>2 DEF ReadFrame, Error
  <1>6. \A i \in 1..f.FieldLength : Digit(f, all, i) = Digit(f, input, i)
    <2> TAKE i \in 1..f.FieldLength
    <2> DEFINE k == f.FieldOffset + (IF f.LittleEndian THEN f.FieldLength + 1 - i ELSE i)
    <2>1. f.FieldOffset \in Nat /\ f.FieldLength \in Nat
      BY <1>1 DEF IsFramer, FieldLengths
    <2>2. k \in 1..Len(input)
      BY <2>1, <1>3, <1>4, <1>5
    <2>3. all[k] = input[k]
      BY <2>2, <1>3
    <2> QED
      BY <2>3 DEF Digit
  <1>7. UnadjustedLen(f, all) = UnadjustedLen(f, input)
    BY <1>1, <1>6, UnadjustedSame DEF IsFramer
  <1>8. frameLen(all) = frameLen(input)
    BY <1>7
  <1>9. ~(Len(all) = 0) /\ ~(Len(all) < fieldEnd)
    BY <1>3, <1>4, <1>5
  <1>10. frameLen(input) \in Int
    BY <1>1, <1>3, <1>4, <1>5, FrameLenIsInt
  <1>11. frameLen(input) > Len(input) =>
            \/ UnadjustedLen(f, input) = 0
            \/ frameLen(input) < fieldEnd
            \/ frameLen(input) > f.MaxFrameLen
    BY <1>2, <1>5 DEF ReadFrame, Error
  <1>12. ~(frameLen(input) > Len(input)) => ~(frameLen(input) > Len(all))
    BY <1>3, <1>10
  <1> HIDE DEF fieldEnd, frameLen
  <1>13. ReadFrame(f, all) = ReadFrame(f, input)
    BY <1>5, <1>7, <1>8, <1>9, <1>11, <1>12 DEF ReadFrame, fieldEnd, frameLen
  <1> QED
    BY <1>13 DEF f, all

=============================================================================
