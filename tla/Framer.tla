------------------------------- MODULE Framer -------------------------------
(***************************************************************************)
(* The length-field framer of framer/framer.go, and the frame header that  *)
(* EncodeV3Req of tglog/codec.go writes.  Bytes are digits of base Base;   *)
(* Go's int (and uint64) holds eight of them, from -Half to Half - 1.      *)
(***************************************************************************)
EXTENDS Integers, Sequences

CONSTANTS
    Base,   \* 256
    Half    \* 2^63

ASSUME FramerAssumption ==
    /\ Base \in Nat \ {0, 1}
    /\ Half \in Nat \ {0}

Bytes == 0..(Base - 1)
Ints == (-Half)..(Half - 1)

\* Arithmetic on int wraps around.
Wrap(n) == ((n + Half) % (2 * Half)) - Half

\* LengthFieldCfg
FieldLengths == {1, 2, 3, 4, 8}
LengthFieldCfg ==
    [LittleEndian : BOOLEAN, MaxFrameLen : Ints, FieldOffset : Ints,
     FieldLength : Ints, Adjustment : Ints, BytesToStrip : Ints]

defaultSize == 64 * 1024

\* NewLengthField: which configurations it accepts, and the limit it fills in.
Accepts(cfg) ==
    LET max == IF cfg.MaxFrameLen <= 0 THEN defaultSize ELSE cfg.MaxFrameLen
    IN  /\ cfg.FieldOffset >= 0
        /\ cfg.BytesToStrip >= 0
        /\ cfg.FieldLength \in FieldLengths
        /\ Wrap(cfg.FieldOffset + cfg.FieldLength) < max
NewLengthField(cfg) ==
    [cfg EXCEPT !.MaxFrameLen = IF @ <= 0 THEN defaultSize ELSE @]

\* The digits of the length field, the most significant first.
Digit(cfg, input, i) ==
    input[cfg.FieldOffset + (IF cfg.LittleEndian THEN cfg.FieldLength + 1 - i ELSE i)]

UnadjustedLen(cfg, input) ==
    LET d(i) == Digit(cfg, input, i)
        two(i) == d(i) * Base + d(i + 1)
        four(i) == two(i) * Base * Base + two(i + 2)
    IN  CASE cfg.FieldLength = 1 -> d(1)
          [] cfg.FieldLength = 2 -> two(1)
          [] cfg.FieldLength = 3 -> two(1) * Base + d(3)
          [] cfg.FieldLength = 4 -> four(1)
          [] OTHER -> four(1) * Base * Base * Base * Base + four(5)

Error(e) == [err |-> e, frameLen |-> 0, offset |-> 0, end |-> 0]

\* ReadFrame
ReadFrame(cfg, input) ==
    LET fieldEnd == Wrap(cfg.FieldOffset + cfg.FieldLength)
        unadjusted == UnadjustedLen(cfg, input)
        frameLen == Wrap(fieldEnd + cfg.Adjustment + Wrap(unadjusted))
    IN  IF Len(input) = 0 \/ Len(input) < fieldEnd THEN Error("incomplete")
        ELSE IF unadjusted = 0 THEN Error("invalidLen")
        ELSE IF frameLen < fieldEnd THEN Error("lessThanFieldEnd")
        ELSE IF frameLen > cfg.MaxFrameLen THEN Error("exceedMax")
        ELSE IF frameLen > Len(input) THEN Error("incomplete")
        ELSE IF cfg.BytesToStrip > frameLen THEN Error("noBytesToStrip")
        ELSE [err |-> "none", frameLen |-> frameLen, offset |-> cfg.BytesToStrip,
              end |-> cfg.BytesToStrip + (frameLen - cfg.BytesToStrip)]

=============================================================================
