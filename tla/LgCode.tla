------------------------------- MODULE LgCode --------------------------------
(***************************************************************************)
(* lg.c: the infrared commands themselves. A frame is five bytes: the      *)
(* number of bits, then 28 or 32 bits of data, first bit first.            *)
(***************************************************************************)
EXTENDS Integers

Byte == 0 .. 255
Frame == [1 .. 5 -> Byte]

(* commands[].  What each row does in the air conditioner is known from    *)
(* the comments beside the rows only.                                      *)
commands == << << 28, 136, 192, 5, 16 >>,
               << 32, 129, 102, 129, 126 >>,
               << 32, 129, 102, 81, 174 >>,
               << 32, 129, 102, 161, 94 >>,
               << 32, 129, 102, 153, 102 >>,
               << 32, 129, 102, 249, 6 >>,
               << 32, 129, 102, 217, 38 >>,
               << 32, 129, 102, 65, 190 >> >>

(* lg_cmd(): commands + cmd*5. *)
Rows == 0 .. 7
LgCmd(cmd) == commands[cmd + 1]

(* lg_checksum() of three bytes: their sum in 8 bits, folded to a nibble.  *)
Fold(sum) == (sum + sum \div 16) % 16

(* Mutant: the high nibbles are left out. *)
LgChecksumNoFold(a, b, c) == (a + b + c) % 16

LgChecksum(a, b, c) == Fold((a + b + c) % 256)

(* The switch and the if chain of lg_create_cmd(). *)
FanCode(fan) == CASE fan = 1 -> 0 [] fan = 2 -> 2 [] fan = 3 -> 4 [] OTHER -> 0

(* Mutant: the step from 79 to 80 degrees goes down instead of up. *)
TempCodeStepDown(temp) ==
    CASE temp < 60 -> 1
      [] temp >= 60 /\ temp < 80 -> (temp - 60) \div 2 + 1
      [] temp >= 80 /\ temp < 86 -> (temp - 60) \div 2 - 2
      [] OTHER -> 255

TempCode(temp) ==
    CASE temp < 60 -> 1
      [] temp >= 60 /\ temp < 80 -> (temp - 60) \div 2 + 1
      [] temp >= 80 /\ temp < 86 -> (temp - 60) \div 2 + 2
      [] OTHER -> 255

(* (temp << 4) | fan, cut to 8 bits: the fan code is below 16. *)
SettingByte(temp, fan) == ((TempCode(temp) * 16) % 256) + FanCode(fan)

LgCreateCmd(temp, fan) ==
    << 28, 136, 0, SettingByte(temp, fan),
       LgChecksum(136, 0, SettingByte(temp, fan)) * 16 >>
-----------------------------------------------------------------------------
(* What a receiver makes of a 28-bit frame. *)
High(b) == b \div 16
Low(b) == b % 16

(* The checksum as lg.c:80-81 describes it: the last nibble is the sum of  *)
(* all data nibbles.                                                       *)
NibbleSum(f) == (High(f[2]) + Low(f[2]) + High(f[3]) + Low(f[3]) + High(f[4]) + Low(f[4])) % 16
ChecksumValid(f) == High(f[5]) = NibbleSum(f)

TempOf(f) == High(f[4])
FanOf(f) == Low(f[4])
=============================================================================
