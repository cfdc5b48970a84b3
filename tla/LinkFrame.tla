----------------------------- MODULE LinkFrame -----------------------------
(* Frames of il: what ldobj makes of the size in a TEXT (cmd/il/obj.c) and  *)
(* where the operands of a function are (aclass in cmd/il/span.c).          *)
EXTENDS Integers
CONSTANT ptrsize   \* 4 or 8

\* A size and the link make a multiple of 8; a negative one is no frame.
FrameSize(o) == IF o < 0 THEN -ptrsize
                ELSE IF o = 0 THEN 0
                ELSE LET a == ((o + 3) \div 4) * 4
                     IN IF (a + ptrsize) % 8 # 0 THEN a + 4 ELSE a

\* Offsets from SP of automatics and parameters, in a frame of autosize.
AutoOffset(autosize, o)  == autosize + o
ParamOffset(autosize, o) == autosize + o + ptrsize
=============================================================================
