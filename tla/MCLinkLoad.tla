----------------------------- MODULE MCLinkLoad -----------------------------
(* Programs for LinkLoad: units that share names and statics, functions     *)
(* defined more than once, and libraries that need each other.              *)
EXTENDS LinkLoad

Ext(n)      == Adr("OREG", "EXTERN", n, 0, NREG)
Sta(n)      == Adr("OREG", "STATIC", n, 0, NREG)
Auto(n, o)  == Adr("OREG", "AUTO", n, o, NREG)
Reg(r)      == Adr("REG", "NONE", "", 0, r)
Con(c)      == Adr("CONST", "NONE", "", c, NREG)
Lit(t, n)   == Adr(t, "NONE", "", n, NREG)
To(o)       == Adr("BRANCH", "NONE", "", o, NREG)

Text(s, flags)   == Prog("TEXT", s, flags, Con(8))
Call(s)          == Prog("JAL", None, NREG, s)
Jump(o)          == Prog("JMP", None, NREG, To(o))
Branch(a, r, q, o) == Prog(a, Reg(r), q, To(o))
Move(f, t)       == Prog("MOV", f, NREG, t)
Ret              == Prog("RET", None, NREG, None)
Global(s, n)     == Prog("GLOBL", s, NREG, Con(n))
Data(s, o, w)    == Prog("DATA", [s EXCEPT !.offset = o], w, Con(1))
Unit(n, libs, c) == [name |-> n, libs |-> libs, code |-> c]
Object(us)       == [archive |-> FALSE, dir |-> <<>>, units |-> us]
Archive(d)       == [archive |-> TRUE, dir |-> d, units |-> <<>>]
In(s, m)         == [sym |-> s, member |-> m]

\* A program that calls f, with branches over the rolling slots.
Main(libs, f, o) == Unit("main", libs, <<
  Global(Sta("x"), 12), Data(Sta("x"), 4, 4),
  Text(Ext("_main"), 0), Move(Auto("a", -4), Sta("x")), Move(Sta("x"), Auto("a", -8)),
  Branch("BGT", 1, 2, o), Call(Ext(f)), Move(Sta("x"), Auto("b", -12)),
  Branch("BLE", 2, NREG, 1), Prog("MOVF", Lit("FCONST", 7), NREG, Reg(1)), Move(Lit("VCONST", 9), Reg(2)), Ret,
  Text(Ext("dup"), DUPOK), Jump(12), Ret>>)

\* The same names once more: a static x of its own, and dup.
Other == Unit("other", <<>>, <<
  Text(Ext("dup"), DUPOK), Move(Auto("a", -4), Reg(1)), Branch("BEQ", 1, 2, 0), Ret,
  Text(Ext("f"), 0), Move(Sta("x"), Ext("y")), Call(Ext("dup")), Call(Sta("s")), Jump(5), Ret,
  Text(Sta("s"), 0), Prog("SGT", Reg(1), 2, Reg(1)), Prog("SUB", Con(1), 2, Reg(1)),
  Prog("MOVD", Lit("FCONST", 23), NREG, Reg(1)), Move(Lit("VCONST", 25), Reg(2)),
  Move(Adr("CONST", "NONE", "", 4, 2), Reg(1)), Ret,
  Global(Sta("x"), 4), Global(Ext("y"), 100), Global(Ext("z"), 72), Data(Ext("z"), 0, 4)>>)

\* Library functions: n is defined with a call of each of needs.
Member(n, needs, libs) == Unit(n, libs,
  <<Text(Ext(n), 0)>> \o [i \in 1..Len(needs) |-> Call(Ext(needs[i]))] \o <<Ret>>
  \o (IF needs = <<"h">> THEN <<Global(Sta("x"), 8)>> ELSE <<>>))

\* f and h are in liba, g and k in libb: f needs g, g needs h, h needs k.
Liba(order) == Archive([i \in 1..2 |-> IF i = order THEN In("f", "mf") ELSE In("h", "mh")])
Libb(order) == Archive([i \in 1..2 |-> IF i = order THEN In("g", "mg") ELSE In("k", "mk")])
Mf(x) == [Member("f", <<x>>, <<"libb">>) EXCEPT !.name = "mf"]
Mg(x) == [Member("g", <<x>>, <<>>) EXCEPT !.name = "mg"]
Mh(x) == [Member("h", <<x>>, <<"liba">>) EXCEPT !.name = "mh"]
Mk == [Member("k", <<"f">>, <<>>) EXCEPT !.name = "mk"]

Files(main, a, b, fx, gx, hx) ==
  [n \in {"main", "other", "both", "liba", "libb", "old", "mf", "mg", "mh", "mk"} |->
     CASE n = "main" -> Object(<<main>>) [] n = "other" -> Object(<<Other>>)
       [] n = "both" -> Object(<<main, [Other EXCEPT !.name = "also"]>>)
       [] n = "liba" -> Liba(a) [] n = "libb" -> Libb(b)
       [] n = "old" -> Archive(<<In("f", "mh")>>)
       [] n = "mf" -> Object(<<Mf(fx)>>) [] n = "mg" -> Object(<<Mg(gx)>>)
       [] n = "mh" -> Object(<<Mh(hx)>>) [] n = "mk" -> Object(<<Mk>>)]
Linking(as, files) == [args |-> as, files |-> files, members |-> {"mf", "mg", "mh", "mk"}]

\* Objects in any order, with and without what they need; one library too
\* many; an archive whose
\* directory is out of date.
Objects == {Linking(as, Files(Main(<<>>, "f", o), 1, 1, "g", "h", "k")) :
              as \in {<<"main", "other">>, <<"other", "main">>, <<"main">>, <<"both">>,
                        <<"both", "other">>, <<"main", "liba">>, <<"main", "liba", "libb">>},
              o \in {0, 6}}
           \cup {Linking(<<"main", "other">>, Files(Main(<<"liba", "libb", "old">>, "f", 0),
                                                    1, 1, "g", "h", "k")),
                 Linking(<<"main", "old">>, Files(Main(<<>>, "f", 0), 1, 1, "g", "h", "k"))}
\* Libraries the objects ask for: every order of the directories, members that
\* need one of their own library, of the other one, or of none.
Libraries == {Linking(<<"main">>, Files(Main(libs, "f", 0), a, b, fx, gx, hx)) :
                libs \in {<<"liba">>, <<"libb", "liba">>}, a, b \in 1..2,
                fx \in {"g", "h"}, gx \in {"h", "nowhere"}, hx \in {"k", "dup"}}
MCLinks == Objects \cup Libraries

\* A float and a 64-bit constant with the same digits.
SameDigits == {Linking(<<"main">>, Files(Unit("main", <<>>, <<Text(Ext("_main"), 0),
             Prog("MOVF", Lit("FCONST", 7), NREG, Reg(1)), Move(Lit("VCONST", 7), Reg(2)), Ret>>),
             1, 1, "g", "h", "k"))}
=============================================================================
