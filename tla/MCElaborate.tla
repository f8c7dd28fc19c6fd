---------------------------- MODULE MCElaborate ----------------------------
(***************************************************************************)
(* Small modules of the source language: blocks of up to three statements  *)
(* over two-bit variables, the forms of expressions and targets, and       *)
(* clocked blocks.                                                         *)
(***************************************************************************)
EXTENDS CompilePasses
LOCAL INSTANCE SequencesExt

V2 == Vector(1, 0, FALSE)
D(kind, name, type) == [kind |-> kind, name |-> name, type |-> type]
a == Id("a")
b == Id("b")
c == Id("c")
y == Id("y")
t == Id("t")
q == Id("q")
N(n) == Unsized(n)
At(x, i) == E("bit", <<x, N(i)>>, "")
BitAt(x, i) == E("bit", <<x, i>>, "")
Part(x, l, r) == E("range", <<x, N(l), N(r)>>, "")
Bin(op, x, z) == E("binary", <<x, z>>, op)
Meet(x, z) == Bin("BITWISE_AND", x, z)
S(w, v) == Sized(w, FALSE, v)
Source(decls, combs, timings, assigns) ==
  [decls |-> decls, params |-> <<>>, localparams |-> <<>>, overrides |-> <<>>, combs |-> combs, timings |-> timings, assigns |-> assigns,
   instances |-> <<>>]
Ports == <<D("input", "a", V2), D("input", "b", V2), D("input", "c", OneBit), D("output", "y", V2), D("signal", "t", V2)>>
Item(labels, body) == [labels |-> labels, body |-> body]

Atoms == <<Assign(y, a), Assign(y, Meet(t, b)), Assign(t, b), Assign(At(y, 0), c), Assign(At(y, 1), At(t, 0)),
           Compound("BITWISE_XOR", y, a),
           If(c, Assign(y, b)), If(At(a, 0), Assign(At(y, 1), c)),
           IfElse(c, Assign(y, a), Assign(y, t)),
           IfElse(At(b, 0), Block(<<Assign(t, a), Assign(At(y, 0), c)>>), Assign(Part(y, 1, 0), b)),
           Case(a, <<Item(<<N(0), N(3)>>, Assign(y, b)), Item(<<N(1)>>, Assign(At(y, 0), c))>>, <<Assign(y, S(2, 1))>>, FALSE, FALSE),
           Case(a, <<Item(<<N(2)>>, Assign(y, t)), Item(<<N(1)>>, Assign(t, b))>>, <<>>, FALSE, FALSE)>>
CombBlocks ==
  LET n == Len(Atoms)
  IN [k \in 1 .. n * n |->
        Source(Ports, <<Block(<<IF (k \div 5) % 2 = 0 THEN Assign(y, a) ELSE Assign(t, a), Atoms[1 + (k % n)], Atoms[1 + ((k \div n) % n)],
                                Assign(t, y)>>)>>, <<>>, <<>>)]

\* one continuous assign of each expression; z is an output of one bit
G == [width |-> 2, signed |-> FALSE, dims |-> <<<<2, 1>>>>]
Up == [width |-> 2, signed |-> FALSE, dims |-> <<<<0, 1>>>>]
M == [width |-> 4, signed |-> FALSE, dims |-> <<<<1, 0>>, <<1, 0>>>>]
Pair == [name |-> "Pair", packed |-> TRUE, fields |-> <<[name |-> "hi", type |-> OneBit], [name |-> "lo", type |-> V2]>>]
Array(elem) == [dim |-> <<0, 1>>, elem |-> elem]
Un(op, x) == E("unary", <<x>>, op)
Cond(p, x, z) == E("cond", <<p, x, z>>, "")
Cat(parts) == E("concat", parts, "")
Field(x, f) == E("field", <<x>>, f)
Pat(items) == E("pattern", items, <<>>)
Given(decls) == [k \in DOMAIN decls |-> D("input", decls[k][1], decls[k][2])]
Assigned(decls, type, e) == Source(Given(decls) \o <<D("output", "y", type)>>, <<>>, <<>>, <<Block(<<Assign(y, e)>>)>>)
ABC == <<<<"a", V2>>, <<"b", V2>>, <<"c", OneBit>>>>
Words == <<Bin("BITWISE_AND", a, b), Bin("BITWISE_OR", a, b), Bin("BITWISE_XOR", a, b), Bin("BITWISE_XNOR", a, b),
           Bin("ADD", a, b), Bin("SUB", a, b), Bin("MUL", a, b), Bin("SHL", a, b), Bin("SHR", a, b),
           Un("BITWISE_NOT", a), Un("UNARY_NEGATE", a), Cond(c, a, b), Cond(E("not", <<a>>, ""), b, a), Cat(<<c, At(a, 0)>>),
           E("repeat", <<N(2), c>>, ""), E("sign", <<a>>, TRUE), E("cast", <<Cat(<<c, a>>)>>, Integer(2, FALSE)),
           E("cast", <<a>>, Integer(2, FALSE)), Part(a, 1, 0), S(2, 3), Bin("DIV", N(7), N(3)), Bin("MOD", N(7), N(4)),
           Bin("POWER", N(2), N(1)), Cond(S(1, 1), a, b), Bin("ADD", Bin("BITWISE_AND", a, b), b), E("named", <<a>>, V2),
           E("up", <<a, c, N(2)>>, ""), E("cast", <<E("bits", <<a>>, "")>>, Integer(2, FALSE))>>
BitForms == <<Bin("EQ", a, b), Bin("NEQ", a, b), Bin("LT", a, b), Bin("LE", a, b), Bin("GT", a, b), Bin("GE", a, b),
          Un("REDUCTION_AND", a), Un("REDUCTION_NAND", a), Un("REDUCTION_OR", a), Un("REDUCTION_NOR", a),
          Un("REDUCTION_XOR", a), Un("REDUCTION_XNOR", a), E("not", <<a>>, ""), E("land", <<a, b>>, ""),
          E("lor", <<a, c>>, ""), E("inside", <<a, E("span", <<S(2, 1), b>>, ""), S(2, 0)>>, ""),
          At(a, 1), BitAt(a, c), BitAt(a, b), E("up", <<a, N(1), N(1)>>, ""), E("down", <<a, b, N(1)>>, ""),
          E("cast", <<a>>, Integer(1, FALSE)), E("not", <<Bin("EQ", a, b)>>, "")>>
Shaped == <<Assigned(<<<<"a", G>>>>, OneBit, At(a, 1)), Assigned(<<<<"a", G>>>>, OneBit, At(a, 2)), Assigned(<<<<"a", G>>>>, V2, Part(a, 2, 1)),
            Assigned(<<<<"a", G>>, <<"b", V2>>>>, OneBit, BitAt(a, b)),
            Assigned(<<<<"a", G>>, <<"b", V2>>>>, OneBit, E("up", <<a, b, N(1)>>, "")),
            Assigned(<<<<"a", Up>>>>, OneBit, At(a, 0)), Assigned(<<<<"a", Up>>, <<"b", V2>>>>, OneBit, BitAt(a, b)),
            Assigned(<<<<"a", M>>>>, V2, At(a, 1)), Assigned(<<<<"a", M>>>>, OneBit, At(At(a, 1), 0)),
            Assigned(<<<<"a", Array(V2)>>, <<"c", OneBit>>>>, V2, BitAt(a, c)), Assigned(<<<<"a", Array(V2)>>>>, V2, At(a, 1)),
            Assigned(<<<<"a", Array(V2)>>>>, Array(V2), a), Assigned(<<<<"a", V2>>, <<"b", V2>>>>, Array(V2), Pat(<<a, b>>)),
            Assigned(<<<<"a", V2>>, <<"b", V2>>>>, Array(V2), E("pattern", <<a, b>>, <<E("default", <<>>, ""), N(0)>>)),
            Assigned(<<<<"a", Pair>>>>, Pair, a), Assigned(<<<<"a", Pair>>>>, V2, Field(a, "lo")), Assigned(<<<<"a", Pair>>>>, OneBit, Field(a, "hi")),
            Assigned(<<<<"a", Pair>>, <<"c", OneBit>>>>, Pair, Cond(c, a, a)), Assigned(<<<<"a", Vector(2, 0, FALSE)>>>>, Pair, a),
            Assigned(<<<<"a", Pair>>>>, Vector(2, 0, FALSE), a), Assigned(<<<<"a", V2>>, <<"c", OneBit>>>>, Pair, Pat(<<c, a>>)),
            Assigned(<<<<"a", V2>>, <<"c", OneBit>>>>, Pair, E("pattern", <<a, c>>, <<E("key", <<>>, "lo"), E("key", <<>>, "hi")>>)),
            Assigned(<<<<"a", V2>>, <<"c", OneBit>>>>, Pair, Cond(c, Pat(<<c, a>>), Pat(<<At(a, 0), a>>))),
            Assigned(<<<<"a", Array(Pair)>>>>, Array(Pair), a), Assigned(<<<<"a", V2>>, <<"b", V2>>>>, M, Pat(<<a, b>>)),
            Assigned(<<<<"a", V2>>, <<"c", OneBit>>>>, Pair, E("literal", <<Pat(<<c, a>>)>>, Pair)),
            Assigned(<<<<"a", Vector(2, 0, FALSE)>>>>, Pair, E("named", <<a>>, Pair))>>
Expressions == [k \in DOMAIN Words |-> Assigned(ABC, V2, Words[k])] \o [k \in DOMAIN BitForms |-> Assigned(ABC, OneBit, BitForms[k])] \o Shaped

\* expressions of more than one width; a shift, a negation or the arm of a conditional that is
\* narrower than its target is computed at its own width and is left out
Vn(n) == Vector(n - 1, 0, FALSE)
Negative(x) == Un("UNARY_NEGATE", x)
As(w, x) == E("cast", <<x>>, Integer(w, FALSE))
Widths ==
  LET Wide(w, e) == Assigned(ABC, Vn(w), e)
      Two(e, f) == Source(Given(ABC) \o <<D("output", "y", Vn(3)), D("output", "t", V2)>>, <<>>, <<>>,
                          <<Block(<<Assign(y, e), Assign(t, f)>>)>>)
      Backwards == <<<<"a", [dim |-> <<1, 2>>, elem |-> V2]>>, <<"b", V2>>, <<"c", OneBit>>>>
  IN <<Wide(3, Bin("ADD", a, b)), Wide(3, Bin("SUB", a, b)), Wide(4, Bin("MUL", a, b)), Wide(3, Cond(c, a, b)), Wide(3, Bin("SHR", a, c)),
       Wide(3, Cat(<<c, a>>)),
       Wide(1, Bin("ADD", a, b)), Wide(1, Bin("SUB", a, Negative(b))), Wide(3, Bin("SUB", a, As(2, Negative(b)))),
       Wide(3, Bin("ADD", a, As(2, Negative(a)))), Wide(3, Bin("BITWISE_AND", Bin("ADD", a, b), S(3, 5))), Wide(3, Bin("ADD", As(2, Bin("ADD", a, b)), c)),
       Wide(3, Bin("EQ", Bin("ADD", a, b), S(3, 4))), Wide(1, Bin("LT", Bin("ADD", a, b), S(3, 5))), Wide(3, E("sign", <<a>>, TRUE)),
       Wide(4, Cat(<<Cond(c, a, b), Cond(At(a, 0), b, a)>>)), Wide(4, Cat(<<Bin("BITWISE_AND", a, b), Bin("BITWISE_AND", b, S(2, 1))>>)),
       Wide(4, Cat(<<Cond(c, a, b), Cond(c, b, S(2, 1))>>)), Wide(4, Cat(<<At(a, 0), At(a, 1), S(1, 1), S(1, 0)>>)),
       Two(Bin("ADD", a, b), Bin("ADD", a, b)), Two(Bin("BITWISE_XOR", a, c), Bin("BITWISE_XOR", a, c)), Two(Bin("SUB", a, a), Bin("ADD", a, Negative(a))),
       Assigned(Backwards, V2, BitAt(a, c)), Assigned(Backwards, V2, BitAt(a, b)), Assigned(Backwards, V2, At(a, 2))>>

\* targets: each sequence of statements is one combinational block
Lit(n) == S(2, n)
V3 == Vector(2, 0, FALSE)
Comb(type, items) == Source(<<D("input", "a", V2), D("input", "b", V2), D("input", "c", OneBit), D("output", "y", type), D("signal", "t", V2)>>,
                            <<Block(<<Assign(t, a)>> \o items)>>, <<>>, <<>>)
Loop(body) == For("i", N(0), Bin("LT", Id("i"), N(2)), Bin("ADD", Id("i"), N(1)), body)
TargetForms == <<Comb(V2, <<Assign(y, a), Assign(BitAt(y, c), At(b, 0))>>),
         Comb(V2, <<Assign(y, a), Assign(BitAt(y, b), c), Assign(At(y, 0), At(a, 1))>>),
         Comb(V2, <<Assign(y, a), IfElse(c, Assign(BitAt(y, b), c), Assign(y, b))>>),
         Comb(V2, <<Assign(BitAt(y, b), c)>>),
         Comb(V3, <<Assign(y, S(3, 5)), Assign(E("up", <<y, b, N(2)>>, ""), a)>>),
         Comb(V3, <<Assign(y, S(3, 2)), Assign(E("down", <<y, b, N(2)>>, ""), a)>>),
         Comb(V2, <<Assign(y, b), Assign(E("up", <<y, c, N(1)>>, ""), At(a, 1))>>),
         Comb(V3, <<Assign(E("up", <<y, N(0), N(2)>>, ""), a), Assign(E("down", <<y, N(2), N(1)>>, ""), c)>>),
         Comb(V2, <<Assign(y, b), Compound("BITWISE_XOR", At(y, 0), At(a, 0)), Assign(At(y, 1), At(y, 0))>>),
         Comb(V2, <<Assign(y, a), Compound("ADD", y, b)>>), Comb(V2, <<Compound("ADD", y, b), Assign(y, a)>>),
         Comb(V3, <<Assign(Part(y, 2, 1), a), Assign(At(y, 0), c), If(c, Assign(Part(y, 1, 0), b))>>),
         Comb(V3, <<Assign(y, S(3, 1)), If(c, Assign(Part(y, 2, 1), a)), IfElse(At(b, 0), Assign(Part(y, 1, 0), b), Assign(At(y, 2), c))>>),
         Comb(V3, <<Assign(Part(y, 2, 1), a), If(c, Assign(At(y, 0), c))>>),
         Comb(Array(V2), <<Assign(At(y, 0), a), Assign(At(y, 1), b)>>), Comb(Array(V2), <<Assign(At(y, 0), a)>>),
         Comb(Array(V2), <<Assign(At(y, 1), b), Assign(At(y, 0), At(y, 1))>>),
         Comb(Array(V2), <<Assign(y, Pat(<<a, b>>)), If(c, Assign(At(y, 0), b))>>),
         Comb(Pair, <<Assign(Field(y, "hi"), c), Assign(Field(y, "lo"), b)>>), Comb(Pair, <<Assign(Field(y, "hi"), c)>>),
         Comb(Pair, <<Assign(y, Pat(<<c, a>>)), If(c, Assign(Field(y, "lo"), b))>>),
         Comb(Pair, <<Assign(y, Cat(<<c, a>>))>>), Comb(Array(Pair), <<Assign(At(y, 0), Pat(<<c, a>>)), Assign(At(y, 1), At(y, 0))>>),
         Comb(V2, <<Assign(Cat(<<t, y>>), Cat(<<b, a>>))>>), Comb(V2, <<Assign(Cat(<<y>>), Bin("BITWISE_OR", a, b))>>),
         Comb(M, <<Assign(At(y, 1), a), Assign(At(y, 0), b)>>), Comb(M, <<Assign(At(y, 1), a), Assign(At(At(y, 0), 0), c), Assign(At(At(y, 0), 1), c)>>),
         Comb(G, <<Assign(At(y, 2), c), Assign(At(y, 1), At(a, 0))>>), Comb(G, <<Assign(y, a), Assign(BitAt(y, b), c)>>),
         Comb(G, <<Assign(y, a), Assign(E("up", <<y, b, N(1)>>, ""), c)>>), Comb(G, <<Assign(Part(y, 2, 1), a)>>),
         Comb(Up, <<Assign(At(y, 0), c), Assign(At(y, 1), At(a, 0))>>), Comb(Up, <<Assign(y, a), Assign(BitAt(y, c), At(b, 0))>>),
         Comb(Up, <<Assign(Part(y, 0, 1), a)>>),
         Comb(V2, <<Loop(Assign(BitAt(y, Id("i")), BitAt(a, Bin("SUB", N(1), Id("i")))))>>),
         Comb(V2, <<Assign(y, b), Loop(If(BitAt(a, Id("i")), Assign(y, Bin("BITWISE_XOR", y, Cat(<<c, c>>)))))>>),
         Comb(Array(V2), <<Loop(Assign(BitAt(y, Id("i")), Bin("BITWISE_XOR", a, E("cast", <<Id("i")>>, Integer(2, FALSE)))))>>)>>

\* statements that choose
CaseBlocks ==
  LET Choice(labels, value) == Item(labels, Assign(y, value))
      C(items, default, unique, z) == Comb(V2, <<Case(a, items, default, unique, z)>>)
      Conditions(constant, items, default, unique) == Comb(V2, <<Case(S(1, constant), items, default, unique, FALSE)>>)
      four == <<Choice(<<N(0)>>, b), Choice(<<N(1)>>, a), Choice(<<N(2), N(3)>>, Lit(1))>>
      wild == <<Choice(<<Wild(0, 2)>>, b), Choice(<<Wild(2, 1)>>, Lit(1))>>
      flags == <<Choice(<<c>>, b), Choice(<<At(a, 0), At(a, 1)>>, a)>>
      \* a default that is not last and assigns the selector, which the arm after it leaves alone
      early == <<Block(<<Assign(t, Lit(0)), Assign(y, Lit(2))>>)>>
      DefaultFirst(selector, items, default, k) == Comb(V2, <<DefaultAt(Case(selector, items, default, FALSE, FALSE), k)>>)
      \* a unique case that leaves codes out, its target written in slices
      Sliced(before, item) == Comb(V3, before \o <<Case(a, <<Item(<<N(0)>>, item)>>, <<>>, TRUE, FALSE)>>)
  IN <<C(four, <<>>, FALSE, FALSE), C(four, <<>>, TRUE, FALSE), C(SubSeq(four, 1, 2), <<>>, TRUE, FALSE), C(SubSeq(four, 1, 2), <<>>, FALSE, FALSE),
       C(SubSeq(four, 1, 2), <<Assign(y, Lit(2))>>, TRUE, FALSE), C(<<Choice(<<N(1)>>, b), Choice(<<N(1)>>, a)>>, <<Assign(y, a)>>, FALSE, FALSE),
       C(wild, <<>>, FALSE, TRUE), C(wild, <<Assign(y, a)>>, FALSE, TRUE), C(wild, <<Assign(y, a)>>, TRUE, TRUE), C(SubSeq(wild, 1, 1), <<>>, TRUE, TRUE),
       C(SubSeq(wild, 1, 1), <<>>, FALSE, TRUE), C(<<Choice(<<Wild(0, 3)>>, b)>>, <<>>, FALSE, TRUE),
       Conditions(1, flags, <<Assign(y, Lit(2))>>, FALSE), Conditions(1, flags, <<Assign(y, Lit(2))>>, TRUE), Conditions(0, flags, <<Assign(y, Lit(2))>>, FALSE),
       Conditions(1, flags, <<>>, TRUE), Conditions(1, flags, <<>>, FALSE), Conditions(1, SubSeq(flags, 1, 1), <<Assign(y, a)>>, FALSE),
       DefaultFirst(a, SubSeq(four, 1, 2), <<Assign(y, Lit(2))>>, 0), DefaultFirst(t, SubSeq(four, 1, 2), early, 0),
       DefaultFirst(t, SubSeq(four, 1, 2), early, 1), DefaultFirst(S(1, 1), flags, <<Assign(y, Lit(2))>>, 0), DefaultFirst(S(1, 1), flags, early, 1),
       Sliced(<<Assign(y, S(3, 1))>>, Assign(Part(y, 2, 1), a)), Sliced(<<Assign(y, S(3, 1)), Assign(At(y, 0), c)>>, Assign(Part(y, 2, 1), a)),
       Sliced(<<>>, Block(<<Assign(Part(y, 2, 1), a), Assign(At(y, 0), c)>>)),
       Comb(V2, <<If(S(1, 1), Assign(y, a)), If(S(1, 0), Assign(y, b))>>), Comb(V2, <<IfElse(S(1, 0), Assign(y, a), Assign(y, b))>>),
       \* the branch that is taken cannot be lowered
       Comb(V2, <<IfElse(S(1, 1), If(c, Assign(y, a)), Assign(y, b))>>), Comb(V2, <<IfElse(S(1, 0), Assign(y, a), Assign(BitAt(y, c), c))>>),
       Comb(V3, <<Assign(y, S(3, 0)), Case(a, <<Item(<<N(0)>>, Assign(At(y, 2), c)), Item(<<N(3)>>, Assign(Part(y, 1, 0), b))>>, <<>>, FALSE, FALSE)>>),
       Comb(V3, <<Assign(At(y, 0), c), Case(a, <<Item(<<N(0)>>, Assign(Part(y, 2, 1), a))>>, <<Assign(y, S(3, 6))>>, TRUE, FALSE)>>),
       Comb(V2, <<IfElse(c, IfElse(At(a, 0), Assign(y, a), Assign(y, b)), Case(b, four, <<>>, FALSE, FALSE))>>),
       [Comb(V2, <<Assign(y, Bin("BITWISE_XOR", Id("P"), a))>>) EXCEPT !.params = <<Parameter("P", V2, <<N(2)>>)>>],
       [Comb(V2, <<IfElse(Bin("EQ", Id("P"), N(2)), Assign(y, a), Assign(y, b))>>) EXCEPT !.params = <<Parameter("P", V2, <<N(2)>>)>>]>>

\* clocked blocks: the registers q and r
r == Id("r")
Rising(port) == <<<<"posedge", port>>>>
Clocked(items) == [triggers |-> Rising("k"), body |-> Block(items)]
\* a variable that no clocked block writes is not a register
Clocking(type, items) ==
  LET Kind(name) == IF name \in Meaning!Targets(Block(items)) THEN "flop" ELSE "input"
  IN Source(<<D("clock", "k", OneBit), D("input", "a", V2), D("input", "c", OneBit), D(Kind("q"), "q", type), D(Kind("r"), "r", V2), D("output", "y", V2)>>,
            <<>>, <<Clocked(items)>>, <<Block(<<Assign(y, r)>>)>>)
Pulses == <<NonBlocking(q, a), NonBlocking(q, r), NonBlocking(At(q, 0), c), NonBlocking(BitAt(q, c), At(r, 1)), NonBlocking(r, q),
            If(c, NonBlocking(q, a)), IfElse(c, NonBlocking(q, a), NonBlocking(At(q, 1), At(r, 0))), If(At(a, 0), NonBlocking(Part(q, 1, 0), r)),
            Case(a, <<Item(<<N(0)>>, NonBlocking(q, r)), Item(<<N(2)>>, NonBlocking(At(q, 0), At(a, 1)))>>, <<>>, FALSE, FALSE),
            Case(r, <<Item(<<N(1)>>, NonBlocking(q, a))>>, <<NonBlocking(r, a)>>, TRUE, FALSE), NonBlocking(Cat(<<q, r>>), Cat(<<a, q>>)),
            Compound("ADD", q, a)>>
RegisterBlocks ==
  LET n == Len(Pulses)
  IN [k \in 1 .. n * n |-> Clocking(V2, <<Pulses[1 + (k % n)], Pulses[1 + (k - 1) \div n]>>)]
     \o <<Clocking(Array(OneBit), <<NonBlocking(At(q, 0), c), If(c, NonBlocking(At(q, 1), At(q, 0)))>>),
          Clocking(Array(OneBit), <<NonBlocking(q, Pat(<<c, At(a, 0)>>))>>), Clocking(Pair, <<If(c, NonBlocking(Field(q, "lo"), a)), NonBlocking(Field(q, "hi"), At(a, 0))>>),
          Clocking(Pair, <<NonBlocking(q, Pat(<<c, r>>))>>), Clocking(V2, <<Loop(If(BitAt(a, Id("i")), NonBlocking(BitAt(q, Id("i")), c)))>>)>>

\* several blocks
Blocks ==
  LET S2(combs, timings, assigns) == Source(<<D("clock", "k", OneBit), D("clock", "j", OneBit), D("input", "a", V2), D("input", "c", OneBit), D("flop", "q", V2),
                                              D("output", "y", V2), D("signal", "t", V2)>>,
                                            combs, timings, assigns)
      hold == <<Clocked(<<NonBlocking(q, a)>>)>>
      set(x, v) == Block(<<Assign(x, v)>>)
      later(x, v) == [triggers |-> <<>>, body |-> set(x, v)]
      ticks(port, items) == [triggers |-> Rising(port), body |-> Block(items)]
  IN <<S2(<<set(t, a)>>, hold, <<set(y, t)>>), S2(<<set(y, t)>>, hold, <<set(t, Meet(a, q))>>), S2(<<set(t, a), set(y, t)>>, hold, <<>>),
       S2(<<set(t, y)>>, hold, <<set(y, t)>>), S2(<<set(t, y), set(y, q)>>, hold, <<>>), S2(<<set(y, a)>>, hold, <<set(y, q), set(t, a)>>),
       S2(<<set(At(y, 0), c)>>, hold, <<set(At(y, 1), At(a, 0)), set(t, q)>>), S2(<<set(y, a)>>, hold, <<set(At(y, 1), At(a, 0)), set(t, q)>>),
       S2(<<set(At(y, 1), c)>>, hold, <<set(y, a), set(t, q)>>), S2(<<>>, hold, <<set(At(y, 0), c), set(At(y, 1), At(t, 0)), set(t, q)>>),
       S2(<<>>, hold, <<set(At(y, 0), c), set(Part(y, 1, 0), a), set(t, q)>>), S2(<<>>, <<later(y, t), later(t, q)>> \o hold, <<>>),
       S2(<<set(y, a)>>, <<later(t, Meet(q, y))>> \o hold, <<>>), S2(<<set(y, a)>>, hold \o hold, <<set(t, q)>>),
       S2(<<set(y, q)>>, <<ticks("k", <<NonBlocking(At(q, 0), c)>>), ticks("k", <<NonBlocking(At(q, 1), At(a, 0))>>)>>, <<set(t, q)>>),
       S2(<<set(y, a)>>, <<ticks("k", <<NonBlocking(q, a)>>), ticks("j", <<NonBlocking(q, y)>>)>>, <<set(t, q)>>),
       S2(<<set(y, a)>>, <<ticks("k", <<NonBlocking(At(q, 0), c)>>), ticks("j", <<NonBlocking(q, y)>>)>>, <<set(t, q)>>)>>
\* asynchronous resets: the event, its test, what it assigns, and what happens otherwise
rst == Id("rst")
Tests == <<<<"posedge", rst>>, <<"negedge", E("not", <<rst>>, "")>>, <<"negedge", Un("BITWISE_NOT", rst)>>,
           <<"posedge", Bin("EQ", rst, S(1, 1))>>, <<"negedge", Bin("EQ", rst, S(1, 0))>>>>
Reset(kind, type, test, first, then, otherwise) ==
  LET events == <<<<test[1], "rst">>, <<"posedge", "k">>>>
  IN Source(<<D("clock", "k", OneBit), D("input", "rst", OneBit), D("input", "a", V2), D("input", "c", OneBit), D(kind, "q", type), D("output", "y", OneBit)>>,
            <<>>, <<[triggers |-> IF first THEN events ELSE <<events[2], events[1]>>, body |-> Block(<<IfElse(test[2], then, otherwise)>>)]>>,
            <<Block(<<Assign(y, c)>>)>>)
Clears == <<NonBlocking(q, S(2, 2)), Block(<<NonBlocking(At(q, 1), S(1, 0)), NonBlocking(At(q, 0), S(1, 1))>>)>>
Updates == <<NonBlocking(q, a), If(c, NonBlocking(q, a)), Block(<<NonBlocking(At(q, 0), c), NonBlocking(At(q, 1), At(a, 0))>>),
             If(c, NonBlocking(At(q, 1), At(a, 0))), NonBlocking(q, Bin("ADD", q, a)), NonBlocking(BitAt(q, c), At(a, 1)),
             Case(a, <<Item(<<N(1)>>, NonBlocking(q, S(2, 2))), Item(<<N(2)>>, NonBlocking(At(q, 0), c))>>, <<>>, FALSE, FALSE),
             NonBlocking(q, Cond(c, a, S(2, 2))), Block(<<>>)>>
Resets ==
  LET n == Len(Updates)
  IN [k \in 1 .. n * 2 * 5 |-> Reset(IF k % 2 = 0 THEN "flop" ELSE "register", V2, Tests[1 + (k % 5)], k % 3 = 0,
                                     Clears[1 + ((k \div n) % 2)], Updates[1 + (k % n)])]
     \o <<Reset("flop", Pair, Tests[1], TRUE, NonBlocking(q, Pat(<<S(1, 1), S(2, 2)>>)), NonBlocking(q, Pat(<<c, a>>))),
          Reset("flop", Pair, Tests[2], TRUE, Block(<<NonBlocking(Field(q, "hi"), S(1, 1)), NonBlocking(Field(q, "lo"), S(2, 1))>>), NonBlocking(Field(q, "lo"), a)),
          Reset("register", Array(V2), Tests[3], FALSE, NonBlocking(q, Pat(<<S(2, 1), S(2, 2)>>)), If(c, NonBlocking(At(q, 0), a))),
          Reset("flop", V2, Tests[1], FALSE, NonBlocking(q, S(2, 2)), NonBlocking(q, S(2, 2))),
          Reset("flop", OneBit, Tests[1], FALSE, NonBlocking(q, S(1, 1)), NonBlocking(q, S(1, 0))),
          Reset("flop", OneBit, Tests[2], FALSE, NonBlocking(q, S(1, 0)), NonBlocking(q, E("not", <<q>>, "")))>>
\* parameters: the types of the ports in terms of them, and the ways to write their values
IntType == Packed(IntBits, TRUE, <<>>)
Span(left, right) == Packed(1, FALSE, <<<<left, right>>>>)
Under(params, localparams, overrides, src) ==
  [src EXCEPT !.params = params, !.localparams = localparams, !.overrides = overrides]
P == Id("P")
L == Id("L")
Less(e) == Bin("SUB", e, N(1))
More(e) == Bin("ADD", e, N(1))
Is(name, type, e) == Parameter(name, type, <<e>>)
KeyedPair(keys, items) == E("pattern", items, [k \in DOMAIN keys |-> IF keys[k] = "default" THEN E("default", <<>>, "") ELSE E("key", <<>>, keys[k])])
Parameters ==
  LET one(type, e) == Assigned(<<<<"a", type>>, <<"c", OneBit>>>>, type, e)
      Of(type, value, target, e) == Under(<<Is("P", type, value)>>, <<>>, <<>>, Assigned(ABC, target, e))
      Local(type, value, e) == Under(<<Is("P", IntType, N(2))>>, <<Is("L", type, value)>>, <<>>, Assigned(ABC, V2, e))
      Sized2(overrides) == Under(<<Is("P", IntType, N(2))>>, <<>>, overrides, one(Span(Less(P), N(0)), Bin("BITWISE_XOR", a, P)))
      Derived(overrides) ==
        Under(<<Is("P", IntType, N(1)), Is("L", IntType, More(P))>>, <<>>, overrides, one(Span(Less(L), N(0)), Bin("ADD", a, c)))
      Inner(overrides) ==
        Under(<<Is("P", IntType, N(1))>>, <<Is("L", Span(P, N(0)), Bin("SHL", P, N(1)))>>, overrides,
              Source(Given(<<<<"a", Span(P, N(0))>>>>) \o <<D("output", "y", Span(P, N(0))), D("signal", "t", Span(P, N(0)))>>, <<>>, <<>>,
                     <<Block(<<Assign(t, Bin("BITWISE_OR", a, L))>>), Block(<<Assign(y, t)>>)>>))
      Fields == [Pair EXCEPT !.fields[2].type = Span(Less(P), N(0))]
      Fielded(overrides) ==
        Under(<<Is("P", IntType, N(2))>>, <<>>, overrides,
              Source(Given(ABC) \o <<D("output", "y", V2), D("signal", "t", Fields)>>, <<>>, <<>>,
                     <<Block(<<Assign(t, Pat(<<c, a>>))>>), Block(<<Assign(y, Cat(<<Field(t, "hi"), BitAt(Field(t, "lo"), N(0))>>))>>)>>))
      Table == Unpacked(<<N(2)>>, V2)
      Loops(overrides) ==
        Under(<<Is("P", IntType, N(2))>>, <<>>, overrides,
              Source(Given(<<<<"a", Span(Less(P), N(0))>>>>) \o <<D("output", "y", Span(Less(P), N(0)))>>, <<>>, <<>>,
                     <<Block(<<For("i", N(0), Bin("LT", Id("i"), P), More(Id("i")),
                                   Assign(BitAt(y, Id("i")), BitAt(a, Bin("SUB", Less(P), Id("i")))))>>)>>))
  IN <<Sized2(<<>>), Sized2("P" :> 3), Sized2("P" :> 1), Derived(<<>>), Derived("P" :> 2), Derived("L" :> 3), Inner(<<>>), Inner("P" :> 2),
       Loops(<<>>), Loops("P" :> 3),
       Under(<<Is("P", IntType, N(2))>>, <<>>, "P" :> 3, Assigned(<<<<"a", Unpacked(<<P>>, V2)>>>>, V2, At(a, 2))),
       Fielded(<<>>), Fielded("P" :> 1),
       Under(<<Is("P", IntType, N(2))>>, <<>>, <<>>, Assigned(<<<<"a", Packed(1, FALSE, <<<<P, N(1)>>, <<N(0), Less(P)>>>>)>>>>, V2, At(a, 2))),
       Local(IntType, More(P), Bin("ADD", a, L)), Local(V2, Bin("MUL", P, N(3)), Bin("BITWISE_XOR", a, L)), Local(Implicit, More(P), Bin("BITWISE_AND", a, L)),
       Local(Span(P, N(1)), S(2, 2), Cond(BitAt(L, N(1)), a, b)), Local(V2, E("fill", <<>>, -1), Bin("BITWISE_AND", a, L)),
       Local(V2, E("fill", <<>>, 0), Bin("BITWISE_OR", a, L)), Local(V2, Cat(<<S(1, 1), S(1, 0)>>), Bin("ADD", a, L)),
       Local(V2, E("repeat", <<P, S(1, 1)>>, ""), Bin("BITWISE_AND", a, L)), Local(OneBit, Bin("EQ", P, N(2)), Cond(L, a, b)),
       Local(V2, Cond(Bin("GT", P, N(1)), N(1), N(2)), Bin("SUB", a, L)), Local(IntType, E("bits", <<P>>, ""), Bin("ADD", a, L)),
       Of(Pair, Pat(<<S(1, 1), S(2, 2)>>), V2, Bin("BITWISE_XOR", a, Field(P, "lo"))), Of(Pair, Pat(<<S(1, 1), S(2, 2)>>), V2, Cond(Field(P, "hi"), a, b)),
       Of(Pair, KeyedPair(<<"lo", "hi">>, <<S(2, 1), S(1, 0)>>), V2, Bin("ADD", a, Field(P, "lo"))),
       Of(Pair, KeyedPair(<<"lo", "default">>, <<S(2, 1), S(1, 1)>>), V2, Cond(Field(P, "hi"), a, Field(P, "lo"))),
       Of(Pair, E("literal", <<Pat(<<S(1, 0), S(2, 3)>>)>>, Pair), Pair, P), Of(Pair, S(3, 6), Pair, Cond(c, P, Pat(<<c, a>>))),
       Of(Pair, E("fill", <<>>, -1), V2, Field(P, "lo")), Of(Pair, Pat(<<S(1, 1)>>), V2, a), Of(Pair, KeyedPair(<<"lo">>, <<S(2, 1)>>), V2, a),
       Of(Table, Pat(<<N(1), N(2)>>), V2, BitAt(P, c)), Of(Table, Pat(<<N(1), N(2)>>), V2, Bin("ADD", a, At(P, 1))),
       Of(Table, KeyedPair(<<"default">>, <<N(2)>>), V2, BitAt(P, c)), Of(Table, Pat(<<N(1), N(2)>>), Table, P), Of(Table, Pat(<<N(1)>>), V2, a),
       Under(<<Is("P", Pair, Pat(<<S(1, 1), S(2, 2)>>)), Is("L", V2, Field(P, "lo"))>>, <<>>, <<>>, Assigned(ABC, V2, Bin("ADD", a, L))),
       Under(<<Parameter("P", IntType, <<>>)>>, <<>>, <<>>, Assigned(ABC, V2, Bin("ADD", a, b))),
       Under(<<Parameter("P", IntType, <<>>)>>, <<>>, "P" :> 1, Assigned(ABC, V2, Bin("BITWISE_XOR", a, P))),
       Under(<<Is("P", IntType, L), Is("L", IntType, N(1))>>, <<>>, <<>>, Assigned(ABC, V2, a)), Under(<<Is("P", IntType, Id("Q"))>>, <<>>, <<>>, Assigned(ABC, V2, a)),
       Under(<<Is("P", IntType, L)>>, <<Is("L", IntType, N(1))>>, <<>>, Assigned(ABC, V2, a)), Under(<<>>, <<Parameter("L", IntType, <<>>)>>, <<>>, Assigned(ABC, V2, a)),
       Under(<<Is("P", IntType, N(2))>>, <<>>, "P" :> 3, Comb(V2, <<IfElse(Bin("EQ", P, N(2)), Assign(y, a), Assign(y, b))>>)),
       Under(<<Is("P", IntType, N(2))>>, <<>>, <<>>, Comb(V2, <<Case(a, <<Item(<<P>>, Assign(y, b)), Item(<<More(P)>>, Assign(y, a))>>, <<Assign(y, P)>>, FALSE, FALSE)>>)),
       Under(<<Is("P", V2, N(2))>>, <<>>, <<>>, Comb(V2, <<Assign(y, E("fill", <<>>, -1)), Assign(BitAt(y, Less(P)), c)>>)),
       Of(V2, N(2), V2, E("cast", <<a>>, Integer(2, FALSE))), Of(V2, N(2), V2, Cond(At(P, 1), a, b)), Of(V2, N(2), V2, Cond(BitAt(P, c), a, b)),
       Of(V2, N(1), V2, Part(P, 1, 0)), Assigned(ABC, V2, E("fill", <<>>, -1)), Assigned(ABC, V2, Bin("BITWISE_XOR", a, E("fill", <<>>, -1)))>>
\* the arms of a case statement assign the variable that selects
SelectorAssigned ==
  <<Comb(V2, <<Assign(y, b), Case(t, <<Item(<<N(0)>>, Assign(t, Lit(1))), Item(<<N(1)>>, Block(<<Assign(y, a), Assign(t, Lit(0))>>))>>, <<>>, FALSE, FALSE)>>)>>
\* instances: children with logic, registers, aggregates, parameters and a child of their own, the
\* forms of connections, and what the parent does besides
Inst(name, module, conns) == [name |-> name, module |-> module, overrides |-> <<>>, connections |-> conns]
Where(overrides, instance) == [instance EXCEPT !.overrides = [k \in DOMAIN overrides |-> [name |-> overrides[k][1], expr |-> overrides[k][2]]]]
To(port, e) == [kind |-> "named", port |-> port, expr |-> e]
Same(port) == [kind |-> "implicit", port |-> port, expr |-> Id(port)]
Open(port) == [kind |-> "open", port |-> port, expr |-> Id(port)]
Every == [kind |-> "wildcard", port |-> "", expr |-> Id("")]
Ordered == [kind |-> "ordered", port |-> "", expr |-> Id("")]
x == Id("x")
Logic == Source(<<D("input", "a", V2), D("input", "b", V2), D("output", "y", V2), D("signal", "t", V2)>>,
                <<Block(<<Assign(t, Meet(a, b)), If(At(a, 0), Assign(t, b))>>)>>, <<>>, <<Block(<<Assign(y, Bin("ADD", t, a))>>)>>)
Either == Assigned(SubSeq(ABC, 1, 2), V2, Bin("BITWISE_OR", a, b))
Flag == Source(<<D("input", "a", V2), D("output", "c", OneBit)>>, <<>>, <<>>, <<Block(<<Assign(c, Un("REDUCTION_XOR", a))>>)>>)
Halves(type) == Source(<<D("input", "p", type), D("input", "a", V2), D("output", "y", type)>>, <<>>, <<>>, <<Block(<<Assign(y, Cond(At(a, 0), Id("p"), Pat(<<At(a, 1), a>>)))>>)>>)
Scaled == Under(<<Is("P", IntType, N(1))>>, <<Is("L", IntType, More(P))>>, <<>>, Source(<<D("input", "a", Span(P, N(0))), D("output", "y", Span(P, N(0)))>>, <<>>, <<>>, <<Block(<<Assign(y, Bin("ADD", a, L))>>)>>))
Outer == [Source(<<D("input", "a", V2), D("input", "b", V2), D("output", "y", V2), D("signal", "x", V2)>>, <<>>, <<>>, <<Block(<<Assign(y, Bin("BITWISE_OR", x, b))>>)>>)
          EXCEPT !.instances = <<Inst("v", Logic, <<Same("a"), To("b", Un("BITWISE_NOT", b)), To("y", x)>>)>>]
Hold(kind) == Source(<<D("clock", "k", OneBit), D("input", "a", V2), D(kind, "q", V2)>> \o IF kind = "flop" THEN <<D("output", "y", V2)>> ELSE <<>>, <<>>,
                     <<Clocked(<<NonBlocking(q, Bin("ADD", a, q))>>)>>, IF kind = "flop" THEN <<Block(<<Assign(y, Un("BITWISE_NOT", q))>>)>> ELSE <<>>)
Cleared(kind) == Reset(kind, V2, Tests[2], TRUE, Clears[1], Updates[3])
Instances ==
  LET Over(assigns, instances) == [Source(Ports \o <<D("signal", "x", V2)>>, <<>>, <<>>, assigns) EXCEPT !.instances = instances]
      set(l, e) == Block(<<Assign(l, e)>>)
      xt == <<set(x, a), set(t, b)>>
      u(conns) == Inst("u", Logic, conns)
      ab == <<To("a", a), To("b", x)>>
      One(conns) == Over(xt, <<u(conns)>>)
      Fixed(conns) == [Source(<<D("input", "a", V2), D("output", "y", V2)>>, <<>>, <<>>, <<>>)
                       EXCEPT !.params = <<Is("b", Packed(2, FALSE, <<>>), N(2))>>, !.instances = <<u(conns)>>]
      Comb2(block, conns) == [Source(Ports, <<Block(block)>>, <<>>, <<>>) EXCEPT !.instances = <<u(conns)>>]
      Typed2(type, decls, assigns, conns) == [Source(<<D("input", "a", V2), D("output", "y", V2), D("signal", "x", type)>> \o decls, <<>>, <<>>, assigns) EXCEPT !.instances = conns]
      Scaling(type, values) == [Source(<<D("input", "a", type), D("output", "y", type)>>, <<>>, <<>>, <<>>)
                       EXCEPT !.params = <<Is("P", IntType, N(2))>>, !.instances = <<Where(values, Inst("u", Scaled, <<Every>>))>>]
      Clock(decls, kind, assigns, instances) ==
        [Source(<<D("clock", "k", OneBit), D("input", "a", V2)>> \o decls \o <<D("output", "y", V2), D("signal", "x", V2)>>, <<>>, <<>>, assigns) EXCEPT !.instances = instances]
      Resettable(reset, kind, conns) ==
        [Source(<<D("clock", "k", OneBit), D("input", reset, OneBit), D("input", "a", V2), D("input", "c", OneBit), D("output", "z", V2), D("signal", "x", V2)>>,
                <<>>, <<>>, <<set(Id("z"), x)>> \o IF kind = "flop" THEN <<set(At(x, 1), c)>> ELSE <<>>)
         EXCEPT !.instances = <<Inst("u", Cleared(kind), conns)>>]
  IN <<One(ab \o <<To("y", y)>>),
       Over(<<set(y, Bin("BITWISE_XOR", x, t)), set(t, a)>>, <<u(<<To("a", Bin("ADD", a, b)), Same("b"), To("y", x)>>)>>),
       One(<<Same("a"), To("b", t), Same("y")>>), One(<<Every>>), Fixed(<<Same("a"), Same("b"), To("y", y)>>), Fixed(<<Every>>), One(<<To("a", x), Every>>), One(ab \o <<Open("y")>>), One(<<To("a", a), To("y", y)>>),
       One(<<Ordered>>), One(ab \o <<To("z", y)>>), One(<<Open("a"), To("b", b), To("y", y)>>), One(ab \o <<To("y", Cat(<<y>>))>>), One(<<Same("x"), To("y", y)>>),
       Over(<<set(y, a), set(x, b)>>, <<u(ab \o <<To("y", y)>>)>>), Over(<<set(At(y, 0), c), set(t, a), set(x, b)>>, <<u(ab \o <<To("y", y)>>)>>),
       Over(xt, <<u(ab \o <<To("y", y)>>), Inst("w", Logic, ab \o <<To("y", y)>>)>>),
       Over(<<set(t, b)>>, <<u(<<To("a", a), To("b", t), To("y", x)>>), Inst("w", Logic, <<To("a", x), To("b", a), To("y", y)>>)>>),
       Over(<<set(t, b)>>, <<Inst("w", Logic, <<To("a", x), To("b", a), To("y", y)>>), u(<<To("a", a), To("b", t), To("y", x)>>)>>),
       Over(<<set(t, b)>>, <<Inst("w", Either, <<To("a", y), To("b", t), To("y", x)>>), Inst("u", Either, <<To("a", x), To("b", t), To("y", y)>>)>>),
       Over(xt, <<Inst("f", Flag, <<To("a", a), To("c", At(y, 1))>>), Inst("g", Flag, <<To("a", b), To("c", At(y, 0))>>)>>),
       Over(xt \o <<set(At(y, 1), c)>>, <<Inst("g", Flag, <<To("a", b), To("c", At(y, 0))>>)>>),
       Over(xt, <<Inst("g", Flag, <<To("a", b), To("c", At(y, 0))>>)>>),
       Over(xt \o <<set(At(y, 0), c)>>, <<Inst("g", Flag, <<To("a", b), To("c", At(y, 0))>>)>>),
       Comb2(<<Assign(t, a), If(c, Assign(t, b))>>, <<To("a", t), To("b", b), To("y", y)>>),
       Comb2(<<Assign(t, y), If(c, Assign(t, b))>>, <<To("a", t), To("b", b), To("y", y)>>),
       Over(xt, <<Inst("u", Outer, ab \o <<To("y", y)>>)>>), Over(<<set(t, b)>>, <<Inst("u", Outer, <<Every>>), Inst("v", Either, <<To("a", y), To("b", Meet(a, b)), To("y", x)>>)>>),
       Typed2(Pair, <<>>, <<set(y, Field(x, "lo"))>>, <<Inst("u", Halves(Pair), <<To("p", Pat(<<At(a, 1), a>>)), Same("a"), To("y", x)>>)>>),
       Typed2(Pair, <<D("input", "p", Pair)>>, <<set(y, Field(x, "lo"))>>, <<Inst("u", Halves(Pair), <<To("p", Id("p")), Same("a"), To("y", x)>>)>>),
       Typed2(Pair, <<>>, <<set(y, Field(x, "lo"))>>, <<Where(<<<<"P", N(2)>>>>, Inst("u", Scaled, <<To("a", Cat(<<At(a, 0), a>>)), To("y", x)>>))>>),
       Scaling(V2, <<>>), Scaling(V3, <<<<"P", P>>>>), Scaling(V3, <<<<"P", More(N(1))>>>>), Scaling(V3, <<<<"P", Id("Q")>>>>), Scaling(V2, <<<<"L", N(3)>>>>),
       Clock(<<>>, "", <<set(y, x)>>, <<Inst("u", Hold("register"), <<To("k", Id("k")), To("a", a), To("q", x)>>)>>),
       Clock(<<>>, "", <<>>, <<Inst("u", Hold("flop"), <<Every>>), Inst("w", Hold("flop"), <<Same("k"), To("a", y), To("y", x)>>)>>),
       Resettable("rst", "register", <<Same("k"), Same("rst"), Same("a"), Same("c"), To("q", x), Open("y")>>),
       Resettable("s", "register", <<Every, To("rst", Id("s")), To("q", x)>>),
       Resettable("rst", "flop", <<Same("k"), Same("rst"), To("a", x), To("c", At(a, 1)), To("y", At(x, 0))>>)>>
MCSources == Widths \o CombBlocks \o Expressions \o TargetForms \o CaseBlocks \o RegisterBlocks \o Blocks \o Resets \o Parameters \o Instances
=============================================================================
