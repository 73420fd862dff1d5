--------------------------- MODULE MCRigInterpreter ---------------------------
(***************************************************************************)
(* Small rig files for RigInterpreter: every form of statement around      *)
(* expressions of every kind, right and wrong, and rigs that read back     *)
(* what they have written, in every format and length.                     *)
(***************************************************************************)
EXTENDS RigInterpreter

Num(n) == [e |-> "int", number |-> n]
Truth(b) == [e |-> "bool", truth |-> b]
Str(s) == [e |-> "string", text |-> s]
Hex(s) == [e |-> "bytes", bytes |-> s]
Id(n) == [e |-> "id", name |-> n]
Variant(n) == [e |-> "variant", enum |-> "Mode", name |-> n]
Op(l, op, r) == [e |-> "op", left |-> l, op |-> op, right |-> r]
As(x, type) == [e |-> "cast", expr |-> x, type |-> type]
Real == [e |-> "float"]
Template(parts) == [e |-> "template", parts |-> parts]
Literal(bytes) == [part |-> "literal", bytes |-> bytes]
Var(name, format, length) ==
  [part |-> "variable", name |-> name, format |-> format, length |-> length]

Put(name, x) == [s |-> "assign", name |-> name, expr |-> x]
Call(name, args) == [s |-> "call", name |-> name, args |-> args]
When(x, then, else) == [s |-> "if", condition |-> x, then |-> then, else |-> else]

Status(statements) == [m |-> "status", statements |-> statements]
InitBlock(statements) == [m |-> "init", statements |-> statements]
Command(name, parameters, statements) ==
  [m |-> "command", name |-> name, parameters |-> parameters, statements |-> statements]
Mode == [m |-> "enum", name |-> "Mode", variants |-> [usb |-> 1, lsb |-> 0]]

SettingsOfAB == <<[name |-> "b", expr |-> Truth(TRUE)], [name |-> "a", expr |-> Num(3)]>>

File(name, settings, members) ==
  [schema |-> "T", name |-> name, settings |-> settings, members |-> <<Mode>> \o members]

Param(type, name) == [type |-> type, name |-> name]

MCSchemas ==
  <<[name |-> "T",
     members |-> <<[m |-> "enum", name |-> "Mode", variants |-> <<"usb", "lsb">>],
                   [m |-> "command", name |-> "echo", parameters |-> <<Param("Int", "q")>>],
                   [m |-> "command", name |-> "tune",
                    parameters |-> <<Param("Int", "q"), Param("Mode", "to")>>],
                   [m |-> "status", fields |-> <<Param("Int", "freq"), Param("Bool", "tx")>>],
                   [m |-> "status", fields |-> <<Param("Mode", "mode")>>]>>]>>

ReadY == Call("read", <<Template(<<Literal(<<254>>), Var("y", "", 1)>>)>>)

\* a, b are settings, y is read
Expressions ==
  <<Num(0), Id("a"), Id("b"), Id("nobody"), Real, Str("x"), Hex(<<1, 2>>), Variant("usb"), Variant("am"),
    Op(Id("a"), "/", Id("y")), Op(Id("a"), "%", Op(Id("y"), "-", Num(1))), Op(Id("a"), "/", Num(0)),
    Op(Id("a"), "+", Id("b")), Op(Op(Id("y"), "*", Num(2)), "+", Id("a")),
    Op(Op(Id("y"), "<", Id("a")), "&&", Id("b")), Op(Id("y"), "||", Id("b")),
    Op(Id("b"), "==", Op(Id("y"), ">=", Num(1))), Op(Id("b"), "==", Id("a")), Op(Id("y"), "!=", Id("a")),
    Op(Real, "<", Id("a")), Op(Real, "+", Id("a")), Op(Real, "<=", Str("x")),
    Op(Variant("usb"), "==", As(Id("y"), "Mode")), Op(Variant("usb"), "!=", Variant("lsb")),
    Op(Variant("usb"), "<", Variant("lsb")),
    Op(Str("x"), "==", Str("x")), Op(Hex(<<1>>), "!=", Hex(<<2>>)), Op(Hex(<<1>>), "+", Hex(<<2>>)),
    As(Id("y"), "Mode"), As(As(Id("y"), "Mode"), "Int"), As(Id("b"), "Int"), As(Id("a"), "Bool"),
    As(Id("a"), "Int"), As(Real, "Int"), As(Id("a"), "float"), As(Str("x"), "Int"), As(Id("y"), "Other"),
    Template(<<Literal(<<254>>), Var("y", "bcd_bs", 2)>>), Template(<<Var("b", "", 1), Var("a", "text", 1)>>),
    Template(<<Var("nobody", "", 1)>>), Template(<<Var("y", "bcd", 1)>>), Template(<<Var("_", "", 1)>>)>>

Publish(field, x) == File("R", SettingsOfAB, <<Status(<<ReadY, Call("set_var", <<Str(field), x>>)>>)>>)

Tune(statements) ==
  File("R", SettingsOfAB,
       <<InitBlock(<<ReadY>>),
         Command("tune", <<Param("Int", "q"), Param("Mode", "to")>>, <<ReadY>> \o statements)>>)

About(x) ==
  <<Publish("freq", x), Publish("tx", x), Publish("mode", x),
    Tune(<<Call("write", <<x>>)>>),
    Tune(<<When(x, <<Call("write", <<Hex(<<7>>)>>)>>, <<Call("set_var", <<Str("tx"), Id("b")>>)>>)>>),
    Tune(<<Put("a", x), Call("write", <<Template(<<Var("a", "hex", 2)>>)>>)>>)>>

\* q is written and read back, as it is or negated.
Echo(format, length, negated) ==
  File("Echo", << >>,
       <<Command("echo", <<Param("Int", "q")>>,
                 (IF negated THEN <<Put("q", Op(Num(0), "-", Id("q")))>> ELSE << >>) \o
                 <<Call("write", <<Template(<<Var("q", format, length)>>)>>),
                   Call("read", <<Template(<<Var("y", format, length)>>)>>)>>)>>)

FormatList ==
  <<"bcd_bs", "bcd_bu", "bcd_ls", "bcd_lu", "int_bs", "int_bu", "int_ls", "int_lu", "text", "hex">>

Echoes ==
  FlattenSeq([f \in DOMAIN FormatList |->
    FlattenSeq([n \in 1..3 |-> <<Echo(FormatList[f], n, FALSE), Echo(FormatList[f], n, TRUE)>>])])

\* Files with something of their own
Others ==
  <<Tune(<<Call("error", <<Str("x")>>)>>), Tune(<<Call("beep", << >>)>>), Tune(<<Call("write", << >>)>>),
    Tune(<<Call("read", <<Id("a")>>)>>), Tune(<<Call("set_var", <<Str("freq")>>)>>), Tune(<<Call("read", <<Hex(<<9>>)>>)>>),
    Tune(<<Call("write", <<Template(<<Var("to", "", 1), Var("q", "bcd_lu", 1)>>)>>)>>),
    Tune(<<When(Op(Variant("usb"), "==", Id("to")), <<Call("read", <<Template(<<Var("z", "", 1)>>)>>)>>, << >>),
           Call("write", <<Template(<<Var("z", "", 1)>>)>>)>>),
    File("R", SettingsOfAB, <<Status(<<When(Id("b"), <<Call("set_var", <<Str("none"), Real>>)>>, << >>)>>)>>),
    File("R", SettingsOfAB, <<InitBlock(<<ReadY>>), Status(<<Call("set_var", <<Str("freq"), Id("y")>>)>>)>>),
    File("R", SettingsOfAB, <<Status(<<Call("beep", << >>)>>), Status(<<Call("set_var", <<Str("none"), Num(1)>>)>>)>>),
    File("R", SettingsOfAB, <<Status(<<Call("set_var", <<Str("none"), Num(1)>>)>>), Status(<<Call("set_var", <<Str("tx"), Id("b")>>)>>)>>),
    File("R", <<[name |-> "a", expr |-> Variant("usb")]>>, <<InitBlock(<<ReadY>>)>>),
    File("R", SettingsOfAB \o <<[name |-> "a", expr |-> Op(Id("b"), "&&", Id("b"))]>>, <<InitBlock(<<ReadY>>)>>),
    File("R", SettingsOfAB, <<Command("tune", <<Param("Int", "q")>>, <<ReadY>>)>>),
    File("R", SettingsOfAB, <<Command("echo", <<Param("Bool", "q")>>, <<ReadY>>)>>),
    File("R", SettingsOfAB, <<Command("echo", <<Param("Int", "q")>>, << >>)>>),
    File("R", SettingsOfAB, <<Command("sing", << >>, <<ReadY>>)>>),
    [File("R", SettingsOfAB, <<InitBlock(<<ReadY>>)>>) EXCEPT !.schema = "U"],
    File("R", SettingsOfAB, <<[m |-> "enum", name |-> "Band", variants |-> [hf |-> 1]]>>),
    File("R", SettingsOfAB, <<Command("echo", <<Param("Int", "q"), Param("Int", "q")>>, <<ReadY>>)>>),
    File("R", SettingsOfAB, <<Command("echo", <<Param("Bool", "q"), Param("Int", "q")>>, <<ReadY>>)>>)>>

MCSources == Others \o Echoes \o FlattenSeq([k \in DOMAIN Expressions |-> About(Expressions[k])])

MCDirectories == {{k} : k \in DOMAIN MCSources} \union {{6, 7}, {6, 1}, {7, Len(Others) + 1}}

\* What a client may send for a parameter
Plainly(n) == [text |-> "n", expr |-> Num(n)]
Negative == [text |-> "n", expr |-> NotAtomic]
Name(name) == [text |-> name, expr |-> Id(name)]

EchoNumbers == <<0, 1, 5, 9, 10, 99, 100, 127, 128, 129, 200, 255, 256, 999, 9999, 32767, 40000>>

MCRequests ==
  [k \in DOMAIN EchoNumbers |-> [command |-> "echo", given |-> [q |-> Plainly(EchoNumbers[k])]]] \o
  <<[command |-> "echo", given |-> [q |-> Negative]], [command |-> "echo", given |-> << >>],
    [command |-> "echo", given |-> [q |-> Name("nobody")]], [command |-> "echo", given |-> [r |-> Plainly(1)]],
    [command |-> "tune", given |-> [q |-> Plainly(5), to |-> Name("usb")]],
    [command |-> "tune", given |-> [q |-> Name("b"), to |-> Name("lsb")]],
    [command |-> "tune", given |-> [q |-> Plainly(500), to |-> Name("am")]],
    [command |-> "tune", given |-> [q |-> Plainly(500), to |-> Name("lsb")]]>>

MCOrder == <<"a", "b">>

-----------------------------------------------------------------------------
\* Where a number need not come back: more than a word, a sign that takes the place of
\* digits or of the highest bit, and the unsigned formats of a negative number.
AtEdge(format, n, q) ==
  \/ q # Narrow(q)
  \/ format \in {"int_bs", "int_ls"} /\ n < WordBytes /\ q \notin -(128 * 256 ^ (n - 1))..(128 * 256 ^ (n - 1) - 1)
  \/ format \in {"bcd_bs", "bcd_ls"} /\ q < 0 /\ Magnitude(q) >= 100 ^ (n - 1)
  \/ format \in {"int_bu", "int_lu"} /\ q < 0

\* A number that was written and is read back in the same format and length is the same
\* number, or is refused when it is written, but at the edges of the format.
WrittenReadsBack ==
  LET code == run.rig.commands["echo"].statements
      part == Last(code).args[1].parts[1]
      q == run.env["q"].number IN
  run.rig.name = "Echo" /\ run.doing = "command"
      /\ run.answer # << >> /\ run.answer = run.written =>
    \/ AtEdge(part.format, part.length, q)
    \/ run.error = "" /\ run.env["y"] = Integer(q)
=============================================================================
