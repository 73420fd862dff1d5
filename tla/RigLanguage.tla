----------------------------- MODULE RigLanguage -----------------------------
(***************************************************************************)
(* The language of rig files (holyrig/src/runtime): the parsed file        *)
(* (parser.rs, schema_parser.rs), what the semantic analyzer accepts       *)
(* (semantic_analyzer.rs) and the value of an expression (interpreter.rs). *)
(*                                                                         *)
(* A node of the tree is a record whose field e, s, part or m names its    *)
(* variant.  A type is "Int", "Bool", "Float", "Bytes", "String" or the    *)
(* name of an enum; in a file only int and bool are types, any other word, *)
(* float too, names an enum (parser.rs:444-446, schema_parser.rs:54-56).   *)
(* The number in a Float is left out: what would depend on it is taken     *)
(* from `any`, which the caller chooses.  The overflow of i64 is not       *)
(* modelled.                                                               *)
(***************************************************************************)
EXTENDS DataFormat, FiniteSets, TLC

CONSTANT SettingOrder   \* the names of settings, as strings are ordered

-----------------------------------------------------------------------------
(* From the text of a file to its tables                                   *)

Table(seq, Key(_), Item(_)) ==
  FoldLeft(LAMBDA t, x : (Key(x) :> Item(x)) @@ t, << >>, seq)

Members(source, m) == SelectSeq(source.members, LAMBDA x : x.m = m)

\* Of several init or status blocks the last one counts.
Block(source, m) ==
  LET blocks == Members(source, m) IN
  IF blocks = << >> THEN << >> ELSE Last(blocks).statements

Settings(source) == Table(source.settings, LAMBDA x : x.name, LAMBDA x : x.expr)

Impl(source) ==
  [schema |-> source.schema, name |-> source.name,
   settings |-> Settings(source),
   init |-> Block(source, "init"), status |-> Block(source, "status"),
   commands |-> Table(Members(source, "command"), LAMBDA x : x.name,
                      LAMBDA x : [parameters |-> x.parameters, statements |-> x.statements]),
   enums |-> Table(Members(source, "enum"), LAMBDA x : x.name, LAMBDA x : x.variants)]

SchemaFile(source) ==
  [name |-> source.name,
   enums |-> Table(Members(source, "enum"), LAMBDA x : x.name, LAMBDA x : x.variants),
   commands |-> Table(Members(source, "command"), LAMBDA x : x.name, LAMBDA x : x.parameters),
   status |-> Table(FlattenSeq([k \in DOMAIN Members(source, "status") |->
                                  Members(source, "status")[k].fields]),
                    LAMBDA x : x.name, LAMBDA x : x.type)]

IsSetVar(st) == st.s = "call" /\ st.name = "set_var"

\* The fields a status block may set, at any depth
RECURSIVE SetVarFields(_)
SetVarFields(statements) ==
  UNION {LET st == statements[k] IN
         CASE st.s = "if" -> SetVarFields(st.then) \union SetVarFields(st.else)
           [] IsSetVar(st) -> IF st.args # << >> /\ st.args[1].e = "string"
                              THEN {st.args[1].text} ELSE {}
           [] OTHER -> {} : k \in DOMAIN statements}

SupportedStatusFields(rig) == SetVarFields(rig.status)

-----------------------------------------------------------------------------
(* Values (Value of interpreter.rs); Value::Unit is never made.            *)

Integer(n) == [kind |-> "Integer", number |-> n]
Float == [kind |-> "Float"]
Bytes(s) == [kind |-> "Bytes", bytes |-> s]
String(s) == [kind |-> "String", text |-> s]
Boolean(b) == [kind |-> "Boolean", truth |-> b]
EnumVariant(enum, variant, n) ==
  [kind |-> "EnumVariant", enum |-> enum, variant |-> variant, number |-> n]
Failure(why) == [kind |-> "Error", error |-> why]

Arithmetic == {"+", "-", "*", "/", "%"}
Equality == {"==", "!="}
Order == {"<", "<=", ">", ">="}
Logic == {"&&", "||"}

\* Rust's division goes towards zero.
Quotient(a, b) ==
  LET q == Magnitude(a) \div Magnitude(b) IN IF (a < 0) # (b < 0) THEN -q ELSE q

IntegerOp(a, op, b) ==
  CASE op = "/" /\ b = 0 -> Failure("DivisionByZero")
    [] op = "%" /\ b = 0 -> Failure("ModuloByZero")
    [] op = "+" -> Integer(a + b)
    [] op = "-" -> Integer(a - b)
    [] op = "*" -> Integer(a * b)
    [] op = "/" /\ b # 0 -> Integer(Quotient(a, b))
    [] op = "%" /\ b # 0 -> Integer(a - (b * Quotient(a, b)))
    [] op = "==" -> Boolean(a = b)
    [] op = "!=" -> Boolean(a # b)
    [] op = "<" -> Boolean(a < b)
    [] op = "<=" -> Boolean(a <= b)
    [] op = ">" -> Boolean(a > b)
    [] op = ">=" -> Boolean(a >= b)
    [] op = "&&" -> Boolean(a # 0 /\ b # 0)
    [] op = "||" -> Boolean(a # 0 \/ b # 0)

FloatOp(op, any) ==
  CASE op \in Arithmetic -> Float
    [] op \in Equality \union Order -> Boolean(any.truth)
    [] op \in Logic -> Failure("InvalidOperation")

BytesOp(a, op, b) ==
  CASE op = "+" -> Bytes(a \o b)
    [] op = "==" -> Boolean(a = b)
    [] op = "!=" -> Boolean(a # b)
    [] OTHER -> Failure("InvalidOperation")

BooleanOp(a, op, b) ==
  CASE op = "==" -> Boolean(a = b)
    [] op = "!=" -> Boolean(a # b)
    [] op = "&&" -> Boolean(a /\ b)
    [] op = "||" -> Boolean(a \/ b)
    [] OTHER -> Failure("InvalidOperation")

EnumOp(a, op, b) ==
  CASE op # "==" -> Failure("InvalidOperation")
    [] op = "==" /\ a.enum # b.enum -> Failure("EnumTypeMismatch")
    [] op = "==" /\ a.enum = b.enum -> Boolean(a.number = b.number)

BinaryOp(a, op, b, any) ==
  LET kinds == {a.kind, b.kind} IN
  CASE kinds = {"Integer"} -> IntegerOp(a.number, op, b.number)
    [] "Float" \in kinds /\ kinds \subseteq {"Float", "Integer"} -> FloatOp(op, any)
    [] kinds = {"Bytes"} -> BytesOp(a.bytes, op, b.bytes)
    [] kinds = {"Boolean"} -> BooleanOp(a.truth, op, b.truth)
    [] kinds = {"EnumVariant"} -> EnumOp(a, op, b)
    [] OTHER -> Failure("BinaryTypeMismatch")

Cast(v, type, enums, any) ==
  LET n == Unsigned(v.number)
      named == {x \in DOMAIN enums[type] : enums[type][x] = n} IN
  CASE v.kind = "Integer" /\ type = "Float" -> Float
    [] v.kind = "Integer" /\ type = "Bool" -> Boolean(v.number # 0)
    [] v.kind = "Integer" /\ type \notin {"Int", "Bool", "Float", "Bytes", "String"} ->
         IF type \in DOMAIN enums /\ named # {}
         THEN EnumVariant(type, CHOOSE x \in named : TRUE, n) ELSE Failure("InvalidEnumValue")
    [] v.kind = "Float" /\ type = "Int" -> Integer(any.number)
    [] v.kind = "Boolean" /\ type = "Int" -> Integer(IF v.truth THEN 1 ELSE 0)
    [] v.kind = "EnumVariant" /\ type = "Int" -> Integer(v.number)
    [] OTHER -> Failure("InvalidCast")

\* What a variable of a template becomes; without a format it is int_lu.
FormatOf(part) == IF part.format = "" THEN "int_lu" ELSE part.format

Interpolated(part, env) ==
  IF part.name \notin DOMAIN env THEN Failure("UndefinedVariable")
  ELSE IF FormatOf(part) \notin Formats THEN Failure("InvalidFormat")
  ELSE LET v == env[part.name]
           n == IF v.kind = "Boolean" THEN (IF v.truth THEN 1 ELSE 0) ELSE Narrow(v.number)
           code == Encode(FormatOf(part), n, part.length) IN
       IF v.kind \notin {"Integer", "EnumVariant", "Boolean"} THEN Failure("CannotInterpolate")
       ELSE IF code.ok THEN Bytes(code.it) ELSE Failure("DataFormat")

Interpolate(parts, env) ==
  FoldLeft(LAMBDA acc, part :
             LET v == IF part.part = "literal" THEN Bytes(part.bytes) ELSE Interpolated(part, env) IN
             CASE acc.kind = "Error" -> acc
               [] acc.kind # "Error" /\ v.kind = "Error" -> v
               [] OTHER -> Bytes(acc.bytes \o v.bytes),
           Bytes(<< >>), parts)

\* enums is the table of the environment: name -> variant -> number.
RECURSIVE Evaluate(_, _, _, _)
Evaluate(x, env, enums, any) ==
  CASE x.e = "int" -> Integer(x.number)
    [] x.e = "float" -> Float
    [] x.e = "bool" -> Boolean(x.truth)
    [] x.e = "bytes" -> Bytes(x.bytes)
    [] x.e = "string" -> String(x.text)
    [] x.e = "id" -> IF x.name \in DOMAIN env THEN env[x.name] ELSE Failure("UndefinedVariable")
    [] x.e = "variant" ->
         IF x.enum \in DOMAIN enums /\ x.name \in DOMAIN enums[x.enum]
         THEN EnumVariant(x.enum, x.name, enums[x.enum][x.name])
         ELSE Failure("UnknownQualifiedIdentifier")
    [] x.e = "op" ->
         LET a == Evaluate(x.left, env, enums, any)
             b == Evaluate(x.right, env, enums, any) IN
         IF a.kind = "Error" THEN a ELSE IF b.kind = "Error" THEN b ELSE BinaryOp(a, x.op, b, any)
    [] x.e = "template" -> Interpolate(x.parts, env)
    [] x.e = "cast" ->
         LET v == Evaluate(x.expr, env, enums, any) IN
         IF v.kind = "Error" THEN v ELSE Cast(v, x.type, enums, any)

\* The variables of a template, read out of a response: the environment, or why not
ParseResponse(parts, response, env) ==
  FoldLeft(LAMBDA acc, part :
             LET size == IF part.part = "literal" THEN Len(part.bytes) ELSE part.length
                 bytes == SubSeq(response, acc.offset + 1, acc.offset + size)
                 read == Decode(FormatOf(part), bytes) IN
             CASE acc.error # "" -> acc
               [] acc.error = "" /\ acc.offset + size > Len(response) ->
                    [acc EXCEPT !.error = "ResponseTooShort"]
               [] OTHER ->
                    IF part.part = "literal"
                    THEN [acc EXCEPT !.offset = @ + size,
                                     !.error = IF bytes = part.bytes THEN "" ELSE "ResponseMismatch"]
                    ELSE IF FormatOf(part) \notin Formats THEN [acc EXCEPT !.error = "InvalidFormat"]
                    ELSE IF ~ read.ok THEN [acc EXCEPT !.error = "DecodeFailed"]
                    ELSE [acc EXCEPT !.offset = @ + size,
                                     !.env = IF part.name = "_" THEN @
                                             ELSE (part.name :> Integer(read.it)) @@ @],
           [error |-> "", offset |-> 0, env |-> env], parts)

-----------------------------------------------------------------------------
(* The analyzer.  An error anywhere rejects the file, so that its list of  *)
(* errors is no more than `ok`, and a type after an error no more than     *)
(* NoType.                                                                 *)

NoType == "none"

Numeric == {"Int", "Float"}

\* As a mistake: a comparison takes any two types.
LooseBinaryType(left, op, right) ==
  CASE op \in Arithmetic -> IF {left, right} \subseteq Numeric THEN "Int" ELSE NoType
    [] op \in Equality \union Order -> "Bool"
    [] op \in Logic -> IF {left, right} = {"Bool"} THEN "Bool" ELSE NoType

BinaryType(left, op, right) ==
  CASE op \in Arithmetic -> IF {left, right} \subseteq Numeric THEN "Int" ELSE NoType
    [] op \in Equality -> IF left = right THEN "Bool" ELSE NoType
    [] op \in Order -> IF {left, right} \subseteq Numeric THEN "Bool" ELSE NoType
    [] op \in Logic -> IF {left, right} = {"Bool"} THEN "Bool" ELSE NoType

BuiltinTypes == {"Int", "Bool", "Float", "Bytes", "String"}

ValidCast(from, to) ==
  \/ <<from, to>> \in {<<"Int", "Float">>, <<"Float", "Int">>, <<"Bool", "Int">>, <<"Int", "Bool">>}
  \/ from = "Int" /\ to \notin BuiltinTypes
  \/ from \notin BuiltinTypes /\ to = "Int"
  \/ from = to

VariablesKnown(parts, vars) ==
  \A k \in DOMAIN parts :
    parts[k].part = "variable" => parts[k].name = "_" \/ parts[k].name \in DOMAIN vars

RECURSIVE Infer(_, _, _)
Infer(x, vars, enums) ==
  CASE x.e = "int" -> "Int"
    [] x.e = "float" -> "Float"
    [] x.e = "bool" -> "Bool"
    [] x.e = "bytes" -> "Bytes"
    [] x.e = "string" -> "String"
    [] x.e = "id" -> IF x.name \in DOMAIN vars THEN vars[x.name] ELSE NoType
    [] x.e = "variant" -> IF x.enum \in DOMAIN enums /\ x.name \in DOMAIN enums[x.enum]
                          THEN x.enum ELSE NoType
    [] x.e = "op" ->
         LET left == Infer(x.left, vars, enums)
             right == Infer(x.right, vars, enums)
             byZero == x.op \in {"/", "%"} /\ x.right.e = "int" /\ x.right.number = 0 IN
         IF NoType \in {left, right} \/ byZero THEN NoType ELSE BinaryType(left, x.op, right)
    [] x.e = "template" -> IF VariablesKnown(x.parts, vars) THEN "Bytes" ELSE NoType
    [] x.e = "cast" ->
         LET from == Infer(x.expr, vars, enums) IN
         IF from # NoType /\ ValidCast(from, x.type) THEN x.type ELSE NoType

\* Reading registers the variables of the template; an assignment registers nothing.
Registered(vars, parts) ==
  FoldLeft(LAMBDA acc, part : IF part.part = "variable" THEN (part.name :> "Int") @@ acc ELSE acc,
           vars, parts)

Typed(args, context) ==
  \A k \in DOMAIN args : Infer(args[k], context.vars, context.enums) # NoType

CheckCall(context, st) ==
  LET n == IF st.name = "set_var" THEN 2 ELSE 1
      fine == /\ st.name \in {"write", "read", "set_var", "error"}
              /\ Len(st.args) = n
              /\ IF st.name = "read" THEN st.args[1].e \in {"bytes", "template"}
                                     ELSE Typed(st.args, context) IN
  [context EXCEPT !.ok = @ /\ fine,
                  !.vars = IF fine /\ st.name = "read" /\ st.args[1].e = "template"
                           THEN Registered(@, st.args[1].parts) ELSE @]

RECURSIVE CheckAll(_, _)
CheckStatement(context, st) ==
  CASE st.s = "assign" -> [context EXCEPT !.ok = @ /\ Typed(<<st.expr>>, context)]
    [] st.s = "call" -> CheckCall(context, st)
    [] st.s = "if" ->
         LET judged == [context EXCEPT !.ok = @ /\ Infer(st.condition, context.vars, context.enums) = "Bool"]
         IN  CheckAll(CheckAll(judged, st.then), st.else)
CheckAll(context, statements) ==
  FoldLeft(LAMBDA acc, st : CheckStatement(acc, st), context, statements)

\* The values of a map in the order of its keys
InOrder(map) ==
  LET names == SelectSeq(SettingOrder, LAMBDA x : x \in DOMAIN map) IN
  [k \in DOMAIN names |-> [name |-> names[k], expr |-> map[names[k]]]]

CheckSettings(context, rig) ==
  FoldLeft(LAMBDA acc, x :
             LET type == Infer(x.expr, acc.vars, acc.enums) IN
             [acc EXCEPT !.ok = @ /\ type # NoType, !.vars = (x.name :> type) @@ @],
           context, InOrder(rig.settings))

\* Of several parameters of one name the first counts.
ParameterTypes(parameters) == Table(Reverse(parameters), LAMBDA x : x.name, LAMBDA x : x.type)

CommandFits(rig, schema, name, context) ==
  LET command == rig.commands[name]
      types == ParameterTypes(command.parameters)
      declared == ParameterTypes(schema.commands[name])
      inside == CheckAll([context EXCEPT !.vars = types @@ @], command.statements) IN
  /\ name \in DOMAIN schema.commands
  /\ DOMAIN types = DOMAIN declared
  /\ \A k \in DOMAIN command.parameters :
       command.parameters[k].type = declared[command.parameters[k].name]
  /\ command.statements # << >>
  /\ inside.ok

\* As a mistake: the type of a status variable is not looked at.
AnyStatusVariable(st, schema, context) ==
  Len(st.args) = 2 /\ st.args[1].e = "string" /\ st.args[1].text \in DOMAIN schema.status

StatusVariable(st, schema, context) ==
  /\ Len(st.args) = 2
  /\ st.args[1].e = "string"
  /\ st.args[1].text \in DOMAIN schema.status
  /\ Infer(st.args[2], context.vars, context.enums) \in {NoType, schema.status[st.args[1].text]}

Context(rig) ==
  CheckAll(CheckSettings([ok |-> TRUE, vars |-> << >>, enums |-> rig.enums], rig),
           rig.init \o rig.status)

Analyze(rig, schema) ==
  LET context == Context(rig) IN
  /\ rig.schema = schema.name
  /\ DOMAIN rig.enums \subseteq DOMAIN schema.enums
  /\ context.ok
  /\ \A name \in DOMAIN rig.commands : CommandFits(rig, schema, name, context)
  /\ \A k \in DOMAIN rig.status : IsSetVar(rig.status[k]) => StatusVariable(rig.status[k], schema, context)

\* parse_and_validate_with_schema
Accepted(rig, schemas) == rig.schema \in DOMAIN schemas /\ Analyze(rig, schemas[rig.schema])
=============================================================================
