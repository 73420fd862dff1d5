---------------------------- MODULE RigInterpreter ----------------------------
(***************************************************************************)
(* The files of the rig types, from loading to running (resources.rs,      *)
(* interpreter.rs): schemas and rigs are read at the start, and the blocks *)
(* of an accepted rig are then run, statement by statement, each run in an *)
(* environment of its own.  The rig at the other end (ExternalApi) answers *)
(* a read with as many bytes as it asks for, or fails.                     *)
(***************************************************************************)
EXTENDS RigLanguage

CONSTANTS
  Sources,        \* a sequence of rig files, named by their index
  SchemaSources,  \* a sequence of schema files
  Directories,    \* the sets of rig files there may be in the directory
  Requests,       \* a sequence of [command, given]; the given value of a parameter is a
                  \* [text, expr], expr as parse_atomic_expr has it
  Fill,           \* the bytes an answer may have where the template has a variable
  AnyNumber       \* the integers a float may become

VARIABLES
  resources,   \* [loaded, rigs]: the accepted rig files by the name of their impl
  run          \* what is being run

vars == <<resources, run>>

AnyFloat == [truth : BOOLEAN, number : AnyNumber]

NotAtomic == [e |-> "none"]   \* what parse_atomic_expr refuses

Schemas == Table(SchemaSources, LAMBDA x : x.name, SchemaFile)


-----------------------------------------------------------------------------
(* Running                                                                 *)

\* Settings are evaluated before the enums are registered.
CreateEnv(rig, any) ==
  FoldLeft(LAMBDA acc, x :
             LET v == Evaluate(x.expr, acc.env, << >>, any) IN
             CASE acc.error # "" -> acc
               [] acc.error = "" /\ v.kind = "Error" -> [acc EXCEPT !.error = v.error]
               [] OTHER -> [acc EXCEPT !.env = (x.name :> v) @@ @],
           [error |-> "", env |-> << >>], InOrder(rig.settings))

NoRig == [schema |-> "", name |-> ""]

Resting ==
  [doing |-> "idle", rig |-> NoRig, command |-> "", args |-> << >>, env |-> << >>, todo |-> << >>,
   error |-> "", written |-> << >>, answer |-> << >>, published |-> "", value |-> Integer(0)]

Init == /\ resources = [loaded |-> FALSE, rigs |-> << >>]
        /\ run = Resting

\* One file that is refused fails the start; of two impls of a name the last read stays.
Load ==
  /\ ~ resources.loaded
  /\ \E directory \in Directories :
       LET rigs == [k \in directory |-> Impl(Sources[k])] IN
       /\ \A k \in directory : Accepted(rigs[k], Schemas)
       /\ \E choice \in [{rigs[k].name : k \in directory} -> directory] :
            /\ \A name \in DOMAIN choice : rigs[choice[name]].name = name
            /\ resources' = [loaded |-> TRUE, rigs |-> [name \in DOMAIN choice |-> rigs[choice[name]]]]
  /\ UNCHANGED run

\* A run that cannot make its environment ends at once.
Begun(doing, rig, created, statements) ==
  [Resting EXCEPT !.doing = doing, !.rig = rig, !.env = created.env, !.error = created.error,
                  !.todo = IF created.error = "" THEN statements ELSE << >>]

\* execute_init and execute_status
Start(doing) ==
  /\ run.doing = "idle"
  /\ \E name \in DOMAIN resources.rigs, any \in AnyFloat :
       LET rig == resources.rigs[name] IN
       \E created \in {CreateEnv(rig, any)} :
         run' = Begun(doing, rig, created, IF doing = "init" THEN rig.init ELSE rig.status)
  /\ UNCHANGED resources

StartInit == Start("init")

StartStatus == Start("status")

\* A value of a parameter that is an enum is a variant's name; any other is an expression.
\* That its kind is the parameter's is not looked at.
ExternalArg(p, given, types, env, enums, any) ==
  IF p \notin DOMAIN types THEN Failure("UnknownParameter")
  ELSE IF types[p] \in BuiltinTypes /\ given.expr = NotAtomic THEN Failure("InvalidArguments")
  ELSE Evaluate(IF types[p] \in BuiltinTypes THEN given.expr
                ELSE [e |-> "variant", enum |-> types[p], name |-> given.text], env, enums, any)

\* eval_external_args: why they are refused, or "".  Each parameter takes its value away,
\* so that there is none for a second one of that name.
ArgsError(args, parameters) ==
  LET failed == {p \in DOMAIN args : args[p].kind = "Error"} IN
  IF failed # {} THEN args[CHOOSE p \in failed : TRUE].error
  ELSE IF Cardinality(DOMAIN args) # Len(parameters) THEN "MissingParameter" ELSE ""

\* execute_command: the arguments are evaluated in an environment like the command's,
\* and hide the settings.
StartCommand(command, given) ==
  /\ run.doing = "idle"
  /\ \E name \in DOMAIN resources.rigs, any \in AnyFloat :
       LET rig == resources.rigs[name]
           parameters == rig.commands[command].parameters
           types == ParameterTypes(parameters) IN
       /\ command \in DOMAIN rig.commands
       /\ \E created \in {CreateEnv(rig, any)} :
          \E args \in {[p \in DOMAIN given |-> ExternalArg(p, given[p], types, created.env, rig.enums, any)]} :
          \E error \in {IF created.error # "" THEN created.error ELSE ArgsError(args, parameters)} :
            run' = IF error = ""
                   THEN [Begun("command", rig, created, rig.commands[command].statements) EXCEPT
                           !.env = args @@ @, !.command = command, !.args = args]
                   ELSE [Begun("refused", rig, created, << >>) EXCEPT !.error = error]
  /\ UNCHANGED resources

Running == run.doing \in {"init", "status", "command"} /\ run.error = "" /\ run.todo # << >>

Statement == Head(run.todo)

Calls(name) == Running /\ Statement.s = "call" /\ Statement.name = name

\* The statement at the head fails, or it is done; first its own branch follows.
Fail(why) == run' = [run EXCEPT !.error = why]

Done == [run EXCEPT !.todo = Tail(@)]

Value(x, any) == Evaluate(x, run.env, run.rig.enums, any)

Assign ==
  /\ Running /\ Statement.s = "assign"
  /\ \E any \in AnyFloat :
       LET v == Value(Statement.expr, any) IN
       IF v.kind = "Error" THEN Fail(v.error)
       ELSE run' = [Done EXCEPT !.env = (Statement.name :> v) @@ @]
  /\ UNCHANGED resources

If ==
  /\ Running /\ Statement.s = "if"
  /\ \E any \in AnyFloat :
       LET v == Value(Statement.condition, any) IN
       IF v.kind = "Error" THEN Fail(v.error)
       ELSE IF v.kind # "Boolean" THEN Fail("NonBooleanCondition")
       ELSE run' = [Done EXCEPT !.todo = (IF v.truth THEN Statement.then ELSE Statement.else) \o @]
  /\ UNCHANGED resources

Values(args, any) == [k \in DOMAIN args |-> Value(args[k], any)]

FirstError(values) ==
  LET failed == {k \in DOMAIN values : values[k].kind = "Error"} IN
  IF failed = {} THEN "" ELSE values[Min(failed)].error

\* The characters of a String stand for themselves: it is written as bytes nothing compares.
Write ==
  /\ Calls("write")
  /\ \E any \in AnyFloat :
       LET args == Values(Statement.args, any) IN
       IF FirstError(args) # "" THEN Fail(FirstError(args))
       ELSE IF Len(args) # 1 \/ args[1].kind \notin {"Bytes", "String"} THEN Fail("InvalidArguments")
       ELSE \/ run' = [Done EXCEPT !.written = IF args[1].kind = "Bytes" THEN args[1].bytes ELSE << >>]
            \/ Fail("External")
  /\ UNCHANGED resources

PartSize(part) == IF part.part = "literal" THEN Len(part.bytes) ELSE part.length

\* An answer as expected, one of other bytes, and what was written (the echo of a CI-V bus)
Answers(parts) ==
  LET expected(b) == FlattenSeq([k \in DOMAIN parts |->
                       IF parts[k].part = "literal" THEN parts[k].bytes
                       ELSE [j \in 1..parts[k].length |-> b]])
      size == Len(expected(0)) IN
  {expected(b) : b \in Fill} \union {[j \in 1..size |-> b] : b \in Fill}
    \union (IF Len(run.written) = size THEN {run.written} ELSE {})

Parts(x) == IF x.e = "bytes" THEN <<[part |-> "literal", bytes |-> x.bytes]>> ELSE x.parts

Read ==
  /\ Calls("read")
  /\ IF Len(Statement.args) # 1 \/ Statement.args[1].e \notin {"bytes", "template"}
     THEN Fail("InvalidArguments")
     ELSE \/ Fail("External")
          \/ \E answer \in Answers(Parts(Statement.args[1])) :
               LET x == Statement.args[1]
                   parsed == ParseResponse(Parts(x), answer, run.env)
                   error == IF x.e = "bytes" /\ answer # x.bytes THEN "InvalidResponse"
                                                                ELSE parsed.error IN
               run' = [Done EXCEPT !.answer = answer, !.error = error,
                                   !.env = IF parsed.error = "" THEN parsed.env ELSE @]
  /\ UNCHANGED resources

SetVar ==
  /\ Calls("set_var")
  /\ \E any \in AnyFloat :
       LET args == Values(Statement.args, any) IN
       IF FirstError(args) # "" THEN Fail(FirstError(args))
       ELSE IF Len(args) # 2 \/ args[1].kind # "String" THEN Fail("InvalidArguments")
       ELSE run' = [Done EXCEPT !.published = args[1].text, !.value = args[2]]
  /\ UNCHANGED resources

OtherCall ==
  /\ Running /\ Statement.s = "call" /\ Statement.name \notin {"write", "read", "set_var"}
  /\ Fail("UnknownFunction")
  /\ UNCHANGED resources

\* The run ends, and its environment with it.
Finish ==
  /\ run.doing # "idle" /\ ~ Running
  /\ run' = Resting
  /\ UNCHANGED resources

Next ==
  \/ Load \/ StartInit \/ StartStatus
  \/ \E k \in DOMAIN Requests : StartCommand(Requests[k].command, Requests[k].given)
  \/ Assign \/ If \/ Write \/ Read \/ SetVar \/ OtherCall \/ Finish

Spec == Init /\ [][Next]_vars

-----------------------------------------------------------------------------
(* What the analyzer promises, and of which rigs: it lets through more     *)
(* than it can answer for, and Plain leaves that out.                      *)

\* Errors of the data, which no analyzer of types could foresee
DataErrors ==
  {"DivisionByZero", "ModuloByZero", "InvalidEnumValue", "DataFormat", "DecodeFailed",
   "InvalidResponse", "ResponseMismatch", "External"}

RECURSIVE Within(_)
Within(x) ==
  <<x>> \o CASE x.e = "op" -> Within(x.left) \o Within(x.right)
             [] x.e = "cast" -> Within(x.expr)
             [] OTHER -> << >>

RECURSIVE Nested(_)
Nested(statements) ==
  FlattenSeq([k \in DOMAIN statements |->
    <<statements[k]>> \o (IF statements[k].s = "if"
                          THEN Nested(statements[k].then) \o Nested(statements[k].else) ELSE << >>)])

Operands(st) == CASE st.s = "assign" -> <<st.expr>>
                  [] st.s = "if" -> <<st.condition>>
                  [] st.s = "call" -> st.args

AllWithin(exprs) == FlattenSeq([k \in DOMAIN exprs |-> Within(exprs[k])])

\* Every expression of some statements, those they contain left out
AllOf(statements) == AllWithin(FlattenSeq([k \in DOMAIN statements |-> Operands(statements[k])]))

IsRead(st) == st.s = "call" /\ st.name = "read"

VariableNames(x) == {x.parts[k].name : k \in {j \in DOMAIN x.parts : x.parts[j].part = "variable"}}

Named(x) == CASE x.e = "id" -> {x.name} [] x.e = "template" -> VariableNames(x) [] OTHER -> {}

NamesIn(exprs) == UNION {Named(exprs[k]) : k \in DOMAIN exprs}

NamesRead(code) == NamesIn(AllOf(SelectSeq(Nested(code), IsRead)))

NamesUsed(code) == NamesIn(AllOf(SelectSeq(Nested(code), LAMBDA st : ~ IsRead(st))))

KindOf(type) ==
  CASE type = "Int" -> "Integer" [] type = "Bool" -> "Boolean" [] type = "Float" -> "Float"
    [] type = "Bytes" -> "Bytes" [] type = "String" -> "String" [] OTHER -> "EnumVariant"

\* Nothing whose kind the analyzer has wrong, and no operation it takes and a run does not
PlainExpr(x, types, rig) ==
  LET TypeOf(y) == Infer(y, types, rig.enums) IN
  CASE x.e = "float" -> FALSE
    [] x.e = "cast" -> x.type \in {"Int", "Bool"} \union DOMAIN rig.enums /\ TypeOf(x.expr) # x.type
    [] x.e = "op" /\ x.op = "==" -> TypeOf(x.left) # "String"
    [] x.e = "op" /\ x.op = "!=" -> TypeOf(x.left) \in {"Int", "Bool", "Bytes"}
    [] x.e = "template" ->
         \A k \in DOMAIN x.parts : x.parts[k].part = "variable" =>
           /\ FormatOf(x.parts[k]) \in Formats
           /\ x.parts[k].name \in DOMAIN types
           /\ types[x.parts[k].name] \in {"Int", "Bool"} \union DOMAIN rig.enums
    [] OTHER -> TRUE

PlainStatement(st, types, rig) ==
  LET TypeOf(y) == Infer(y, types, rig.enums) IN
  CASE st.s = "assign" -> st.name \in DOMAIN types => TypeOf(st.expr) = types[st.name]
    [] st.s = "call" /\ st.name = "write" -> TypeOf(st.args[1]) \in {"Bytes", "String"}
    [] st.s = "call" /\ st.name = "set_var" -> TypeOf(st.args[1]) = "String"
    [] st.s = "call" /\ st.name = "error" -> FALSE
    [] OTHER -> TRUE

\* A rig, for the block that runs: types are those the analyzer has at its end, and nothing
\* is used that only another block, or only one branch, has read.
Plain(rig) ==
  LET code == CASE run.doing = "init" -> rig.init
                [] run.doing = "status" -> rig.status
                [] run.doing = "command" -> rig.commands[run.command].statements
      others == CASE run.doing = "init" -> << >>
                  [] run.doing = "status" -> rig.init
                  [] run.doing = "command" -> rig.init \o rig.status
      parameters == IF run.doing = "command" THEN ParameterTypes(rig.commands[run.command].parameters)
                                             ELSE << >>
      context == Context(rig)
      types == CheckAll([context EXCEPT !.vars = parameters @@ @], code).vars
      settings == InOrder(rig.settings)
      before == AllWithin([k \in DOMAIN settings |-> settings[k].expr])
      exprs == before \o AllOf(Nested(code))
      elsewhere == NamesRead(others)
        \union NamesRead(FlattenSeq([k \in DOMAIN code |->
                 IF code[k].s = "if" THEN code[k].then \o code[k].else ELSE << >>])) IN
  /\ \A k \in DOMAIN before : before[k].e # "variant"
  /\ \A k \in DOMAIN exprs : PlainExpr(exprs[k], types, rig)
  /\ \A k \in DOMAIN Nested(code) : PlainStatement(Nested(code)[k], types, rig)
  /\ NamesUsed(code) \intersect ({"_"} \union elsewhere) = {}
  /\ \A p \in DOMAIN run.args : run.args[p].kind = KindOf(parameters[p])

Judged == run.doing \in {"init", "status", "command"} /\ Plain(run.rig)

\* A run of a rig that the analyzer has accepted, given arguments of the declared kinds, ends
\* because of the data or of the line, never for an operation its values do not have, a
\* variable nobody gave a value or a cast that does not exist.
AcceptedRuns == run.error \notin {""} \union DataErrors => ~ Judged

\* What the status block of an accepted rig publishes is a variable of the schema with a
\* value of its kind, and one that the rig says it supports.
PublishedAsDeclared ==
  LET rig == run.rig
      declared == Schemas[rig.schema].status IN
  run.doing = "status" /\ run.published # ""
      /\ (\A k \in DOMAIN rig.status : rig.status[k].s # "if") /\ Judged =>
    /\ run.published \in DOMAIN declared \intersect SupportedStatusFields(rig)
    /\ run.value.kind = KindOf(declared[run.published])
    /\ run.value.kind = "EnumVariant" => run.value.enum = declared[run.published]
=============================================================================
