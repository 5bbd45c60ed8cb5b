------------------------------ MODULE Bytecode ------------------------------
(* The bytecode path of the interpreter (src/src/compiler.ts, optimizer.ts, *)
(* vm.ts, and the branch of evalSExpr in interpreter.ts that takes it).     *)
(*                                                                          *)
(* An expression the machine can run is compiled, rewritten by the passes   *)
(* of the optimizer, one rewriting after the other, and run; should the     *)
(* machine throw, the interpreter evaluates the expression as it would have *)
(* otherwise.  The interpreter's variable may be set when the expression is *)
(* reached; VM.run is handed the interpreter's variables and does not read  *)
(* them.  Constants stand in the code here, not in a pool, and an           *)
(* instruction's place is counted from 1.                                   *)
EXTENDS Integers, Sequences, FiniteSets, Functions

CONSTANT BcLiterals     \* the integers that programs are written with

ASSUME BytecodeAssumption == BcLiterals \subseteq Int

BcNum(n) == <<"num", n>>
BcBool(b) == <<"bool", b>>
BcNull == <<"null">>
BcError == <<"error">>          \* an exception
BcMismatch == <<"mismatch">>    \* the exception of a builtin given no number
BcErrors == {BcError, BcMismatch}

-----------------------------------------------------------------------------
(* Programs.                                                               *)

BcOp(op, args) == [op |-> op, args |-> args]
BcLit(v) == [op |-> "lit", value |-> v, args |-> << >>]
BcVar == BcOp("variable", << >>)
BcApply(op, left, right) == {BcOp(op, <<l, r>>) : l \in left, r \in right}

BcNumbers0 == {BcLit(BcNum(n)) : n \in BcLiterals}
BcTruths0 == {BcLit(BcBool(b)) : b \in BOOLEAN}
BcTruths ==
  BcTruths0 \cup BcApply("<", BcNumbers0, BcNumbers0)
            \cup {BcOp("not", <<b>>) : b \in BcTruths0}
            \cup BcApply("and", BcTruths0 \cup BcNumbers0, BcTruths0)
            \cup BcApply("or", BcTruths0, BcTruths0 \cup BcNumbers0)
BcDefines == {BcOp("define", <<a>>) : a \in BcNumbers0}
BcPartDefine == BcOp("define", << >>)
BcStops == {BcOp("do", <<BcPartDefine, a>>) : a \in BcNumbers0}
BcChoices == {BcOp("if", <<c, a, a>>) : c \in BcTruths0, a \in BcNumbers0}
BcNumbers ==
  BcNumbers0
    \cup BcApply("-", BcNumbers0, BcNumbers0) \cup BcApply("*", BcNumbers0, BcNumbers0)
    \cup {BcOp("-", <<a>>) : a \in BcNumbers0}
    \cup {BcOp("if", <<c, a, b>>) : c \in BcTruths, a, b \in BcNumbers0}
    \cup {BcOp("if", <<c, a>>) : c \in BcTruths, a \in BcNumbers0}
    \cup BcApply("do", BcDefines \cup BcChoices, BcNumbers0 \cup {BcVar}) \cup {BcVar}
    \cup {BcOp("if", <<c, stop, a>>) : c \in BcTruths0, stop \in BcStops, a \in BcNumbers0}

(* A builtin applied to such operands; special forms come to it inside one.  *)
BcPrograms ==
  BcApply("+", BcNumbers, BcNumbers0) \cup BcApply("list", BcNumbers0, BcNumbers)
    \cup BcApply("-", BcNumbers0, BcNumbers)
    \cup BcApply("<", BcNumbers, BcNumbers0) \cup BcApply("=", BcNumbers0, BcNumbers)
    \cup {BcOp("not", <<b>>) : b \in BcTruths}
    \cup {BcOp("+", args) : args \in BcNumbers0 \X BcNumbers0 \X BcNumbers0}

(* What programs are put together from.                                    *)
BcExprs ==
  BcPrograms \cup BcNumbers \cup BcTruths \cup BcStops \cup BcDefines \cup {BcVar, BcPartDefine}

-----------------------------------------------------------------------------
(* Values.                                                                 *)

BcToNumber(v) ==
  CASE v[1] = "num" -> v[2]
    [] v[1] = "bool" -> IF v[2] THEN 1 ELSE 0
    [] OTHER -> 0                 \* null; no program computes with a list

BcTruthy(v) ==
  CASE v[1] = "bool" -> v[2]
    [] v[1] = "num" -> v[2] # 0
    [] OTHER -> v # BcNull

(* The operators of JavaScript, as the machine and the folding use them.    *)
BcBinary(op, a, b) ==
  CASE op = "ADD" -> BcNum(BcToNumber(a) + BcToNumber(b))
    [] op = "SUB" -> BcNum(BcToNumber(a) - BcToNumber(b))
    [] op = "MUL" -> BcNum(BcToNumber(a) * BcToNumber(b))
    [] op = "LT" -> BcBool(BcToNumber(a) < BcToNumber(b))
    [] op = "EQ" -> BcBool(a = b /\ a[1] # "list")      \* no two lists are one
    [] op = "AND" -> BcBool(BcTruthy(a) /\ BcTruthy(b))
    [] op = "OR" -> BcBool(BcTruthy(a) \/ BcTruthy(b))

BcOpcode == [s \in {"+", "-", "*", "<", "=", "and", "or"} |->
               CASE s = "+" -> "ADD" [] s = "-" -> "SUB" [] s = "*" -> "MUL"
                 [] s = "<" -> "LT" [] s = "=" -> "EQ"
                 [] s = "and" -> "AND" [] s = "or" -> "OR"]
BcBinaryOpcodes == Range(BcOpcode)

-----------------------------------------------------------------------------
(* BytecodeCompiler: the code of an expression that begins at a place.      *)

BcInstr(op, arg) == [op |-> op, arg |-> arg]
BcNop(op) == BcInstr(op, BcNull)
BcPush(v) == <<BcInstr("PUSH_CONST", v)>>

BcElseLate(start, then) == start + Len(then) + 1   \* a defect: one too far
BcElse(start, then) == start + Len(then)

(* The code of an expression, from that of its operands by where it begins. *)
BcForm(e, at, operand) ==
  CASE e.op = "lit" -> BcPush(e.value)
    [] e.op = "variable" -> <<BcNop("PUSH_VAR")>>
    [] e.op = "define" ->
         IF e.args = << >> THEN <<BcNop("HALT")>>
         ELSE operand[1][at] \o <<BcNop("SET_VAR")>> \o BcPush(BcNull)
    [] e.op = "not" -> operand[1][at] \o <<BcNop("NOT")>>
    [] e.op = "do" ->
         LET first == operand[1][at] \o <<BcNop("POP")>>
         IN  first \o operand[2][at + Len(first)]
    [] e.op = "list" ->
         LET first == operand[1][at]
         IN  first \o operand[2][at + Len(first)] \o <<BcInstr("MAKE_LIST", 2)>>
    [] e.op = "if" ->
         LET cond == operand[1][at]
             start == at + Len(cond) + 1
             then == operand[2][start]
             else == BcElse(start, then) + 1
             last == IF Len(e.args) = 3 THEN operand[3][else] ELSE BcPush(BcNull)
         IN  cond \o <<BcInstr("JUMP_IF_FALSE", else)>> \o then
                  \o <<BcInstr("JUMP", else + Len(last))>> \o last
    [] e.op = "-" /\ Len(e.args) = 1 ->
         BcPush(BcNum(0)) \o operand[1][at + 1] \o <<BcNop("SUB")>>
    [] OTHER ->                   \* a third operand is not compiled
         LET first == operand[1][at]
         IN  first \o operand[2][at + Len(first)] \o <<BcNop(BcOpcode[e.op])>>

BcCode[e \in BcExprs] ==
  [at \in Nat |-> BcForm(e, at, [k \in DOMAIN e.args |-> BcCode[e.args[k]]])]

BcCompile(e) == BcCode[e][1] \o <<BcNop("HALT")>>

-----------------------------------------------------------------------------
(* VM.run.  The machine starts with an empty stack and without variables.   *)

BcUnset == BcError
BcState(ip, stack, var, state) == [ip |-> ip, stack |-> stack, var |-> var, state |-> state]
BcMachine == BcState(1, << >>, BcUnset, "runs")

BcHalted(code, s) == s.state = "thrown" \/ s.ip > Len(code) \/ code[s.ip].op = "HALT"

BcEffect(i, s) ==
  LET n == Len(s.stack)
      top == s.stack[n]
      rest == SubSeq(s.stack, 1, n - 1)
      To(ip, stack) == BcState(ip, stack, s.var, "runs")
      Go(stack) == To(s.ip + 1, stack)
      Thrown == BcState(s.ip, s.stack, s.var, "thrown")
  IN
  CASE i.op = "PUSH_CONST" -> Go(Append(s.stack, i.arg))
    [] i.op = "PUSH_VAR" -> IF s.var = BcUnset THEN Thrown ELSE Go(Append(s.stack, s.var))
    [] i.op = "JUMP" -> To(i.arg, s.stack)
    [] i.op = "MAKE_LIST" ->
         IF n < i.arg THEN Thrown
         ELSE Go(Append(SubSeq(s.stack, 1, n - i.arg),
                        <<"list", SubSeq(s.stack, n - i.arg + 1, n)>>))
    [] i.op \in BcBinaryOpcodes ->
         IF n < 2 THEN Thrown
         ELSE Go(Append(SubSeq(s.stack, 1, n - 2), BcBinary(i.op, s.stack[n - 1], top)))
    [] OTHER ->
         IF n = 0 THEN Thrown
         ELSE CASE i.op = "POP" -> Go(rest)
                [] i.op = "NOT" -> Go(Append(rest, BcBool(~BcTruthy(top))))
                [] i.op = "SET_VAR" -> BcState(s.ip + 1, rest, top, "runs")
                [] i.op = "JUMP_IF_FALSE" ->
                     IF BcTruthy(top) THEN Go(rest) ELSE To(i.arg, rest)

BcStep(code, s) == IF BcHalted(code, s) THEN s ELSE BcEffect(code[s.ip], s)

BcTrace(code) ==
  LET trace[n \in Nat] == IF n = 0 THEN BcMachine ELSE BcStep(code, trace[n - 1])
  IN  trace

(* Jumps lead forward: the machine has stopped after as many steps as there *)
(* are instructions.  The value is what is on top then.                    *)
BcThrown == [value |-> BcError, stack |-> << >>]
BcRun(code) ==
  LET end == BcTrace(code)[Len(code)]
      n == Len(end.stack)
  IN  IF end.state = "thrown" THEN BcThrown
      ELSE [value |-> IF n = 0 THEN BcNull ELSE end.stack[n], stack |-> end.stack]

-----------------------------------------------------------------------------
(* The interpreter: what an expression evaluates to, and the variable then. *)

BcAnd(v) == BcTruthy(v)
BcOr(v) == v # BcNull /\ v # BcBool(FALSE)   \* an or takes 0 for true

BcScalars == ({"num"} \X Int) \cup ({"bool"} \X BOOLEAN) \cup {BcNull} \cup BcErrors

BcFirst(set) == CHOOSE i \in set : \A j \in set : i <= j

(* A builtin applied to the values of its operands, or what the first of    *)
(* them that throws has thrown.                                            *)
BcBuiltin(op, values) ==
  LET thrown == {k \in DOMAIN values : values[k] \in BcErrors} IN
  IF thrown # {} THEN values[BcFirst(thrown)]
  ELSE
    CASE op = "list" -> <<"list", values>>
      [] op = "not" -> BcBool(~BcTruthy(values[1]))
      [] op = "=" -> BcBool(values[1] = values[2])
      [] op = "<" -> BcBinary("LT", values[1], values[2])
      [] OTHER ->
           IF \E k \in DOMAIN values : values[k][1] # "num" THEN BcMismatch
           ELSE BcNum(
             CASE op = "+" -> values[1][2] + values[2][2]
                                + (IF Len(values) = 3 THEN values[3][2] ELSE 0)
               [] op = "-" -> IF Len(values) = 1 THEN -values[1][2]
                              ELSE values[1][2] - values[2][2]
               [] op = "*" -> values[1][2] * values[2][2])

(* The operands are evaluated in order and in one context; an exception in  *)
(* the first is the whole form's.                                          *)
BcResult(e, var, operand) ==
  LET First == operand[1][var]
      Second == operand[2][First.var]
      Third == operand[3][Second.var]
      Give(v) == [value |-> v, var |-> var]
      ran == [k \in DOMAIN e.args |-> CASE k = 1 -> First [] k = 2 -> Second [] k = 3 -> Third]
  IN
  CASE e.op = "lit" -> Give(e.value)
    [] e.op = "variable" -> Give(var)
    [] OTHER ->
         IF e.args = << >> THEN Give(BcError)       \* a define with nothing to define
         ELSE IF First.value \in BcErrors THEN First
         ELSE
           CASE e.op = "define" -> [value |-> BcNull, var |-> First.value]
             [] e.op = "do" -> Second
             [] e.op = "if" ->
                  IF BcTruthy(First.value) THEN Second
                  ELSE IF Len(e.args) = 3 THEN operand[3][First.var]
                  ELSE [First EXCEPT !.value = BcNull]
             [] e.op = "and" -> IF BcAnd(First.value) THEN Second ELSE First
             [] e.op = "or" -> IF BcOr(First.value) THEN First ELSE Second
             [] OTHER ->
                  [value |-> BcBuiltin(e.op, [k \in DOMAIN ran |-> ran[k].value]),
                   var |-> ran[Len(ran)].var]

BcEval[e \in BcExprs] ==
  [var \in BcScalars |-> BcResult(e, var, [k \in DOMAIN e.args |-> BcEval[e.args[k]]])]

BcInterpreted(e, known) == BcEval[e][known].value

-----------------------------------------------------------------------------
(* The optimizer's passes: where each rewrites next, 0 for nowhere, how     *)
(* many instructions go there and what comes in their place.               *)

BcPasses == <<"constant-folding", "dead-code-elimination",
              "push-pop-elimination", "jump-optimization">>

BcPushAt(code, i) == code[i].op = "PUSH_CONST"

BcMatches(pass, code) ==
  {i \in DOMAIN code :
     CASE pass = "constant-folding" ->
            /\ i + 2 <= Len(code) /\ BcPushAt(code, i) /\ BcPushAt(code, i + 1)
            /\ code[i + 2].op \in BcBinaryOpcodes
       [] pass = "dead-code-elimination" -> code[i].op = "HALT" /\ i < Len(code)
       [] pass = "push-pop-elimination" ->
            i < Len(code) /\ BcPushAt(code, i) /\ code[i + 1].op = "POP"
       [] pass = "jump-optimization" -> code[i].op = "JUMP" /\ code[i].arg = i + 1}

BcTaken(pass) ==
  CASE pass = "constant-folding" -> 3
    [] pass = "push-pop-elimination" -> 2
    [] pass = "jump-optimization" -> 1
    [] OTHER -> 0

BcFoldedBack(code, i) ==                \* a defect: the operands swapped
  BcPush(BcBinary(code[i + 2].op, code[i + 1].arg, code[i].arg))
BcFolded(code, i) ==
  BcPush(BcBinary(code[i + 2].op, code[i].arg, code[i + 1].arg))
BcPut(pass, code, i) ==
  IF pass = "constant-folding" THEN BcFolded(code, i) ELSE << >>

(* A jump to behind what goes moves with it, one into its middle goes to    *)
(* where it was.                                                           *)
BcMoved(to, i, taken, put) ==
  CASE to >= i + taken -> to - (taken - put)
    [] to > i /\ to < i + taken -> i
    [] OTHER -> to

BcIsJump(instr) == instr.op \in {"JUMP", "JUMP_IF_FALSE"}

BcSpliced(pass, code, i) ==
  LET taken == BcTaken(pass)
      put == BcPut(pass, code, i)
      all == SubSeq(code, 1, i - 1) \o put \o SubSeq(code, i + taken, Len(code))
  IN  [k \in DOMAIN all |->
         IF BcIsJump(all[k])
           THEN [all[k] EXCEPT !.arg = BcMoved(@, i, taken, Len(put))] ELSE all[k]]

BcRewritten(pass, code, i) ==
  IF pass = "dead-code-elimination" THEN SubSeq(code, 1, i) ELSE BcSpliced(pass, code, i)

(* Some jump leads into the middle of what is rewritten, or to what goes.   *)
BcEntered(pass, code, i) ==
  \E k \in DOMAIN code : BcIsJump(code[k]) /\ code[k].arg > i
    /\ (pass = "dead-code-elimination" \/ code[k].arg < i + BcTaken(pass))

-----------------------------------------------------------------------------
VARIABLES
  bc_program,
  bc_known,     \* the variable as the interpreter has it, or BcUnset
  bc_code,
  bc_pass,      \* the pass that works, 5 when the machine is to run, then 6
  bc_answer,
  bc_entered    \* history: a jump led into something that was rewritten

bc_vars == <<bc_program, bc_known, bc_code, bc_pass, bc_answer, bc_entered>>

BcInit ==
  /\ bc_program \in BcPrograms
  /\ bc_known \in {BcUnset} \cup {BcNum(n) : n \in BcLiterals}
  /\ bc_code = BcCompile(bc_program)
  /\ bc_pass = 1
  /\ bc_answer = BcNull
  /\ bc_entered = FALSE

BcRewrite ==
  /\ bc_pass \in DOMAIN BcPasses
  /\ LET pass == BcPasses[bc_pass] at == BcMatches(pass, bc_code) IN
     /\ at # {}
     /\ bc_code' = BcRewritten(pass, bc_code, BcFirst(at))
     /\ bc_entered' = (bc_entered \/ BcEntered(pass, bc_code, BcFirst(at)))
  /\ UNCHANGED <<bc_program, bc_known, bc_pass, bc_answer>>

BcNextPass ==
  /\ bc_pass \in DOMAIN BcPasses
  /\ BcMatches(BcPasses[bc_pass], bc_code) = {}
  /\ bc_pass' = bc_pass + 1
  /\ UNCHANGED <<bc_program, bc_known, bc_code, bc_answer, bc_entered>>

BcFallbackUnset(program, known) ==      \* a defect: the machine's variables
  BcInterpreted(program, BcUnset)
BcFallback(program, known) == BcInterpreted(program, known)

BcAnswer ==
  /\ bc_pass = 5
  /\ LET ran == BcRun(bc_code) IN
     bc_answer' = IF ran = BcThrown THEN BcFallback(bc_program, bc_known) ELSE ran.value
  /\ bc_pass' = 6
  /\ UNCHANGED <<bc_program, bc_known, bc_code, bc_entered>>

BcNext == BcRewrite \/ BcNextPass \/ BcAnswer

BcSpec == BcInit /\ [][BcNext]_bc_vars

-----------------------------------------------------------------------------
(* Properties.                                                             *)

BcOpcodes == BcBinaryOpcodes \cup {"PUSH_CONST", "PUSH_VAR", "SET_VAR", "POP", "NOT",
                                   "JUMP", "JUMP_IF_FALSE", "MAKE_LIST", "HALT"}

(* The code is of known instructions and ends with a HALT, and a jump leads *)
(* forward in it, unless what it led to has been taken for dead.           *)
BcTypeOK ==
  /\ bc_program \in BcPrograms
  /\ bc_known \in BcScalars
  /\ bc_pass \in 1 .. 6 /\ bc_entered \in BOOLEAN
  /\ \A k \in DOMAIN bc_code :
       /\ bc_code[k].op \in BcOpcodes
       /\ BcIsJump(bc_code[k]) /\ ~bc_entered => bc_code[k].arg \in k + 1 .. Len(bc_code)
  /\ bc_code[Len(bc_code)].op = "HALT"

(* Where machine and interpreter are meant alike: whole forms, operators of *)
(* two operands at most, and truth values for and and or: the machine makes *)
(* their value one, the interpreter does not.                              *)
BcWhole(e, operand) ==
  e.op \in {"lit", "variable"} \/
    /\ e.args # << >> /\ (e.op = "if" \/ Len(e.args) <= 2)
    /\ e.op \in {"and", "or"} => \A k \in DOMAIN e.args : e.args[k].value[1] = "bool"
    /\ \A k \in DOMAIN e.args : operand[k]

BcPlain[e \in BcExprs] == BcWhole(e, [k \in DOMAIN e.args |-> BcPlain[e.args[k]]])

(* A rewriting no jump leads into changes neither the value nor the stack   *)
(* (the passes of the optimizer).                                          *)
BcRewriteSafe ==
  [][(BcRewrite /\ bc_entered' = bc_entered) =>
       bc_entered \/ BcRun(bc_code') = BcRun(bc_code)]_bc_vars

(* With no such jump, the answer is the interpreter's, by the machine or by *)
(* falling back on it when the machine lacks the variable; unless the       *)
(* interpreter throws because a builtin is given no number, as it does for  *)
(* (- 1 (if false 1)): the machine computes with whatever it has and says 1 *)
(* (evalSExpr).                                                            *)
BcAgreesElse ==
  (bc_pass = 6 /\ ~bc_entered /\ BcPlain[bc_program]) =>
    BcInterpreted(bc_program, bc_known) \in {bc_answer, BcMismatch}
=============================================================================
