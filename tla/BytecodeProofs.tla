---------------------------- MODULE BytecodeProofs ----------------------------
(* What TLAPS proves of the bytecode path, for every set of integers the    *)
(* programs are written with: what the compiler writes is well formed, a    *)
(* pass of the optimizer that no jump leads into changes no answer, and     *)
(* with no such jump interpreter and machine agree on plain programs.       *)
EXTENDS Bytecode, TLAPS, WellFoundedInduction, SequenceTheorems

-----------------------------------------------------------------------------
(* Induction over the numbers, and the steps of the machine.               *)

LEMMA NatSteps ==
  ASSUME NEW S, 0 \in S, \A n \in Nat : n \in S => n + 1 \in S
  PROVE  Nat \subseteq S
<1> DEFINE T == Nat \ S
<1> SUFFICES ASSUME T # {} PROVE FALSE
  OBVIOUS
<1>1. IsWellFoundedOn(OpToRel(<, Nat), Nat)
  BY NatLessThanWellFounded
<1>2. PICK m \in T : \A y \in T : ~(<<y, m>> \in OpToRel(<, Nat))
  <2> HIDE DEF T
  <2> QED BY <1>1, WFMin DEF T
<1>3. \A y \in T : ~(y < m)
  BY <1>2 DEF OpToRel
<1>4. m # 0 /\ m - 1 \in Nat
  OBVIOUS
<1>5. m - 1 \in S
  BY <1>3, <1>4
<1> QED BY <1>4, <1>5

(* The steps of a trace up to the k-th.                                    *)
Starts(code, k, g) ==
  g = [n \in 0 .. k |-> IF n = 0 THEN BcMachine ELSE BcStep(code, g[n - 1])]

LEMMA StartsStep ==
  ASSUME NEW code, NEW k \in Nat, NEW g, Starts(code, k, g), NEW n \in 0 .. k
  PROVE  g[n] = IF n = 0 THEN BcMachine ELSE BcStep(code, g[n - 1])
BY DEF Starts

LEMMA StartsExist ==
  ASSUME NEW code, NEW k \in Nat PROVE \E g : Starts(code, k, g)
<1> DEFINE Started == {m \in Nat : \E g : Starts(code, m, g)}
<1>1. 0 \in Started
  <2> DEFINE g == [n \in 0 .. 0 |-> BcMachine]
  <2>1. Starts(code, 0, g)
    BY DEF Starts
  <2> QED BY <2>1
<1>2. ASSUME NEW m \in Nat, m \in Started PROVE m + 1 \in Started
  <2>1. PICK g : Starts(code, m, g)
    BY <1>2
  <2> DEFINE h == [n \in 0 .. m + 1 |-> IF n = m + 1 THEN BcStep(code, g[m]) ELSE g[n]]
  <2>2. \A n \in 0 .. m + 1 : h[n] = IF n = 0 THEN BcMachine ELSE BcStep(code, h[n - 1])
    BY <2>1, StartsStep
  <2>3. h = [n \in 0 .. m + 1 |-> h[n]]
    OBVIOUS
  <2>4. Starts(code, m + 1, h)
    <3> HIDE DEF h
    <3> QED BY <2>2, <2>3 DEF Starts
  <2> HIDE DEF h
  <2> QED BY <2>4
<1> HIDE DEF Started
<1>3. k \in Started
  BY <1>1, <1>2, NatSteps
<1> QED BY <1>3 DEF Started

LEMMA StartsAgree ==
  ASSUME NEW code, NEW k \in Nat, NEW j \in Nat, NEW g, NEW h,
         Starts(code, k, g), Starts(code, j, h), NEW n \in Nat, n <= k, n <= j
  PROVE  g[n] = h[n]
<1> DEFINE Same == {m \in Nat : m <= k /\ m <= j => g[m] = h[m]}
<1>1. 0 \in Same
  BY StartsStep
<1>2. ASSUME NEW m \in Nat, m \in Same PROVE m + 1 \in Same
  <2> SUFFICES ASSUME m + 1 <= k, m + 1 <= j PROVE g[m + 1] = h[m + 1]
    OBVIOUS
  <2>1. m + 1 \in 0 .. k /\ m + 1 \in 0 .. j /\ m + 1 # 0 /\ (m + 1) - 1 = m
    OBVIOUS
  <2>2. g[m + 1] = BcStep(code, g[m])
    <3>1. g[m + 1] = IF m + 1 = 0 THEN BcMachine ELSE BcStep(code, g[(m + 1) - 1])
      BY <2>1, StartsStep
    <3> QED BY <2>1, <3>1
  <2>3. h[m + 1] = BcStep(code, h[m])
    <3>1. h[m + 1] = IF m + 1 = 0 THEN BcMachine ELSE BcStep(code, h[(m + 1) - 1])
      BY <2>1, StartsStep
    <3> QED BY <2>1, <3>1
  <2> QED BY <1>2, <2>1, <2>2, <2>3
<1> HIDE DEF Same
<1>3. n \in Same
  BY <1>1, <1>2, NatSteps
<1> QED BY <1>3 DEF Same

LEMMA TraceExists ==
  ASSUME NEW code
  PROVE  \E t : t = [n \in Nat |-> IF n = 0 THEN BcMachine ELSE BcStep(code, t[n - 1])]
<1> DEFINE G(n) == CHOOSE g : Starts(code, n, g)
           t == [n \in Nat |-> G(n)[n]]
<1>1. \A n \in Nat : Starts(code, n, G(n))
  BY StartsExist
<1>2. t[0] = BcMachine
  <2>1. Starts(code, 0, G(0)) /\ t[0] = G(0)[0]
    BY <1>1
  <2> HIDE DEF G
  <2> QED BY <2>1, StartsStep
<1>3. ASSUME NEW n \in Nat, n # 0 PROVE t[n] = BcStep(code, t[n - 1])
  <2>1. n - 1 \in Nat /\ n - 1 <= n
    BY <1>3
  <2>2. G(n)[n - 1] = G(n - 1)[n - 1]
    <3> HIDE DEF G
    <3> QED BY <1>1, <2>1, StartsAgree
  <2>3. G(n)[n] = BcStep(code, G(n)[n - 1])
    <3> HIDE DEF G
    <3> QED BY <1>1, <1>3, StartsStep
  <2> HIDE DEF G
  <2> QED BY <2>1, <2>2, <2>3
<1>4. t = [n \in Nat |-> t[n]]
  OBVIOUS
<1> HIDE DEF t
<1>5. t = [n \in Nat |-> IF n = 0 THEN BcMachine ELSE BcStep(code, t[n - 1])]
  BY <1>2, <1>3, <1>4
<1> QED BY <1>5

(* What the machine does, state by state.                                  *)
LEMMA Trace ==
  ASSUME NEW code
  PROVE  /\ BcTrace(code)[0] = BcMachine
         /\ \A n \in Nat : BcTrace(code)[n + 1] = BcStep(code, BcTrace(code)[n])
<1> DEFINE Is(t) == t = [n \in Nat |-> IF n = 0 THEN BcMachine ELSE BcStep(code, t[n - 1])]
           c == CHOOSE t : Is(t)
<1>1. BcTrace(code) = c
  BY DEF BcTrace
<1>2. Is(c)
  BY TraceExists
<1> HIDE DEF c
<1> QED BY <1>1, <1>2

-----------------------------------------------------------------------------
(* Instructions and code of the kind the compiler writes.                  *)

(* The opcodes that take no argument.                                      *)
BareOpcodes == {"ADD", "SUB", "MUL", "LT", "EQ", "AND", "OR",
                "PUSH_VAR", "SET_VAR", "POP", "NOT", "HALT"}

Instrs ==
  [op : {"PUSH_CONST"}, arg : BcScalars] \cup [op : {"JUMP", "JUMP_IF_FALSE"}, arg : Int]
    \cup [op : {"MAKE_LIST"}, arg : Nat] \cup [op : BareOpcodes, arg : {BcNull}]

CodeOK(code) ==
  /\ code \in Seq(Instrs)
  /\ Len(code) > 0
  /\ code[Len(code)].op = "HALT"

Forward(code) ==
  \A k \in DOMAIN code : BcIsJump(code[k]) => code[k].arg \in k + 1 .. Len(code)

IsSeq(stack) == \E S : stack \in Seq(S)

StateOK(s) ==
  \E ip \in Nat \ {0}, state \in {"runs", "thrown"} : \E stack, var :
     IsSeq(stack) /\ s = BcState(ip, stack, var, state)

LEMMA BinaryOpcodes ==
  BcBinaryOpcodes = {"ADD", "SUB", "MUL", "LT", "EQ", "AND", "OR"}
<1> DEFINE D == {"+", "-", "*", "<", "=", "and", "or"}
<1>1. DOMAIN BcOpcode = D
  BY DEF BcOpcode
<1>2. /\ BcOpcode["+"] = "ADD" /\ BcOpcode["-"] = "SUB" /\ BcOpcode["*"] = "MUL"
      /\ BcOpcode["<"] = "LT" /\ BcOpcode["="] = "EQ" /\ BcOpcode["and"] = "AND"
      /\ BcOpcode["or"] = "OR"
  BY DEF BcOpcode
<1>3. BcBinaryOpcodes = {BcOpcode[s] : s \in D}
  BY <1>1 DEF BcBinaryOpcodes, Range
<1> QED BY <1>2, <1>3

LEMMA Scalars ==
  /\ \A n \in Int : BcNum(n) \in BcScalars
  /\ \A b \in BOOLEAN : BcBool(b) \in BcScalars
  /\ BcNull \in BcScalars /\ BcError \in BcScalars /\ BcMismatch \in BcScalars
  /\ \A v \in BcScalars :
       \/ \E n \in Int : v = BcNum(n)
       \/ \E b \in BOOLEAN : v = BcBool(b)
       \/ v \in {BcNull, BcError, BcMismatch}
<1>1. \A n \in Int : BcNum(n) \in BcScalars
  BY DEF BcNum, BcScalars
<1>2. \A b \in BOOLEAN : BcBool(b) \in BcScalars
  BY DEF BcBool, BcScalars
<1>3. BcNull \in BcScalars /\ BcError \in BcScalars /\ BcMismatch \in BcScalars
  BY DEF BcScalars, BcErrors
<1>4. ASSUME NEW v \in BcScalars, v \in {"num"} \X Int PROVE \E n \in Int : v = BcNum(n)
  BY <1>4 DEF BcNum
<1>5. ASSUME NEW v \in BcScalars, v \in {"bool"} \X BOOLEAN PROVE \E b \in BOOLEAN : v = BcBool(b)
  BY <1>5 DEF BcBool
<1> QED BY <1>1, <1>2, <1>3, <1>4, <1>5 DEF BcScalars, BcErrors

LEMMA ScalarParts ==
  ASSUME NEW v \in BcScalars
  PROVE  BcToNumber(v) \in Int /\ BcTruthy(v) \in BOOLEAN
<1>1. CASE \E n \in Int : v = BcNum(n)
  BY <1>1 DEF BcNum, BcToNumber, BcTruthy
<1>2. CASE \E b \in BOOLEAN : v = BcBool(b)
  BY <1>2 DEF BcBool, BcToNumber, BcTruthy
<1>3. CASE v \in {BcNull, BcError, BcMismatch}
  <2>1. v[1] # "num" /\ v[1] # "bool"
    BY <1>3 DEF BcNull, BcError, BcMismatch
  <2>2. BcToNumber(v) = 0
    BY <2>1 DEF BcToNumber
  <2>3. BcTruthy(v) = (v # BcNull)
    BY <2>1 DEF BcTruthy
  <2> QED BY <2>2, <2>3
<1> QED BY <1>1, <1>2, <1>3, Scalars

LEMMA BinaryTyped ==
  ASSUME NEW op \in BcBinaryOpcodes, NEW a \in BcScalars, NEW b \in BcScalars
  PROVE  BcBinary(op, a, b) \in BcScalars
<1>1. BcToNumber(a) \in Int /\ BcToNumber(b) \in Int
  BY ScalarParts
<1>2. BcTruthy(a) \in BOOLEAN /\ BcTruthy(b) \in BOOLEAN
  BY ScalarParts
<1>3. op \in {"ADD", "SUB", "MUL", "LT", "EQ", "AND", "OR"}
  BY BinaryOpcodes
<1> DEFINE x == BcToNumber(a)
           y == BcToNumber(b)
           p == BcTruthy(a)
           q == BcTruthy(b)
<1>4. /\ x + y \in Int /\ x - y \in Int /\ x * y \in Int /\ (x < y) \in BOOLEAN
      /\ (a = b /\ a[1] # "list") \in BOOLEAN /\ (p /\ q) \in BOOLEAN /\ (p \/ q) \in BOOLEAN
  BY <1>1, <1>2
<1> HIDE DEF x, y, p, q
<1>5. BcBinary(op, a, b) \in {BcNum(x + y), BcNum(x - y), BcNum(x * y), BcBool(x < y),
                              BcBool(a = b /\ a[1] # "list"), BcBool(p /\ q),
                              BcBool(p \/ q)}
  BY <1>3 DEF BcBinary, x, y, p, q
<1> QED BY <1>4, <1>5, Scalars

LEMMA SeqAppend ==
  ASSUME NEW stack, IsSeq(stack), NEW v
  PROVE  /\ IsSeq(Append(stack, v))
         /\ Len(Append(stack, v)) = Len(stack) + 1
         /\ Append(stack, v)[Len(stack) + 1] = v
         /\ \A k \in 1 .. Len(stack) : Append(stack, v)[k] = stack[k]
<1>1. PICK S : stack \in Seq(S)
  BY DEF IsSeq
<1>2. stack \in Seq(S \cup {v}) /\ v \in S \cup {v}
  BY <1>1
<1>3. Append(stack, v) \in Seq(S \cup {v})
  BY <1>2
<1> QED BY <1>2, <1>3 DEF IsSeq

LEMMA SeqPrefix ==
  ASSUME NEW stack, IsSeq(stack), NEW n \in 0 .. Len(stack)
  PROVE  IsSeq(SubSeq(stack, 1, n)) /\ Len(SubSeq(stack, 1, n)) = n
<1>1. PICK S : stack \in Seq(S)
  BY DEF IsSeq
<1>2. \A k \in 1 .. n : stack[k] \in S
  BY <1>1
<1> QED BY <1>1, <1>2, SubSeqProperties DEF IsSeq

(* What is pushed is what the next pops find.                              *)
LEMMA SeqPopped ==
  ASSUME NEW stack, IsSeq(stack), NEW v
  PROVE  SubSeq(Append(stack, v), 1, Len(stack)) = stack
<1>1. PICK S : stack \in Seq(S)
  BY DEF IsSeq
<1>2. stack \in Seq(S \cup {v}) /\ v \in S \cup {v}
  BY <1>1
<1> HIDE DEF IsSeq
<1> QED BY <1>2

LEMMA InstrKinds ==
  ASSUME NEW i \in Instrs
  PROVE  /\ i.op \in BcOpcodes
         /\ BcIsJump(i) => i.arg \in Int
         /\ i.op = "MAKE_LIST" => i.arg \in Nat
         /\ i.op = "PUSH_CONST" => i.arg \in BcScalars
         /\ \/ i.op \in {"PUSH_CONST", "PUSH_VAR", "JUMP", "MAKE_LIST"}
            \/ i.op \in BcBinaryOpcodes
            \/ i.op \in {"POP", "NOT", "SET_VAR", "JUMP_IF_FALSE", "HALT"}
         /\ i.op \in BcBinaryOpcodes =>
              i.op \notin {"PUSH_CONST", "PUSH_VAR", "JUMP", "MAKE_LIST", "POP", "NOT",
                           "SET_VAR", "JUMP_IF_FALSE", "HALT"}
<1> USE DEF Instrs, BareOpcodes, BcIsJump
<1>1. i.op \in BcOpcodes
  BY BinaryOpcodes DEF BcOpcodes
<1>2. i.op \in BcBinaryOpcodes =>
        i.op \notin {"PUSH_CONST", "PUSH_VAR", "JUMP", "MAKE_LIST", "POP", "NOT",
                     "SET_VAR", "JUMP_IF_FALSE", "HALT"}
  BY BinaryOpcodes
<1>3. \/ i.op \in {"PUSH_CONST", "PUSH_VAR", "JUMP", "MAKE_LIST"}
      \/ i.op \in BcBinaryOpcodes
      \/ i.op \in {"POP", "NOT", "SET_VAR", "JUMP_IF_FALSE", "HALT"}
  BY BinaryOpcodes
<1> QED BY <1>1, <1>2, <1>3

LEMMA StateParts ==
  ASSUME NEW ip, NEW stack, NEW var, NEW state
  PROVE  /\ BcState(ip, stack, var, state).ip = ip
         /\ BcState(ip, stack, var, state).stack = stack
         /\ BcState(ip, stack, var, state).var = var
         /\ BcState(ip, stack, var, state).state = state
BY DEF BcState

(* What comes of a running machine by an instruction, case by case.         *)
Outcome(i, ip, stack, var, t) ==
  LET n == Len(stack)
      rest == SubSeq(stack, 1, n - 1)
      Goes(st) == t = BcState(ip + 1, st, var, "runs")
      Throws == t = BcState(ip, stack, var, "thrown")
  IN
  /\ i.op = "PUSH_CONST" => Goes(Append(stack, i.arg))
  /\ i.op = "PUSH_VAR" =>
       IF var = BcUnset THEN Throws ELSE Goes(Append(stack, var))
  /\ i.op = "JUMP" => t = BcState(i.arg, stack, var, "runs")
  /\ i.op = "MAKE_LIST" =>
       IF n < i.arg THEN Throws
       ELSE Goes(Append(SubSeq(stack, 1, n - i.arg),
                        <<"list", SubSeq(stack, n - i.arg + 1, n)>>))
  /\ i.op \in BcBinaryOpcodes =>
       IF n < 2 THEN Throws
       ELSE Goes(Append(SubSeq(stack, 1, n - 2),
                        BcBinary(i.op, stack[n - 1], stack[n])))
  /\ i.op = "POP" => IF n = 0 THEN Throws ELSE Goes(rest)
  /\ i.op = "NOT" =>
       IF n = 0 THEN Throws ELSE Goes(Append(rest, BcBool(~BcTruthy(stack[n]))))
  /\ i.op = "SET_VAR" =>
       IF n = 0 THEN Throws ELSE t = BcState(ip + 1, rest, stack[n], "runs")
  /\ i.op = "JUMP_IF_FALSE" =>
       IF n = 0 THEN Throws
       ELSE IF BcTruthy(stack[n]) THEN Goes(rest)
       ELSE t = BcState(i.arg, rest, var, "runs")

LEMMA StepOf ==
  ASSUME NEW code, NEW ip \in 1 .. Len(code), NEW stack, NEW var,
         Len(code) \in Nat, code[ip] \in Instrs, code[ip].op # "HALT"
  PROVE  Outcome(code[ip], ip, stack, var, BcStep(code, BcState(ip, stack, var, "runs")))
<1> DEFINE i == code[ip]
           n == Len(stack)
           s == BcState(ip, stack, var, "runs")
           rest == SubSeq(stack, 1, n - 1)
           t == BcStep(code, s)
<1>1. s.ip = ip /\ s.stack = stack /\ s.var = var /\ s.state = "runs"
  BY StateParts
<1>2. ~BcHalted(code, s)
  <2> HIDE DEF s
  <2> QED BY <1>1 DEF BcHalted
<1>8. t = BcStep(code, s)
  OBVIOUS
<1>9. i.op \in BcBinaryOpcodes =>
        i.op \notin {"PUSH_CONST", "PUSH_VAR", "JUMP", "MAKE_LIST", "POP", "NOT",
                     "SET_VAR", "JUMP_IF_FALSE", "HALT"}
  BY InstrKinds
<1> HIDE DEF s, t
<1>10. i.op = "PUSH_CONST" => t = BcState(ip + 1, Append(stack, i.arg), var, "runs")
  BY <1>1, <1>2, <1>8, <1>9 DEF BcStep, BcEffect
<1>11. i.op = "PUSH_VAR" =>
         IF var = BcUnset THEN t = BcState(ip, stack, var, "thrown")
         ELSE t = BcState(ip + 1, Append(stack, var), var, "runs")
  BY <1>1, <1>2, <1>8, <1>9 DEF BcStep, BcEffect
<1>12. i.op = "JUMP" => t = BcState(i.arg, stack, var, "runs")
  BY <1>1, <1>2, <1>8, <1>9 DEF BcStep, BcEffect
<1>13. i.op = "MAKE_LIST" =>
         IF n < i.arg THEN t = BcState(ip, stack, var, "thrown")
         ELSE t = BcState(ip + 1, Append(SubSeq(stack, 1, n - i.arg),
                                    <<"list", SubSeq(stack, n - i.arg + 1, n)>>), var, "runs")
  BY <1>1, <1>2, <1>8, <1>9 DEF BcStep, BcEffect
<1>14. i.op \in BcBinaryOpcodes =>
         IF n < 2 THEN t = BcState(ip, stack, var, "thrown")
         ELSE t = BcState(ip + 1, Append(SubSeq(stack, 1, n - 2),
                                    BcBinary(i.op, stack[n - 1], stack[n])), var, "runs")
  BY <1>1, <1>2, <1>8, <1>9 DEF BcStep, BcEffect
<1>15. i.op = "POP" => IF n = 0 THEN t = BcState(ip, stack, var, "thrown")
                       ELSE t = BcState(ip + 1, rest, var, "runs")
  BY <1>1, <1>2, <1>8, <1>9 DEF BcStep, BcEffect
<1>16. i.op = "NOT" =>
         IF n = 0 THEN t = BcState(ip, stack, var, "thrown")
         ELSE t = BcState(ip + 1, Append(rest, BcBool(~BcTruthy(stack[n]))), var, "runs")
  BY <1>1, <1>2, <1>8, <1>9 DEF BcStep, BcEffect
<1>17. i.op = "SET_VAR" =>
         IF n = 0 THEN t = BcState(ip, stack, var, "thrown")
         ELSE t = BcState(ip + 1, rest, stack[n], "runs")
  BY <1>1, <1>2, <1>8, <1>9 DEF BcStep, BcEffect
<1>18. i.op = "JUMP_IF_FALSE" =>
         IF n = 0 THEN t = BcState(ip, stack, var, "thrown")
         ELSE IF BcTruthy(stack[n]) THEN t = BcState(ip + 1, rest, var, "runs")
         ELSE t = BcState(i.arg, rest, var, "runs")
  BY <1>1, <1>2, <1>8, <1>9 DEF BcStep, BcEffect
<1>19. Outcome(i, ip, stack, var, t)
  BY <1>10, <1>11, <1>12, <1>13, <1>14, <1>15, <1>16, <1>17, <1>18 DEF Outcome
<1> QED BY <1>19 DEF s, t

(* A step of code whose jumps lead forward leads forward or fails.         *)
LEMMA StepForward ==
  ASSUME NEW code, CodeOK(code), Forward(code), NEW s, StateOK(s), ~BcHalted(code, s)
  PROVE  /\ StateOK(BcStep(code, s))
         /\ BcStep(code, s).state = "thrown" \/ BcStep(code, s).ip > s.ip
<1>1. PICK ip \in Nat \ {0}, state \in {"runs", "thrown"} : \E stack, var :
        IsSeq(stack) /\ s = BcState(ip, stack, var, state)
  BY DEF StateOK
<1>1a. PICK stack, var : IsSeq(stack) /\ s = BcState(ip, stack, var, state)
  BY <1>1
<1>2. s.ip = ip /\ s.state = state
  BY <1>1a, StateParts
<1>3. Len(code) \in Nat
  BY DEF CodeOK
<1>4. ip \in 1 .. Len(code) /\ state = "runs" /\ code[ip].op # "HALT"
  BY <1>1a, <1>2, <1>3 DEF BcHalted
<1> DEFINE i == code[ip]
           n == Len(stack)
           t == BcStep(code, s)
           rest == SubSeq(stack, 1, n - 1)
<1>5. i \in Instrs /\ (BcIsJump(i) => i.arg \in Int /\ i.arg > ip)
  <2>1. i \in Instrs
    BY <1>4 DEF CodeOK
  <2>2. ip \in DOMAIN code
    BY <1>4 DEF CodeOK
  <2> QED BY <1>3, <1>4, <2>1, <2>2 DEF Forward
<1>6. n \in Nat
  BY <1>1a DEF IsSeq
<1>7. Outcome(i, ip, stack, var, t)
  BY <1>1a, <1>3, <1>4, <1>5, StepOf
<1> HIDE DEF t
<1> DEFINE Throws == t = BcState(ip, stack, var, "thrown")
           Leads(to, st, v) == t = BcState(to, st, v, "runs")
           Fine == StateOK(t) /\ (t.state = "thrown" \/ t.ip > ip)
<1>8. Throws => Fine
  BY <1>1a, StateParts DEF StateOK
<1>9. ASSUME NEW to \in Int, to > ip, NEW st, IsSeq(st), NEW v, Leads(to, st, v) PROVE Fine
  <2>1. to \in Nat \ {0}
    BY <1>9
  <2>2. StateOK(t)
    BY <1>9, <2>1 DEF StateOK
  <2>3. t.ip = to
    BY <1>9, StateParts
  <2> QED BY <1>9, <2>2, <2>3
<1>10. \A m \in 0 .. n : IsSeq(SubSeq(stack, 1, m))
  BY <1>1a, SeqPrefix
<1>11. \A st, v : IsSeq(st) => IsSeq(Append(st, v))
  BY SeqAppend
<1>12. ip + 1 \in Int /\ ip + 1 > ip
  OBVIOUS
<1> SUFFICES Fine
  BY <1>2 DEF t
<1> HIDE DEF Fine
<1>13. CASE i.op = "PUSH_CONST"
  <2>1. Leads(ip + 1, Append(stack, i.arg), var)
    BY <1>7, <1>13 DEF Outcome
  <2> QED BY <1>1a, <1>9, <1>11, <1>12, <2>1
<1>14. CASE i.op = "PUSH_VAR"
  <2>1. Throws \/ Leads(ip + 1, Append(stack, var), var)
    BY <1>7, <1>14 DEF Outcome
  <2> QED BY <1>1a, <1>8, <1>9, <1>11, <1>12, <2>1
<1>15. CASE i.op = "JUMP"
  <2>1. Leads(i.arg, stack, var)
    BY <1>7, <1>15 DEF Outcome
  <2> QED BY <1>1a, <1>5, <1>9, <1>15, <2>1 DEF BcIsJump
<1>16. CASE i.op = "MAKE_LIST"
  <2>1. Throws \/ (~(n < i.arg) /\ Leads(ip + 1, Append(SubSeq(stack, 1, n - i.arg),
                                   <<"list", SubSeq(stack, n - i.arg + 1, n)>>), var))
    BY <1>7, <1>16 DEF Outcome
  <2>2. i.arg \in Nat
    BY <1>5, <1>16, InstrKinds
  <2>3. ~(n < i.arg) => n - i.arg \in 0 .. n
    BY <1>6, <2>2
  <2> QED BY <1>8, <1>9, <1>10, <1>11, <1>12, <2>1, <2>3
<1>17. CASE i.op \in BcBinaryOpcodes
  <2>1. Throws \/ (~(n < 2) /\ Leads(ip + 1, Append(SubSeq(stack, 1, n - 2),
                                   BcBinary(i.op, stack[n - 1], stack[n])), var))
    BY <1>7, <1>17 DEF Outcome
  <2>2. ~(n < 2) => n - 2 \in 0 .. n
    BY <1>6
  <2> QED BY <1>8, <1>9, <1>10, <1>11, <1>12, <2>1, <2>2
<1>18. CASE i.op = "POP"
  <2>1. Throws \/ (n # 0 /\ Leads(ip + 1, rest, var))
    BY <1>7, <1>18 DEF Outcome
  <2>2. n # 0 => n - 1 \in 0 .. n
    BY <1>6
  <2> QED BY <1>8, <1>9, <1>10, <1>12, <2>1, <2>2
<1>19. CASE i.op = "NOT"
  <2>1. Throws \/ (n # 0 /\ Leads(ip + 1, Append(rest, BcBool(~BcTruthy(stack[n]))), var))
    BY <1>7, <1>19 DEF Outcome
  <2>2. n # 0 => n - 1 \in 0 .. n
    BY <1>6
  <2> QED BY <1>8, <1>9, <1>10, <1>11, <1>12, <2>1, <2>2
<1>20. CASE i.op = "SET_VAR"
  <2>1. Throws \/ (n # 0 /\ Leads(ip + 1, rest, stack[n]))
    BY <1>7, <1>20 DEF Outcome
  <2>2. n # 0 => n - 1 \in 0 .. n
    BY <1>6
  <2> QED BY <1>8, <1>9, <1>10, <1>12, <2>1, <2>2
<1>21. CASE i.op = "JUMP_IF_FALSE"
  <2>1. Throws \/ (n # 0 /\ (Leads(ip + 1, rest, var) \/ Leads(i.arg, rest, var)))
    BY <1>7, <1>21 DEF Outcome
  <2>2. n # 0 => n - 1 \in 0 .. n
    BY <1>6
  <2>3. i.arg \in Int /\ i.arg > ip
    BY <1>5, <1>21 DEF BcIsJump
  <2> QED BY <1>8, <1>9, <1>10, <1>12, <2>1, <2>2, <2>3
<1> QED
  BY <1>4, <1>5, <1>13, <1>14, <1>15, <1>16, <1>17, <1>18, <1>19, <1>20, <1>21, InstrKinds

(* An instruction that is no jump does the same wherever it stands.         *)
LEMMA StepAlike ==
  ASSUME NEW c, Len(c) \in Nat, NEW p \in 1 .. Len(c), c[p] \in Instrs, c[p].op # "HALT",
         NEW d, Len(d) \in Nat, NEW q \in 1 .. Len(d), d[q] = c[p], ~BcIsJump(c[p]),
         NEW stack, NEW var
  PROVE  LET s == BcStep(c, BcState(p, stack, var, "runs"))
             t == BcStep(d, BcState(q, stack, var, "runs"))
         IN  \/ s = BcState(p, stack, var, "thrown") /\ t = BcState(q, stack, var, "thrown")
             \/ \E st, v : s = BcState(p + 1, st, v, "runs") /\ t = BcState(q + 1, st, v, "runs")
<1> DEFINE i == c[p]
           n == Len(stack)
           s == BcStep(c, BcState(p, stack, var, "runs"))
           t == BcStep(d, BcState(q, stack, var, "runs"))
           Throws == s = BcState(p, stack, var, "thrown") /\ t = BcState(q, stack, var, "thrown")
           Goes == \E st, v : s = BcState(p + 1, st, v, "runs") /\ t = BcState(q + 1, st, v, "runs")
<1>1. Outcome(i, p, stack, var, s) /\ Outcome(i, q, stack, var, t)
  BY StepOf
<1> SUFFICES Throws \/ Goes
  OBVIOUS
<1> HIDE DEF s, t
<1>3. CASE i.op \in {"PUSH_CONST", "PUSH_VAR"}
  BY <1>1, <1>3 DEF Outcome
<1>4. CASE i.op = "MAKE_LIST"
  BY <1>1, <1>4 DEF Outcome
<1>5. CASE i.op \in BcBinaryOpcodes
  BY <1>1, <1>5 DEF Outcome
<1>6. CASE i.op \in {"POP", "NOT"}
  BY <1>1, <1>6 DEF Outcome
<1>7. CASE i.op = "SET_VAR"
  BY <1>1, <1>7 DEF Outcome
<1> QED
  BY <1>3, <1>4, <1>5, <1>6, <1>7, InstrKinds DEF BcIsJump

-----------------------------------------------------------------------------
(* Where jumps lead forward the machine comes to an end.                   *)

LEMMA MachineOK == StateOK(BcMachine) /\ BcMachine.ip = 1
<1>1. IsSeq(<< >>)
  BY DEF IsSeq
<1>2. StateOK(BcMachine)
  BY <1>1 DEF StateOK, BcMachine
<1> QED BY <1>2, StateParts DEF BcMachine

LEMMA TraceOK ==
  ASSUME NEW code, CodeOK(code), Forward(code), NEW n \in Nat
  PROVE  /\ StateOK(BcTrace(code)[n])
         /\ BcHalted(code, BcTrace(code)[n]) \/ BcTrace(code)[n].ip > n
<1> DEFINE T(k) == BcTrace(code)[k]
           S == {k \in Nat : StateOK(T(k)) /\ (BcHalted(code, T(k)) \/ T(k).ip > k)}
<1>1. 0 \in S
  BY MachineOK, Trace
<1>2. ASSUME NEW k \in Nat, k \in S PROVE k + 1 \in S
  <2>1. T(k + 1) = BcStep(code, T(k))
    BY Trace
  <2> HIDE DEF T
  <2>2. CASE BcHalted(code, T(k))
    <3>1. T(k + 1) = T(k)
      BY <2>1, <2>2 DEF BcStep
    <3> QED BY <1>2, <2>2, <3>1
  <2>3. CASE ~BcHalted(code, T(k))
    <3>1. StateOK(T(k)) /\ T(k).ip > k
      BY <1>2, <2>3
    <3>2. /\ StateOK(T(k + 1))
          /\ T(k + 1).state = "thrown" \/ T(k + 1).ip > T(k).ip
      BY <2>1, <2>3, <3>1, StepForward
    <3>3. T(k).ip \in Nat /\ T(k + 1).ip \in Nat
      BY <3>1, <3>2, StateParts DEF StateOK
    <3>4. BcHalted(code, T(k + 1)) \/ T(k + 1).ip > k + 1
      BY <3>1, <3>2, <3>3 DEF BcHalted
    <3> QED BY <3>2, <3>4
  <2> QED BY <2>2, <2>3
<1> HIDE DEF S
<1>3. n \in S
  BY <1>1, <1>2, NatSteps
<1> QED BY <1>3 DEF S

(* The machine has stopped after as many steps as there are instructions.  *)
LEMMA TraceStops ==
  ASSUME NEW code, CodeOK(code), Forward(code)
  PROVE  BcHalted(code, BcTrace(code)[Len(code)])
<1>1. Len(code) \in Nat
  BY DEF CodeOK
<1> QED BY <1>1, TraceOK DEF BcHalted

LEMMA TraceStays ==
  ASSUME NEW code, NEW m \in Nat, BcHalted(code, BcTrace(code)[m]), NEW n \in Nat, m <= n
  PROVE  BcTrace(code)[n] = BcTrace(code)[m]
<1> DEFINE T(k) == BcTrace(code)[k]
           S == {k \in Nat : m <= k => T(k) = T(m)}
<1>1. 0 \in S
  OBVIOUS
<1>2. ASSUME NEW k \in Nat, k \in S PROVE k + 1 \in S
  <2> SUFFICES ASSUME m <= k + 1, m # k + 1 PROVE T(k + 1) = T(m)
    OBVIOUS
  <2>1. m <= k
    OBVIOUS
  <2>2. T(k) = T(m)
    BY <1>2, <2>1
  <2>3. T(k + 1) = BcStep(code, T(k))
    BY Trace
  <2> HIDE DEF T
  <2> QED BY <2>2, <2>3 DEF BcStep, T
<1> HIDE DEF S
<1>3. n \in S
  BY <1>1, <1>2, NatSteps
<1> QED BY <1>3 DEF S

(* So wherever two of its states have stopped, they are one.               *)
LEMMA TraceEnds ==
  ASSUME NEW code, NEW m \in Nat, NEW n \in Nat,
         BcHalted(code, BcTrace(code)[m]), BcHalted(code, BcTrace(code)[n])
  PROVE  BcTrace(code)[n] = BcTrace(code)[m]
<1>1. CASE m <= n
  BY <1>1, TraceStays
<1>2. CASE n <= m
  BY <1>2, TraceStays
<1> QED BY <1>1, <1>2

-----------------------------------------------------------------------------
(* What a pass takes out of the code, and how the rest of it moves.        *)

Shifted(j, i, taken, put) ==
  IF BcIsJump(j) THEN [j EXCEPT !.arg = BcMoved(@, i, taken, put)] ELSE j

(* What a splicing pass finds, and what it puts there.                     *)
Window(code, i, taken, put) ==
  /\ i \in 1 .. Len(code)
  /\ i + taken <= Len(code)
  /\ \/ /\ taken = 3
        /\ put = BcFolded(code, i)
        /\ code[i].op = "PUSH_CONST" /\ code[i + 1].op = "PUSH_CONST"
        /\ code[i + 2].op \in BcBinaryOpcodes
     \/ /\ taken = 2
        /\ put = << >>
        /\ code[i].op = "PUSH_CONST" /\ code[i + 1].op = "POP"
     \/ /\ taken = 1
        /\ put = << >>
        /\ code[i].op = "JUMP" /\ code[i].arg = i + 1

LEMMA Windows ==
  ASSUME NEW code, CodeOK(code), NEW pass \in Range(BcPasses), pass # "dead-code-elimination",
         NEW i \in BcMatches(pass, code)
  PROVE  Window(code, i, BcTaken(pass), BcPut(pass, code, i))
<1>1. code \in Seq(Instrs) /\ Len(code) \in Nat /\ code[Len(code)].op = "HALT"
  BY DEF CodeOK
<1>2. pass \in {"constant-folding", "push-pop-elimination", "jump-optimization"}
  <2>1. DOMAIN BcPasses = 1 .. 4
    BY DEF BcPasses
  <2> QED BY <2>1 DEF BcPasses, Range
<1>3. i \in 1 .. Len(code)
  BY <1>1 DEF BcMatches
<1>4. CASE pass = "constant-folding"
  <2>1. /\ i + 2 <= Len(code) /\ code[i].op = "PUSH_CONST" /\ code[i + 1].op = "PUSH_CONST"
        /\ code[i + 2].op \in BcBinaryOpcodes
    BY <1>4 DEF BcMatches, BcPushAt
  <2>2. i + 2 # Len(code)
    BY <1>1, <2>1, BinaryOpcodes
  <2> QED BY <1>1, <1>3, <1>4, <2>1, <2>2 DEF Window, BcTaken, BcPut
<1>5. CASE pass = "push-pop-elimination"
  <2>1. i < Len(code) /\ code[i].op = "PUSH_CONST" /\ code[i + 1].op = "POP"
    BY <1>5 DEF BcMatches, BcPushAt
  <2>2. i + 1 # Len(code)
    BY <1>1, <2>1
  <2> QED BY <1>1, <1>3, <1>5, <2>1, <2>2 DEF Window, BcTaken, BcPut
<1>6. CASE pass = "jump-optimization"
  <2>1. code[i].op = "JUMP" /\ code[i].arg = i + 1
    BY <1>6 DEF BcMatches
  <2>2. i # Len(code)
    BY <1>1, <2>1
  <2> QED BY <1>1, <1>3, <1>6, <2>1, <2>2 DEF Window, BcTaken, BcPut
<1> QED BY <1>2, <1>4, <1>5, <1>6

LEMMA WindowPut ==
  ASSUME NEW code, CodeOK(code), NEW i, NEW taken, NEW put, Window(code, i, taken, put)
  PROVE  /\ put \in Seq(Instrs) /\ taken \in 1 .. 3
         /\ Len(put) = IF taken = 3 THEN 1 ELSE 0
         /\ \A k \in 1 .. Len(put) : ~BcIsJump(put[k])
<1>1. CASE taken = 3 /\ put = BcFolded(code, i)
  <2>1. i \in 1 .. Len(code) /\ i + 1 \in 1 .. Len(code) /\ i + 2 \in 1 .. Len(code)
    BY <1>1 DEF Window, CodeOK
  <2>2. code[i] \in Instrs /\ code[i + 1] \in Instrs
    BY <2>1 DEF CodeOK
  <2>3. code[i].op = "PUSH_CONST" /\ code[i + 1].op = "PUSH_CONST" /\ code[i + 2].op \in BcBinaryOpcodes
    BY <1>1 DEF Window
  <2>4. code[i].arg \in BcScalars /\ code[i + 1].arg \in BcScalars
    BY <2>2, <2>3, InstrKinds
  <2> DEFINE v == BcBinary(code[i + 2].op, code[i].arg, code[i + 1].arg)
             push == BcInstr("PUSH_CONST", v)
  <2>5. v \in BcScalars
    BY <2>3, <2>4, BinaryTyped
  <2>6. put = <<push>>
    BY <1>1 DEF BcFolded, BcPush
  <2> HIDE DEF v
  <2>7. push \in Instrs /\ ~BcIsJump(push)
    BY <2>5 DEF Instrs, BcInstr, BcIsJump
  <2> HIDE DEF push
  <2> QED BY <1>1, <2>6, <2>7
<1>2. CASE taken \in {1, 2} /\ put = << >>
  BY <1>2
<1> QED BY <1>1, <1>2 DEF Window

(* The code with its window exchanged, place by place.                     *)
Exchanged(code, i, taken, put) ==
  SubSeq(code, 1, i - 1) \o put \o SubSeq(code, i + taken, Len(code))

LEMMA Cut ==
  ASSUME NEW S, NEW code \in Seq(S), NEW put \in Seq(S), NEW i \in 1 .. Len(code),
         NEW taken \in Nat, i + taken <= Len(code)
  PROVE  LET all == Exchanged(code, i, taken, put)
         IN  /\ all \in Seq(S)
             /\ Len(all) = Len(code) - (taken - Len(put))
             /\ \A k \in 1 .. i - 1 : all[k] = code[k]
             /\ \A k \in 1 .. Len(put) : all[i - 1 + k] = put[k]
             /\ \A k \in i + Len(put) .. Len(all) : all[k] = code[k + (taken - Len(put))]
<1> DEFINE A == SubSeq(code, 1, i - 1)
           B == SubSeq(code, i + taken, Len(code))
<1>1. Len(code) \in Nat /\ Len(put) \in Nat
  OBVIOUS
<1>2. /\ A \in Seq(S) /\ Len(A) = i - 1
      /\ \A k \in 1 .. i - 1 : A[k] = code[k]
  <2>1. i - 1 \in Int /\ \A k \in 1 .. i - 1 : code[k] \in S
    OBVIOUS
  <2>2. /\ A \in Seq(S) /\ Len(A) = IF 1 <= i - 1 THEN (i - 1) - 1 + 1 ELSE 0
        /\ \A k \in 1 .. (i - 1) - 1 + 1 : A[k] = code[1 + k - 1]
    BY <2>1, SubSeqProperties
  <2> QED BY <2>2
<1>3. /\ B \in Seq(S) /\ Len(B) = Len(code) - (i + taken) + 1
      /\ \A k \in 1 .. Len(code) - (i + taken) + 1 : B[k] = code[i + taken + k - 1]
  <2>1. i + taken \in Int /\ \A k \in i + taken .. Len(code) : code[k] \in S
    OBVIOUS
  <2>2. /\ B \in Seq(S)
        /\ Len(B) = IF i + taken <= Len(code) THEN Len(code) - (i + taken) + 1 ELSE 0
        /\ \A k \in 1 .. Len(code) - (i + taken) + 1 : B[k] = code[i + taken + k - 1]
    BY <1>1, <2>1, SubSeqProperties
  <2> QED BY <2>2
<1> DEFINE AP == A \o put
           all == AP \o B
<1> HIDE DEF A, B
<1>5. /\ AP \in Seq(S) /\ Len(AP) = i - 1 + Len(put)
      /\ \A k \in 1 .. i - 1 : AP[k] = code[k]
      /\ \A k \in 1 .. Len(put) : AP[i - 1 + k] = put[k]
  <2>1. /\ AP \in Seq(S) /\ Len(AP) = Len(A) + Len(put)
        /\ \A k \in 1 .. Len(A) + Len(put) : AP[k] = IF k <= Len(A) THEN A[k] ELSE put[k - Len(A)]
    BY <1>2, ConcatProperties
  <2>2. \A k \in 1 .. i - 1 : AP[k] = code[k]
    BY <1>1, <1>2, <2>1
  <2>3. ASSUME NEW k \in 1 .. Len(put) PROVE AP[i - 1 + k] = put[k]
    <3>1. i - 1 + k \in 1 .. Len(A) + Len(put) /\ ~(i - 1 + k <= Len(A)) /\ (i - 1 + k) - Len(A) = k
      BY <1>1, <1>2
    <3> QED BY <2>1, <3>1
  <2> QED BY <1>2, <2>1, <2>2, <2>3
<1> HIDE DEF AP
<1>6. /\ all \in Seq(S) /\ Len(all) = Len(AP) + Len(B)
      /\ \A k \in 1 .. Len(AP) + Len(B) : all[k] = IF k <= Len(AP) THEN AP[k] ELSE B[k - Len(AP)]
  <2>1. AP \in Seq(S) /\ B \in Seq(S)
    BY <1>3, <1>5
  <2> QED BY <2>1, ConcatProperties
<1> HIDE DEF all
<1>7. Len(all) = Len(code) - (taken - Len(put))
  BY <1>1, <1>3, <1>5, <1>6
<1>8. ASSUME NEW k \in 1 .. i - 1 PROVE all[k] = code[k]
  <2>1. k \in 1 .. Len(AP) + Len(B) /\ k <= Len(AP)
    BY <1>1, <1>3, <1>5
  <2>2. all[k] = AP[k]
    BY <1>6, <2>1
  <2> QED BY <1>5, <2>2
<1>9. ASSUME NEW k \in 1 .. Len(put) PROVE all[i - 1 + k] = put[k]
  <2>1. i - 1 + k \in 1 .. Len(AP) + Len(B) /\ i - 1 + k <= Len(AP)
    BY <1>1, <1>3, <1>5
  <2> QED BY <1>5, <1>6, <2>1
<1>10. ASSUME NEW k \in i + Len(put) .. Len(all) PROVE all[k] = code[k + (taken - Len(put))]
  <2>1. /\ k \in 1 .. Len(AP) + Len(B) /\ ~(k <= Len(AP))
        /\ k - Len(AP) \in 1 .. Len(code) - (i + taken) + 1
    BY <1>1, <1>3, <1>5, <1>6
  <2>2. all[k] = B[k - Len(AP)]
    BY <1>6, <2>1
  <2>3. B[k - Len(AP)] = code[i + taken + (k - Len(AP)) - 1]
    BY <1>3, <2>1
  <2>4. i + taken + (k - Len(AP)) - 1 = k + (taken - Len(put))
    BY <1>1, <1>5
  <2> QED BY <2>2, <2>3, <2>4
<1> QED BY <1>6, <1>7, <1>8, <1>9, <1>10 DEF all, AP, A, B, Exchanged

LEMMA ShiftedTyped ==
  ASSUME NEW j \in Instrs, NEW i \in Int, NEW taken \in Int, NEW put \in Int
  PROVE  /\ Shifted(j, i, taken, put) \in Instrs
         /\ Shifted(j, i, taken, put).op = j.op
         /\ BcIsJump(j) => Shifted(j, i, taken, put).arg = BcMoved(j.arg, i, taken, put)
         /\ ~BcIsJump(j) => Shifted(j, i, taken, put) = j
<1>1. CASE BcIsJump(j)
  <2>1. j \in [op : {"JUMP", "JUMP_IF_FALSE"}, arg : Int]
    BY <1>1 DEF BcIsJump, Instrs, BareOpcodes
  <2>2. BcMoved(j.arg, i, taken, put) \in Int
    BY <2>1 DEF BcMoved
  <2>3. Shifted(j, i, taken, put) = [j EXCEPT !.arg = BcMoved(j.arg, i, taken, put)]
    BY <1>1 DEF Shifted
  <2>4. Shifted(j, i, taken, put) \in [op : {"JUMP", "JUMP_IF_FALSE"}, arg : Int]
    BY <2>1, <2>2, <2>3
  <2> QED BY <1>1, <2>1, <2>3, <2>4 DEF Instrs
<1>2. CASE ~BcIsJump(j)
  BY <1>2 DEF Shifted
<1> QED BY <1>1, <1>2

(* The splice, place by place.                                             *)
LEMMA Spliced ==
  ASSUME NEW code, CodeOK(code), NEW pass, NEW i, NEW taken, taken = BcTaken(pass),
         NEW put, put = BcPut(pass, code, i), Window(code, i, taken, put),
         NEW c, c = BcSpliced(pass, code, i)
  PROVE  /\ c \in Seq(Instrs)
         /\ Len(c) = Len(code) - (taken - Len(put))
         /\ \A k \in 1 .. i - 1 : c[k] = Shifted(code[k], i, taken, Len(put))
         /\ \A k \in 1 .. Len(put) : c[i - 1 + k] = put[k]
         /\ \A k \in i + Len(put) .. Len(c) :
              c[k] = Shifted(code[k + (taken - Len(put))], i, taken, Len(put))
<1> DEFINE all == Exchanged(code, i, taken, put)
           n == Len(put)
<1>1. /\ put \in Seq(Instrs) /\ taken \in 1 .. 3 /\ n \in {0, 1}
      /\ \A k \in 1 .. Len(put) : ~BcIsJump(put[k])
  BY WindowPut
<1>2. /\ code \in Seq(Instrs) /\ Len(code) \in Nat /\ i \in 1 .. Len(code)
      /\ i + taken <= Len(code)
  BY DEF CodeOK, Window
<1>2a. /\ code \in Seq(Instrs) /\ put \in Seq(Instrs) /\ i \in 1 .. Len(code) /\ taken \in Nat
       /\ i + taken <= Len(code)
  BY <1>1, <1>2
<1>3. /\ all \in Seq(Instrs)
      /\ Len(all) = Len(code) - (taken - n)
      /\ \A k \in 1 .. i - 1 : all[k] = code[k]
      /\ \A k \in 1 .. n : all[i - 1 + k] = put[k]
      /\ \A k \in i + n .. Len(all) : all[k] = code[k + (taken - n)]
  <2>1. all \in Seq(Instrs)
    BY <1>2a, Cut
  <2>2. Len(all) = Len(code) - (taken - n)
    BY <1>2a, Cut
  <2>3. \A k \in 1 .. i - 1 : all[k] = code[k]
    BY <1>2a, Cut
  <2>4. \A k \in 1 .. n : all[i - 1 + k] = put[k]
    BY <1>2a, Cut
  <2>5. \A k \in i + n .. Len(all) : all[k] = code[k + (taken - n)]
    BY <1>2a, Cut
  <2> QED BY <2>1, <2>2, <2>3, <2>4, <2>5
<1>4. c = [k \in DOMAIN all |-> Shifted(all[k], i, taken, n)]
  BY DEF BcSpliced, Shifted, Exchanged
<1> HIDE DEF all
<1>5. DOMAIN all = 1 .. Len(all) /\ Len(all) \in Nat /\ \A k \in 1 .. Len(all) : all[k] \in Instrs
  BY <1>3
<1>6. \A k \in 1 .. Len(all) : Shifted(all[k], i, taken, n) \in Instrs
  BY <1>1, <1>2, <1>5, ShiftedTyped
<1>7. c \in [1 .. Len(all) -> Instrs]
  BY <1>4, <1>5, <1>6
<1>8. c \in Seq(Instrs) /\ Len(c) = Len(all)
  BY <1>5, <1>7
<1>9. \A k \in 1 .. Len(all) : c[k] = Shifted(all[k], i, taken, n)
  BY <1>4, <1>5
<1>10. \A k \in 1 .. i - 1 : c[k] = Shifted(code[k], i, taken, n)
  BY <1>1, <1>2, <1>3, <1>9
<1>11. ASSUME NEW k \in 1 .. n PROVE c[i - 1 + k] = put[k]
  <2>1. i - 1 + k \in 1 .. Len(all)
    BY <1>1, <1>2, <1>3
  <2>2. c[i - 1 + k] = Shifted(put[k], i, taken, n)
    BY <1>3, <1>9, <2>1
  <2> QED BY <1>1, <2>2 DEF Shifted
<1>12. ASSUME NEW k \in i + n .. Len(c) PROVE c[k] = Shifted(code[k + (taken - n)], i, taken, n)
  <2>1. k \in 1 .. Len(all) /\ k \in i + n .. Len(all)
    BY <1>1, <1>2, <1>8
  <2> QED BY <1>3, <1>9, <2>1
<1> QED BY <1>3, <1>8, <1>10, <1>11, <1>12

-----------------------------------------------------------------------------
(* The machine on the code as it was and as it is rewritten.               *)

(* No jump leads into the window.                                          *)
Clear(code, i, taken) ==
  \A k \in DOMAIN code : BcIsJump(code[k]) => code[k].arg <= i \/ code[k].arg >= i + taken

LEMMA SplicedOK ==
  ASSUME NEW code, CodeOK(code), NEW pass, NEW i, NEW taken, taken = BcTaken(pass),
         NEW put, put = BcPut(pass, code, i), Window(code, i, taken, put),
         NEW c, c = BcSpliced(pass, code, i)
  PROVE  /\ CodeOK(c)
         /\ Forward(code) /\ Clear(code, i, taken) => Forward(c)
<1> DEFINE n == Len(put)
<1>1. /\ c \in Seq(Instrs)
      /\ Len(c) = Len(code) - (taken - n)
      /\ \A k \in 1 .. i - 1 : c[k] = Shifted(code[k], i, taken, n)
      /\ \A k \in 1 .. n : c[i - 1 + k] = put[k]
      /\ \A k \in i + n .. Len(c) : c[k] = Shifted(code[k + (taken - n)], i, taken, n)
  BY Spliced
<1>2. /\ taken \in 1 .. 3 /\ n \in {0, 1} /\ n < taken
      /\ \A k \in 1 .. n : ~BcIsJump(put[k])
  BY WindowPut
<1>3. /\ Len(code) \in Nat /\ i \in 1 .. Len(code) /\ i + taken <= Len(code)
      /\ \A k \in 1 .. Len(code) : code[k] \in Instrs
      /\ code[Len(code)].op = "HALT"
  BY DEF CodeOK, Window
<1> HIDE DEF n
<1>4. /\ Len(c) \in Nat /\ Len(c) >= i + n /\ Len(c) > 0 /\ Len(c) + (taken - n) = Len(code)
  <2>1. /\ Len(c) = Len(code) - (taken - n) /\ taken \in 1 .. 3 /\ n \in {0, 1} /\ n < taken
        /\ Len(code) \in Nat /\ i \in 1 .. Len(code) /\ i + taken <= Len(code)
    BY <1>1, <1>2, <1>3
  <2> QED BY <2>1
<1>5. CodeOK(c)
  <2>1. c[Len(c)] = Shifted(code[Len(code)], i, taken, n)
    <3>1. Len(c) \in i + n .. Len(c)
      BY <1>2, <1>3, <1>4
    <3>2. c[Len(c)] = Shifted(code[Len(c) + (taken - n)], i, taken, n)
      BY <1>1, <3>1
    <3> QED BY <1>4, <3>2
  <2>2. c[Len(c)].op = "HALT"
    BY <2>1, <1>2, <1>3, ShiftedTyped
  <2> QED BY <1>1, <1>4, <2>2 DEF CodeOK
<1>6. ASSUME Forward(code), Clear(code, i, taken) PROVE Forward(c)
  <2> SUFFICES ASSUME NEW k \in 1 .. Len(c), BcIsJump(c[k]) PROVE c[k].arg \in k + 1 .. Len(c)
    BY <1>1 DEF Forward
  <2>1. ASSUME NEW m \in 1 .. Len(code), c[k] = Shifted(code[m], i, taken, n),
               (m = k /\ k < i) \/ (m = k + (taken - n) /\ k >= i + n)
        PROVE  c[k].arg \in k + 1 .. Len(c)
    <3>1. code[m] \in Instrs
      BY <1>3
    <3>2. BcIsJump(code[m])
      BY <2>1, <3>1, <1>2, <1>3, ShiftedTyped DEF BcIsJump
    <3> DEFINE to == code[m].arg
    <3>3. to \in m + 1 .. Len(code) /\ (to <= i \/ to >= i + taken)
      <4>1. m \in DOMAIN code
        BY <2>1 DEF CodeOK
      <4> QED BY <1>6, <3>2, <4>1 DEF Forward, Clear
    <3>4. c[k].arg = BcMoved(to, i, taken, n)
      BY <2>1, <3>1, <3>2, <1>2, <1>3, ShiftedTyped
    <3>5. BcMoved(to, i, taken, n) = IF to >= i + taken THEN to - (taken - n) ELSE to
      BY <3>3, <1>2, <1>3 DEF BcMoved
    <3> HIDE DEF to
    <3>6. /\ Len(c) \in Nat /\ taken \in 1 .. 3 /\ n \in {0, 1} /\ n < taken /\ i \in Nat
          /\ Len(c) + (taken - n) = Len(code) /\ Len(c) >= i + n
      BY <1>2, <1>3, <1>4
    <3> DEFINE L == Len(c)
    <3>7. /\ L \in Nat /\ taken \in Nat /\ n \in Nat /\ n < taken /\ i \in Nat /\ to \in Int
          /\ L >= i + n /\ m < to /\ to <= L + (taken - n) /\ (to <= i \/ to >= i + taken) /\ m \in Nat
      BY <3>3, <3>6
    <3>8. c[k].arg = IF to >= i + taken THEN to - (taken - n) ELSE to
      BY <3>4, <3>5
    <3> HIDE DEF L
    <3>9. CASE m = k /\ k < i
      BY <3>7, <3>8, <3>9 DEF L
    <3>10. CASE m = k + (taken - n) /\ k >= i + n
      <4>1. to >= i + taken /\ c[k].arg = to - (taken - n)
        BY <3>7, <3>8, <3>10
      <4>2. c[k].arg \in k + 1 .. L
        BY <3>7, <3>10, <4>1
      <4> QED BY <4>2 DEF L
    <3> QED BY <2>1, <3>9, <3>10
  <2>2. CASE k < i
    <3>1. k \in 1 .. i - 1 /\ k \in 1 .. Len(code)
      BY <2>2, <1>3
    <3> QED BY <2>1, <2>2, <3>1, <1>1
  <2>3. CASE k >= i + n
    <3>1. k \in i + n .. Len(c) /\ k + (taken - n) \in 1 .. Len(code)
      BY <2>3, <1>2, <1>3, <1>4
    <3> QED BY <2>1, <2>3, <3>1, <1>1
  <2>4. CASE ~(k < i) /\ ~(k >= i + n)
    <3>1. n = 1 /\ k = i - 1 + 1
      BY <2>4, <1>2, <1>3
    <3>2. c[i - 1 + 1] = put[1] /\ ~BcIsJump(put[1])
      <4>1. 1 \in 1 .. n
        BY <3>1
      <4> QED BY <4>1, <1>1, <1>2
    <3> QED BY <3>1, <3>2
  <2> QED BY <2>2, <2>3, <2>4
<1> QED BY <1>5, <1>6

(* The rewritten code is as far as the code was: before the window or       *)
(* behind it.                                                              *)
Along(i, taken, n, s, t) ==
  \E ip \in Nat \ {0}, state \in {"runs", "thrown"} : \E st, v :
     /\ IsSeq(st)
     /\ s = BcState(ip, st, v, state)
     /\ \/ ip <= i /\ t = s
        \/ ip >= i + taken /\ t = BcState(ip - (taken - n), st, v, state)

(* The code is in its window, the rewritten code at what replaces it.       *)
Within(code, i, taken, s, t) ==
  \E st, v :
     /\ IsSeq(st)
     /\ t = BcState(i, st, v, "runs")
     /\ \/ /\ taken \in {2, 3}
           /\ s = BcState(i + 1, Append(st, code[i].arg), v, "runs")
        \/ /\ taken = 3
           /\ s = BcState(i + 2, Append(Append(st, code[i].arg), code[i + 1].arg), v, "runs")

(* Where the two are when both are outside.                                *)
Beside(to, jo, i, taken, n) ==
  \/ to <= i /\ jo = to
  \/ to >= i + taken /\ jo = to - (taken - n)

(* Where an instruction of the code stands after the splice.               *)
PlaceOf(ip, i, taken, n) == IF ip < i THEN ip ELSE ip - (taken - n)

Apart(ip, jp, i, taken, n, l, m) ==
  /\ i \in Nat /\ taken \in Nat /\ n \in Nat /\ ip \in Nat /\ l \in Nat
  /\ 1 <= i /\ ip <= l /\ 1 <= ip /\ n < taken /\ i + taken <= l
  /\ ip < i \/ ip >= i + taken
  /\ jp = PlaceOf(ip, i, taken, n)
  /\ m = l - (taken - n)

Follows(ip, jp, i, taken, n, m) ==
  /\ jp \in Nat /\ m \in Nat /\ jp \in 1 .. m
  /\ \/ ip < i /\ jp = ip /\ jp \in 1 .. i - 1
     \/ ip >= i + taken /\ jp \in i + n .. m /\ jp + (taken - n) = ip
  /\ \A d \in {0, 1} : Beside(ip + d, jp + d, i, taken, n)

LEMMA Behind ==
  ASSUME NEW i, NEW taken, NEW n, NEW ip, NEW l, NEW jp, NEW m,
         Apart(ip, jp, i, taken, n, l, m)
  PROVE  Follows(ip, jp, i, taken, n, m)
<1> USE DEF Apart
<1>1. CASE ip < i
  <2>1. jp = ip
    BY <1>1 DEF PlaceOf
  <2>2. m \in Nat /\ m >= i
    OBVIOUS
  <2>3. jp \in 1 .. m /\ jp \in 1 .. i - 1
    BY <1>1, <2>1, <2>2
  <2>4. \A d \in {0, 1} : ip + d <= i /\ jp + d = ip + d
    BY <1>1, <2>1
  <2>5. jp \in Nat
    BY <2>1
  <2>6. \A d \in {0, 1} : Beside(ip + d, jp + d, i, taken, n)
    BY <2>4 DEF Beside
  <2> QED BY <1>1, <2>1, <2>2, <2>3, <2>5, <2>6, Zenon DEF Follows
<1>2. CASE ip >= i + taken
  <2>1. jp = ip - (taken - n)
    BY <1>2 DEF PlaceOf
  <2>2. jp \in Nat /\ m \in Nat
    BY <1>2, <2>1
  <2>3. jp >= i + n /\ jp <= m /\ jp + (taken - n) = ip
    BY <1>2, <2>1
  <2>4. \A d \in {0, 1} : ip + d >= i + taken /\ jp + d = (ip + d) - (taken - n)
    BY <1>2, <2>1
  <2>5. jp \in i + n .. m /\ jp \in 1 .. m
    BY <2>2, <2>3
  <2>6. \A d \in {0, 1} : Beside(ip + d, jp + d, i, taken, n)
    BY <2>4 DEF Beside
  <2> QED BY <1>2, <2>2, <2>3, <2>5, <2>6, Zenon DEF Follows
<1> QED BY <1>1, <1>2

(* Outside the window both make the same step.                             *)
LEMMA StepOutside ==
  ASSUME NEW code, CodeOK(code), Forward(code), NEW pass, NEW i, NEW taken,
         taken = BcTaken(pass), NEW put, put = BcPut(pass, code, i),
         Window(code, i, taken, put), NEW c, c = BcSpliced(pass, code, i),
         Clear(code, i, taken),
         NEW ip \in 1 .. Len(code), ip < i \/ ip >= i + taken, code[ip].op # "HALT",
         NEW st, IsSeq(st), NEW v, NEW jp, jp = PlaceOf(ip, i, taken, Len(put))
  PROVE  Along(i, taken, Len(put), BcStep(code, BcState(ip, st, v, "runs")),
                                   BcStep(c, BcState(jp, st, v, "runs")))
<1> DEFINE n == Len(put)
           s == BcStep(code, BcState(ip, st, v, "runs"))
           t == BcStep(c, BcState(jp, st, v, "runs"))
<1>1. /\ Len(c) = Len(code) - (taken - n)
      /\ \A k \in 1 .. i - 1 : c[k] = Shifted(code[k], i, taken, n)
      /\ \A k \in i + n .. Len(c) : c[k] = Shifted(code[k + (taken - n)], i, taken, n)
  BY Spliced
<1>2. /\ taken \in 1 .. 3 /\ n \in {0, 1} /\ n < taken
      /\ Len(code) \in Nat /\ i \in 1 .. Len(code) /\ i + taken <= Len(code)
      /\ code[ip] \in Instrs
  <2>1. /\ Len(code) \in Nat /\ i \in 1 .. Len(code) /\ i + taken <= Len(code)
        /\ code[ip] \in Instrs
    BY DEF CodeOK, Window
  <2>2. taken \in 1 .. 3 /\ n = IF taken = 3 THEN 1 ELSE 0
    BY WindowPut
  <2> QED BY <2>1, <2>2
<1>2a. jp = PlaceOf(ip, i, taken, n)
  OBVIOUS
<1> HIDE DEF n
<1>3. /\ jp \in 1 .. Len(c) /\ Len(c) \in Nat
      /\ c[jp] = Shifted(code[ip], i, taken, n)
      /\ \A d \in {0, 1} : Beside(ip + d, jp + d, i, taken, n)
  <2> DEFINE l == Len(code)
             m == Len(c)
  <2>1. Apart(ip, jp, i, taken, n, l, m)
    BY <1>1, <1>2, <1>2a DEF Apart
  <2> HIDE DEF l, m
  <2>2. Follows(ip, jp, i, taken, n, m)
    BY <2>1, Behind
  <2> USE DEF l, m
  <2> QED BY <1>1, <2>2 DEF Follows
<1>4. /\ c[jp].op = code[ip].op /\ c[jp] \in Instrs
      /\ BcIsJump(code[ip]) => c[jp].arg = BcMoved(code[ip].arg, i, taken, n)
      /\ ~BcIsJump(code[ip]) => c[jp] = code[ip]
  <2>1. i \in Int /\ taken \in Int /\ n \in Int /\ code[ip] \in Instrs
    BY <1>2
  <2>2. c[jp] = Shifted(code[ip], i, taken, n)
    BY <1>3
  <2>3. LET j == Shifted(code[ip], i, taken, n)
        IN  /\ j.op = code[ip].op /\ j \in Instrs
            /\ BcIsJump(code[ip]) => j.arg = BcMoved(code[ip].arg, i, taken, n)
            /\ ~BcIsJump(code[ip]) => j = code[ip]
    BY <2>1, ShiftedTyped
  <2> QED BY <2>2, <2>3
<1>5. Outcome(code[ip], ip, st, v, s) /\ Outcome(c[jp], jp, st, v, t)
  BY <1>2, <1>3, <1>4, StepOf
<1>6. StateOK(s)
  <2>1. StateOK(BcState(ip, st, v, "runs"))
    BY DEF StateOK
  <2>2. ~BcHalted(code, BcState(ip, st, v, "runs"))
    BY StateParts DEF BcHalted
  <2> QED BY <2>1, <2>2, StepForward
<1> DEFINE Both == Along(i, taken, n, s, t)
<1> SUFFICES Both
  BY DEF n
<1>7. \A to, u, w, state : s = BcState(to, u, w, state) =>
         to \in Nat \ {0} /\ IsSeq(u) /\ state \in {"runs", "thrown"}
  BY <1>6, StateParts DEF StateOK
<1>8. ASSUME NEW d \in {0, 1}, NEW u, NEW w, NEW state, s = BcState(ip + d, u, w, state),
             t = BcState(jp + d, u, w, state)
      PROVE  Both
  <2>1. ip + d \in Nat \ {0} /\ IsSeq(u) /\ state \in {"runs", "thrown"}
    BY <1>7, <1>8
  <2>2. \/ ip + d <= i /\ jp + d = ip + d
        \/ ip + d >= i + taken /\ jp + d = (ip + d) - (taken - n)
    BY <1>3 DEF Beside
  <2> HIDE DEF s, t
  <2> QED BY <1>8, <2>1, <2>2 DEF Along
<1>9. ASSUME BcIsJump(code[ip]), NEW u, NEW w, NEW state, s = BcState(code[ip].arg, u, w, state),
             t = BcState(c[jp].arg, u, w, state)
      PROVE  Both
  <2> DEFINE to == code[ip].arg
             toc == c[jp].arg
  <2>1. to \in Nat \ {0} /\ IsSeq(u) /\ state \in {"runs", "thrown"}
    BY <1>7, <1>9
  <2>2. to <= i \/ to >= i + taken
    <3>1. ip \in DOMAIN code
      BY DEF CodeOK
    <3> QED BY <1>9, <3>1 DEF Clear
  <2>3. toc = BcMoved(to, i, taken, n)
    BY <1>4, <1>9
  <2>4. \/ to <= i /\ toc = to
        \/ to >= i + taken /\ toc = to - (taken - n)
    BY <2>1, <2>2, <2>3, <1>2 DEF BcMoved
  <2> HIDE DEF s, t
  <2>5. s = BcState(to, u, w, state) /\ t = BcState(toc, u, w, state)
    BY <1>9
  <2> HIDE DEF to, toc
  <2> QED BY <2>1, <2>4, <2>5 DEF Along
<1>10. CASE ~BcIsJump(code[ip])
  <2>1. c[jp] = code[ip]
    BY <1>4, <1>10
  <2>2. \/ s = BcState(ip, st, v, "thrown") /\ t = BcState(jp, st, v, "thrown")
        \/ \E u, w : s = BcState(ip + 1, u, w, "runs") /\ t = BcState(jp + 1, u, w, "runs")
    <3>1. Len(code) \in Nat /\ Len(c) \in Nat /\ jp \in 1 .. Len(c) /\ code[ip] \in Instrs
      BY <1>2, <1>3
    <3> QED BY <1>10, <2>1, <3>1, StepAlike
  <2>3. ip + 0 = ip /\ jp + 0 = jp
    BY <1>3
  <2> HIDE DEF s, t, Both
  <2>4. CASE s = BcState(ip, st, v, "thrown") /\ t = BcState(jp, st, v, "thrown")
    <3>1. s = BcState(ip + 0, st, v, "thrown") /\ t = BcState(jp + 0, st, v, "thrown")
      BY <2>3, <2>4
    <3> QED BY <1>8, <3>1
  <2> QED BY <1>8, <2>2, <2>4
<1>11. CASE BcIsJump(code[ip])
  <2>1. c[jp].op = code[ip].op /\ code[ip].op \in {"JUMP", "JUMP_IF_FALSE"}
    BY <1>4, <1>11 DEF BcIsJump
  <2> HIDE DEF s, t, Both
  <2>2. CASE code[ip].op = "JUMP"
    <3>1. s = BcState(code[ip].arg, st, v, "runs") /\ t = BcState(c[jp].arg, st, v, "runs")
      BY <1>5, <2>1, <2>2 DEF Outcome
    <3> QED BY <1>9, <1>11, <3>1
  <2>3. CASE code[ip].op = "JUMP_IF_FALSE"
    <3> DEFINE rest == SubSeq(st, 1, Len(st) - 1)
    <3>1. \/ s = BcState(ip, st, v, "thrown") /\ t = BcState(jp, st, v, "thrown")
          \/ s = BcState(ip + 1, rest, v, "runs") /\ t = BcState(jp + 1, rest, v, "runs")
          \/ s = BcState(code[ip].arg, rest, v, "runs") /\ t = BcState(c[jp].arg, rest, v, "runs")
      BY <1>5, <2>1, <2>3 DEF Outcome
    <3>2. ip + 0 = ip /\ jp + 0 = jp
      BY <1>3
    <3>3. CASE s = BcState(ip, st, v, "thrown") /\ t = BcState(jp, st, v, "thrown")
      <4>1. s = BcState(ip + 0, st, v, "thrown") /\ t = BcState(jp + 0, st, v, "thrown")
        BY <3>2, <3>3
      <4> QED BY <1>8, <4>1
    <3> HIDE DEF rest
    <3>4. CASE s = BcState(ip + 1, rest, v, "runs") /\ t = BcState(jp + 1, rest, v, "runs")
      BY <1>8, <3>4
    <3>5. CASE s = BcState(code[ip].arg, rest, v, "runs") /\ t = BcState(c[jp].arg, rest, v, "runs")
      BY <1>9, <1>11, <3>5
    <3> QED BY <3>1, <3>3, <3>4, <3>5
  <2> QED BY <2>1, <2>2, <2>3
<1> QED BY <1>10, <1>11

(* What the instructions of the window do.                                 *)
Middle(code, c, i, taken, st, v) ==
  LET one == Append(st, code[i].arg)
      two == Append(one, code[i + 1].arg)
  IN
  /\ taken \in {2, 3} =>
       BcStep(code, BcState(i, st, v, "runs")) = BcState(i + 1, one, v, "runs")
  /\ taken = 1 => BcStep(code, BcState(i, st, v, "runs")) = BcState(i + 1, st, v, "runs")
  /\ taken = 2 => BcStep(code, BcState(i + 1, one, v, "runs")) = BcState(i + 2, st, v, "runs")
  /\ taken = 3 =>
       /\ BcStep(code, BcState(i + 1, one, v, "runs")) = BcState(i + 2, two, v, "runs")
       /\ \E w :
            /\ BcStep(code, BcState(i + 2, two, v, "runs"))
                 = BcState(i + 3, Append(st, w), v, "runs")
            /\ BcStep(c, BcState(i, st, v, "runs"))
                 = BcState(i + 1, Append(st, w), v, "runs")

LEMMA StepInside ==
  ASSUME NEW code, CodeOK(code), NEW pass, NEW i, NEW taken, taken = BcTaken(pass),
         NEW put, put = BcPut(pass, code, i), Window(code, i, taken, put),
         NEW c, c = BcSpliced(pass, code, i), NEW st, IsSeq(st), NEW v
  PROVE  Middle(code, c, i, taken, st, v)
<1> DEFINE n == Len(put)
<1>1. /\ Len(code) \in Nat /\ i \in 1 .. Len(code) /\ i + taken <= Len(code)
      /\ \A k \in 1 .. Len(code) : code[k] \in Instrs
  BY DEF CodeOK, Window
<1>2. \A ip \in 1 .. Len(code) : \A u, w : code[ip].op # "HALT" =>
        Outcome(code[ip], ip, u, w, BcStep(code, BcState(ip, u, w, "runs")))
  BY <1>1, StepOf
<1>3. CASE taken = 1
  <2>1. code[i].op = "JUMP" /\ code[i].arg = i + 1
    BY <1>3 DEF Window
  <2>2. Outcome(code[i], i, st, v, BcStep(code, BcState(i, st, v, "runs")))
    BY <1>1, <1>2, <2>1
  <2> QED BY <1>3, <2>1, <2>2 DEF Outcome, Middle
<1> DEFINE a == code[i].arg
           b == code[i + 1].arg
           op == code[i + 2].op
           sta == Append(st, a)
           stab == Append(sta, b)
<1>4. ASSUME taken \in {2, 3} PROVE BcStep(code, BcState(i, st, v, "runs"))
                                      = BcState(i + 1, sta, v, "runs")
  <2>1. code[i].op = "PUSH_CONST"
    BY <1>4 DEF Window
  <2>2. Outcome(code[i], i, st, v, BcStep(code, BcState(i, st, v, "runs")))
    BY <1>1, <1>2, <2>1
  <2> QED BY <2>1, <2>2 DEF Outcome
<1>5. /\ IsSeq(sta) /\ Len(st) \in Nat /\ Len(sta) = Len(st) + 1
      /\ sta[Len(st) + 1] = a /\ SubSeq(sta, 1, Len(st)) = st
  <2>1. Len(st) \in Nat
    BY DEF IsSeq
  <2> QED BY <2>1, SeqAppend, SeqPopped
<1>6. CASE taken = 2
  <2>1. code[i + 1].op = "POP" /\ i + 1 \in 1 .. Len(code)
    BY <1>1, <1>6 DEF Window
  <2> DEFINE t == BcStep(code, BcState(i + 1, sta, v, "runs"))
  <2>2. Outcome(code[i + 1], i + 1, sta, v, t)
    BY <1>2, <2>1
  <2> HIDE DEF t, sta
  <2>3. t = BcState((i + 1) + 1, SubSeq(sta, 1, Len(sta) - 1), v, "runs")
    <3>1. Len(sta) # 0
      BY <1>5
    <3> QED BY <2>1, <2>2, <3>1 DEF Outcome
  <2>4. Len(sta) - 1 = Len(st) /\ (i + 1) + 1 = i + 2
    BY <1>1, <1>5
  <2>5. t = BcState(i + 2, st, v, "runs")
    BY <1>5, <2>3, <2>4
  <2> QED BY <1>4, <1>6, <2>5 DEF t, sta, Middle
<1>7. CASE taken = 3
  <2> DEFINE t == BcStep(code, BcState(i + 1, sta, v, "runs"))
             w == BcBinary(op, a, b)
             u == BcStep(code, BcState(i + 2, stab, v, "runs"))
             x == BcStep(c, BcState(i, st, v, "runs"))
  <2>1. /\ code[i].op = "PUSH_CONST" /\ code[i + 1].op = "PUSH_CONST" /\ op \in BcBinaryOpcodes
        /\ put = BcFolded(code, i)
        /\ i + 1 \in 1 .. Len(code) /\ i + 2 \in 1 .. Len(code)
    BY <1>1, <1>7 DEF Window
  <2>2. Outcome(code[i + 1], i + 1, sta, v, t)
    BY <1>2, <2>1
  <2>3. Outcome(code[i + 2], i + 2, stab, v, u)
    <3>1. code[i + 2] \in Instrs
      BY <1>1, <2>1
    <3>2. code[i + 2].op # "HALT"
      BY <2>1, <3>1, InstrKinds
    <3> QED BY <1>2, <2>1, <3>2
  <2>4. /\ IsSeq(stab) /\ Len(stab) = Len(st) + 2
        /\ stab[Len(st) + 2] = b /\ stab[Len(st) + 1] = a
        /\ SubSeq(stab, 1, Len(st)) = st
    <3> HIDE DEF sta
    <3>1. /\ IsSeq(stab) /\ Len(stab) = Len(sta) + 1 /\ stab[Len(sta) + 1] = b
          /\ \A k \in 1 .. Len(sta) : stab[k] = sta[k]
      BY <1>5, SeqAppend
    <3>2. Len(sta) \in Nat /\ Len(sta) + 1 = Len(st) + 2 /\ Len(st) + 1 \in 1 .. Len(sta)
      BY <1>5
    <3>3. SubSeq(stab, 1, Len(st)) = SubSeq(sta, 1, Len(st))
      <4>1. PICK S : sta \in Seq(S)
        BY <1>5 DEF IsSeq
      <4>2. sta \in Seq(S \cup {b}) /\ b \in S \cup {b}
        BY <4>1
      <4>3. Len(st) \in 0 .. Len(sta)
        BY <1>5
      <4> HIDE DEF b
      <4> QED BY <4>2, <4>3
    <3> QED BY <1>5, <3>1, <3>2, <3>3
  <2>5. c[i] = BcInstr("PUSH_CONST", w) /\ i \in 1 .. Len(c) /\ Len(c) \in Nat
        /\ c[i] \in Instrs
    <3>1. put = <<BcInstr("PUSH_CONST", w)>> /\ Len(put) = 1
      BY <2>1 DEF BcFolded, BcPush
    <3>2. /\ c \in Seq(Instrs) /\ Len(c) = Len(code) - (taken - Len(put))
          /\ \A k \in 1 .. Len(put) : c[i - 1 + k] = put[k]
      BY Spliced
    <3>3. c[i - 1 + 1] = put[1] /\ i - 1 + 1 = i
      <4>1. 1 \in 1 .. Len(put)
        BY <3>1
      <4> QED BY <1>1, <3>2, <4>1
    <3>4. Len(c) \in Nat /\ i \in 1 .. Len(c)
      BY <1>1, <1>7, <3>1, <3>2
    <3>5. c[i] \in Instrs
      BY <3>2, <3>4
    <3> HIDE DEF w
    <3> QED BY <3>1, <3>3, <3>4, <3>5
  <2>6. Outcome(c[i], i, st, v, x) /\ c[i].op = "PUSH_CONST" /\ c[i].arg = w
    <3>1. c[i].op = "PUSH_CONST" /\ c[i].arg = w
      <4> HIDE DEF w
      <4> QED BY <2>5 DEF BcInstr
    <3> QED BY <2>5, <3>1, StepOf
  <2>7. x = BcState(i + 1, Append(st, w), v, "runs")
    <3> HIDE DEF x, w
    <3> QED BY <2>6 DEF Outcome
  <2>8. t = BcState(i + 2, stab, v, "runs")
    <3> HIDE DEF t, sta
    <3>1. t = BcState((i + 1) + 1, Append(sta, b), v, "runs")
      BY <2>1, <2>2 DEF Outcome
    <3>2. (i + 1) + 1 = i + 2
      BY <1>1
    <3> QED BY <3>1, <3>2
  <2>9. u = BcState(i + 3, Append(st, w), v, "runs")
    <3> HIDE DEF u, stab, a, b
    <3>1. Len(stab) - 1 = Len(st) + 1 /\ Len(stab) - 2 = Len(st) /\ ~(Len(stab) < 2)
          /\ (i + 2) + 1 = i + 3
      BY <1>1, <1>5, <2>4
    <3>2. u = BcState((i + 2) + 1, Append(SubSeq(stab, 1, Len(stab) - 2),
                        BcBinary(op, stab[Len(stab) - 1], stab[Len(stab)])), v, "runs")
      BY <2>1, <2>3, <3>1 DEF Outcome
    <3> QED BY <2>4, <3>1, <3>2
  <2>10. /\ BcStep(code, BcState(i + 1, sta, v, "runs")) = BcState(i + 2, stab, v, "runs")
         /\ BcStep(code, BcState(i + 2, stab, v, "runs")) = BcState(i + 3, Append(st, w), v, "runs")
         /\ BcStep(c, BcState(i, st, v, "runs")) = BcState(i + 1, Append(st, w), v, "runs")
    BY <2>7, <2>8, <2>9
  <2> HIDE DEF w, t, u, x
  <2> QED BY <1>4, <1>7, <2>10 DEF Middle
<1> QED BY <1>3, <1>6, <1>7 DEF Window

(* The two machines go the same way.                                       *)
Together(code, i, taken, n, s, t) ==
  Along(i, taken, n, s, t) \/ Within(code, i, taken, s, t)

LEMMA StepTogether ==
  ASSUME NEW code, CodeOK(code), Forward(code), NEW pass, NEW i, NEW taken,
         taken = BcTaken(pass), NEW put, put = BcPut(pass, code, i),
         Window(code, i, taken, put), NEW c, c = BcSpliced(pass, code, i),
         Clear(code, i, taken), NEW s, NEW t,
         Together(code, i, taken, Len(put), s, t)
  PROVE  \/ Together(code, i, taken, Len(put), BcStep(code, s), t)
         \/ Together(code, i, taken, Len(put), BcStep(code, s), BcStep(c, t))
<1> DEFINE n == Len(put)
           s2 == BcStep(code, s)
           Stays == Together(code, i, taken, n, s2, t)
           Steps == Together(code, i, taken, n, s2, BcStep(c, t))
<1> SUFFICES ASSUME ~BcHalted(code, s) PROVE Stays \/ Steps
  BY DEF BcStep
<1>1. /\ Len(code) \in Nat /\ i \in Nat /\ 1 <= i /\ i + taken <= Len(code)
      /\ taken \in 1 .. 3 /\ n = IF taken = 3 THEN 1 ELSE 0
  BY WindowPut DEF CodeOK, Window
<1>4. \A st, v : IsSeq(st) => Middle(code, c, i, taken, st, v)
  BY StepInside
<1>2. CASE Along(i, taken, n, s, t)
  <2>1. PICK ip \in Nat \ {0}, state \in {"runs", "thrown"} : \E st, v :
          /\ IsSeq(st) /\ s = BcState(ip, st, v, state)
          /\ \/ ip <= i /\ t = s
             \/ ip >= i + taken /\ t = BcState(ip - (taken - n), st, v, state)
    BY <1>2 DEF Along
  <2>2. PICK st, v :
          /\ IsSeq(st) /\ s = BcState(ip, st, v, state)
          /\ \/ ip <= i /\ t = s
             \/ ip >= i + taken /\ t = BcState(ip - (taken - n), st, v, state)
    BY <2>1
  <2>3. state = "runs" /\ ip \in 1 .. Len(code) /\ code[ip].op # "HALT"
    <3>1. s.ip = ip /\ s.state = state
      BY <2>2, StateParts
    <3> QED BY <1>1, <3>1 DEF BcHalted
  <2>4. CASE ip = i
    <3>1. t = BcState(i, st, v, "runs") /\ s = BcState(i, st, v, "runs")
      BY <1>1, <2>2, <2>3, <2>4
    <3>4. Middle(code, c, i, taken, st, v)
      BY <1>4, <2>2
    <3>2. CASE taken = 1
      <4>1. s2 = BcState(i + 1, st, v, "runs")
        BY <3>1, <3>2, <3>4 DEF Middle
      <4>2. i + 1 \in Nat \ {0} /\ i + 1 >= i + taken /\ (i + 1) - (taken - n) = i
        BY <1>1, <3>2
      <4>3. t = BcState((i + 1) - (taken - n), st, v, "runs")
        BY <3>1, <4>2
      <4> HIDE DEF s2, n
      <4>4. Along(i, taken, n, s2, t)
        BY <2>2, <4>1, <4>2, <4>3 DEF Along
      <4> QED BY <4>4 DEF Together
    <3>3. CASE taken \in {2, 3}
      <4>1. s2 = BcState(i + 1, Append(st, code[i].arg), v, "runs")
        BY <3>1, <3>3, <3>4 DEF Middle
      <4> HIDE DEF s2, n
      <4>2. Within(code, i, taken, s2, t)
        BY <2>2, <3>1, <3>3, <4>1 DEF Within
      <4> QED BY <4>2 DEF Together
    <3> QED BY <1>1, <3>2, <3>3
  <2>5. CASE ip # i
    <3>1. ip < i \/ ip >= i + taken
      BY <1>1, <2>2, <2>5, <2>3
    <3> DEFINE jp == PlaceOf(ip, i, taken, n)
    <3>2. t = BcState(jp, st, v, "runs")
      BY <1>1, <2>2, <2>3, <2>5 DEF PlaceOf
    <3>3. s = BcState(ip, st, v, "runs")
      BY <2>2, <2>3
    <3> HIDE DEF jp
    <3>4. Along(i, taken, n, BcStep(code, BcState(ip, st, v, "runs")),
                             BcStep(c, BcState(jp, st, v, "runs")))
      BY <2>2, <2>3, <3>1, StepOutside DEF jp
    <3> QED BY <3>2, <3>3, <3>4 DEF Together
  <2> QED BY <2>4, <2>5
<1>3. CASE Within(code, i, taken, s, t)
  <2>1. PICK st, v :
     /\ IsSeq(st)
     /\ t = BcState(i, st, v, "runs")
     /\ \/ /\ taken \in {2, 3}
           /\ s = BcState(i + 1, Append(st, code[i].arg), v, "runs")
        \/ /\ taken = 3
           /\ s = BcState(i + 2, Append(Append(st, code[i].arg), code[i + 1].arg), v, "runs")
    BY <1>3 DEF Within
  <2>5. Middle(code, c, i, taken, st, v)
    BY <1>4, <2>1
  <2>2. CASE taken = 2
    <3>1. s2 = BcState(i + 2, st, v, "runs")
      BY <2>1, <2>2, <2>5 DEF Middle
    <3>2. i + 2 \in Nat \ {0} /\ i + 2 >= i + taken /\ (i + 2) - (taken - n) = i
      BY <1>1, <2>2
    <3>3. t = BcState((i + 2) - (taken - n), st, v, "runs")
      BY <2>1, <3>2
    <3> HIDE DEF s2, n
    <3>4. Along(i, taken, n, s2, t)
      BY <2>1, <3>1, <3>2, <3>3 DEF Along
    <3> QED BY <3>4 DEF Together
  <2>3. CASE taken = 3 /\ s = BcState(i + 1, Append(st, code[i].arg), v, "runs")
    <3>1. s2 = BcState(i + 2, Append(Append(st, code[i].arg), code[i + 1].arg), v, "runs")
      BY <2>1, <2>3, <2>5 DEF Middle
    <3> HIDE DEF s2, n
    <3>2. Within(code, i, taken, s2, t)
      BY <2>1, <2>3, <3>1 DEF Within
    <3> QED BY <3>2 DEF Together
  <2>4. CASE taken = 3 /\ s = BcState(i + 2, Append(Append(st, code[i].arg), code[i + 1].arg), v, "runs")
    <3>1. \E w : /\ s2 = BcState(i + 3, Append(st, w), v, "runs")
                 /\ BcStep(c, t) = BcState(i + 1, Append(st, w), v, "runs")
      BY <2>1, <2>4, <2>5 DEF Middle
    <3>2. PICK w : /\ s2 = BcState(i + 3, Append(st, w), v, "runs")
                   /\ BcStep(c, t) = BcState(i + 1, Append(st, w), v, "runs")
      BY <3>1
    <3>3. i + 3 \in Nat \ {0} /\ i + 3 >= i + taken /\ (i + 3) - (taken - n) = i + 1
      BY <1>1, <2>4
    <3>4. IsSeq(Append(st, w))
      BY <2>1, SeqAppend
    <3>5. BcStep(c, t) = BcState((i + 3) - (taken - n), Append(st, w), v, "runs")
      BY <3>2, <3>3
    <3> DEFINE u == BcStep(c, t)
    <3> HIDE DEF s2, n, u
    <3>6. Along(i, taken, n, s2, u)
      BY <3>2, <3>3, <3>4, <3>5 DEF Along, u
    <3> QED BY <3>6 DEF Together, u
  <2> QED BY <2>1, <2>2, <2>3, <2>4
<1> QED BY <1>2, <1>3 DEF Together

LEMMA TraceTogether ==
  ASSUME NEW code, CodeOK(code), Forward(code), NEW pass, NEW i, NEW taken,
         taken = BcTaken(pass), NEW put, put = BcPut(pass, code, i),
         Window(code, i, taken, put), NEW c, c = BcSpliced(pass, code, i),
         Clear(code, i, taken), NEW k \in Nat
  PROVE  \E m \in Nat : Together(code, i, taken, Len(put), BcTrace(code)[k], BcTrace(c)[m])
<1> DEFINE T(j) == BcTrace(code)[j]
           U(j) == BcTrace(c)[j]
           R(s, t) == Together(code, i, taken, Len(put), s, t)
           S == {j \in Nat : \E m \in Nat : R(T(j), U(m))}
<1>1. 0 \in S
  <2>1. T(0) = BcMachine /\ U(0) = BcMachine
    BY Trace
  <2>2. Along(i, taken, Len(put), BcMachine, BcMachine)
    <3>1. 1 <= i /\ 1 \in Nat \ {0}
      BY DEF Window
    <3>2. IsSeq(<< >>)
      BY DEF IsSeq
    <3> QED BY <3>1, <3>2 DEF Along, BcMachine
  <2>3. R(T(0), U(0))
    BY <2>1, <2>2 DEF Together
  <2> QED BY <2>3
<1>2. ASSUME NEW j \in Nat, j \in S PROVE j + 1 \in S
  <2>1. PICK m \in Nat : R(T(j), U(m))
    BY <1>2
  <2>2. T(j + 1) = BcStep(code, T(j)) /\ U(m + 1) = BcStep(c, U(m))
    BY Trace
  <2>3. R(BcStep(code, T(j)), U(m)) \/ R(BcStep(code, T(j)), BcStep(c, U(m)))
    <3>1. Together(code, i, taken, Len(put), T(j), U(m))
      BY <2>1
    <3> HIDE DEF T, U
    <3> QED BY <3>1, StepTogether
  <2> HIDE DEF T, U, R
  <2> QED BY <2>1, <2>2, <2>3
<1> HIDE DEF S
<1>3. k \in S
  BY <1>1, <1>2, NatSteps
<1> QED BY <1>3 DEF S

(* When the code has stopped, so has the rewritten code.                   *)
LEMMA HaltsTogether ==
  ASSUME NEW code, CodeOK(code), NEW pass, NEW i, NEW taken,
         taken = BcTaken(pass), NEW put, put = BcPut(pass, code, i),
         Window(code, i, taken, put), NEW c, c = BcSpliced(pass, code, i), NEW s, NEW t,
         Together(code, i, taken, Len(put), s, t), BcHalted(code, s)
  PROVE  BcHalted(c, t) /\ s.state = t.state /\ s.stack = t.stack
<1> DEFINE n == Len(put)
<1>1. /\ Len(code) \in Nat /\ i \in Nat /\ 1 <= i /\ i + taken <= Len(code)
      /\ taken \in 1 .. 3 /\ n = IF taken = 3 THEN 1 ELSE 0
      /\ \A k \in 1 .. Len(code) : code[k] \in Instrs
  <2>1. taken \in 1 .. 3 /\ n = IF taken = 3 THEN 1 ELSE 0
    BY WindowPut
  <2> QED BY <2>1 DEF CodeOK, Window
<1>2. /\ Len(c) = Len(code) - (taken - n)
      /\ \A k \in 1 .. i - 1 : c[k] = Shifted(code[k], i, taken, n)
      /\ \A k \in i + n .. Len(c) : c[k] = Shifted(code[k + (taken - n)], i, taken, n)
  BY Spliced
<1>3. CASE Within(code, i, taken, s, t)
  <2>1. s.state = "runs" /\ ((taken \in {2, 3} /\ s.ip = i + 1) \/ (taken = 3 /\ s.ip = i + 2))
    <3>1. \E v, x : \/ taken \in {2, 3} /\ s = BcState(i + 1, x, v, "runs")
                    \/ taken = 3 /\ s = BcState(i + 2, x, v, "runs")
      BY <1>3 DEF Within
    <3>2. PICK v, x : \/ taken \in {2, 3} /\ s = BcState(i + 1, x, v, "runs")
                      \/ taken = 3 /\ s = BcState(i + 2, x, v, "runs")
      BY <3>1
    <3> QED BY <3>2, StateParts
  <2>2. /\ taken = 2 => code[i + 1].op = "POP"
        /\ taken = 3 => code[i + 1].op = "PUSH_CONST" /\ code[i + 2].op \in BcBinaryOpcodes
    BY DEF Window
  <2>3. code[s.ip].op # "HALT"
    BY <1>1, <2>1, <2>2, BinaryOpcodes
  <2> QED BY <1>1, <2>1, <2>3 DEF BcHalted
<1>4. CASE Along(i, taken, n, s, t)
  <2>1. PICK ip \in Nat \ {0}, state \in {"runs", "thrown"} : \E st, v :
          /\ IsSeq(st) /\ s = BcState(ip, st, v, state)
          /\ \/ ip <= i /\ t = s
             \/ ip >= i + taken /\ t = BcState(ip - (taken - n), st, v, state)
    BY <1>4 DEF Along
  <2>2. PICK st, v :
          /\ IsSeq(st) /\ s = BcState(ip, st, v, state)
          /\ \/ ip <= i /\ t = s
             \/ ip >= i + taken /\ t = BcState(ip - (taken - n), st, v, state)
    BY <2>1
  <2> DEFINE jp == IF ip <= i THEN ip ELSE ip - (taken - n)
  <2>3. t = BcState(jp, st, v, state) /\ (ip <= i \/ ip >= i + taken)
    BY <1>1, <2>2
  <2>4. /\ s.ip = ip /\ s.state = state /\ s.stack = st
        /\ t.ip = jp /\ t.state = state /\ t.stack = st
    <3> HIDE DEF jp
    <3> QED BY <2>2, <2>3, StateParts
  <2>5. CASE state = "thrown"
    BY <2>4, <2>5 DEF BcHalted
  <2>6. CASE ip > Len(code)
    <3>1. jp > Len(c)
      BY <1>1, <1>2, <2>6
    <3> QED BY <2>4, <3>1 DEF BcHalted
  <2>7. CASE ip <= Len(code) /\ code[ip].op = "HALT"
    <3>1. ip # i
      BY <2>7 DEF Window
    <3>2. c[jp] = Shifted(code[ip], i, taken, n)
      <4>1. CASE ip < i
        <5>1. jp = ip /\ ip \in 1 .. i - 1
          BY <1>1, <4>1
        <5> QED BY <1>2, <5>1
      <4>2. CASE ip >= i + taken
        <5>1. jp \in i + n .. Len(c) /\ jp + (taken - n) = ip
          BY <1>1, <1>2, <4>2, <2>7
        <5> HIDE DEF jp
        <5> QED BY <1>2, <5>1
      <4> QED BY <1>1, <2>3, <3>1, <4>1, <4>2
    <3>3. c[jp].op = "HALT"
      <4>1. code[ip] \in Instrs /\ i \in Int /\ taken \in Int /\ n \in Int
        BY <1>1, <2>7
      <4>2. Shifted(code[ip], i, taken, n).op = code[ip].op
        BY <4>1, ShiftedTyped
      <4> HIDE DEF jp
      <4> QED BY <2>7, <3>2, <4>2
    <3> HIDE DEF jp
    <3> QED BY <2>4, <3>3 DEF BcHalted
  <2> QED BY <1>1, <2>4, <2>5, <2>6, <2>7 DEF BcHalted
<1> QED BY <1>3, <1>4 DEF Together

(* What a splice that no jump leads into leaves as it was.                  *)
LEMMA SplicedRuns ==
  ASSUME NEW code, CodeOK(code), Forward(code), NEW pass, NEW i,
         Window(code, i, BcTaken(pass), BcPut(pass, code, i)),
         Clear(code, i, BcTaken(pass))
  PROVE  BcRun(BcSpliced(pass, code, i)) = BcRun(code)
<1> DEFINE taken == BcTaken(pass)
           put == BcPut(pass, code, i)
           c == BcSpliced(pass, code, i)
           s == BcTrace(code)[Len(code)]
           u == BcTrace(c)[Len(c)]
<1>1. CodeOK(c) /\ Forward(c)
  BY SplicedOK
<1>2. Len(code) \in Nat /\ Len(c) \in Nat
  BY <1>1 DEF CodeOK
<1>3. BcHalted(code, s) /\ BcHalted(c, u)
  BY <1>1, TraceStops
<1>4. \E m \in Nat : Together(code, i, taken, Len(put), s, BcTrace(c)[m])
  BY <1>2, TraceTogether
<1>5. PICK m \in Nat : Together(code, i, taken, Len(put), s, BcTrace(c)[m])
  BY <1>4
<1> DEFINE t == BcTrace(c)[m]
<1>6. BcHalted(c, t) /\ s.state = t.state /\ s.stack = t.stack
  <2>1. Together(code, i, taken, Len(put), s, t)
    BY <1>5
  <2> HIDE DEF s, t
  <2> QED BY <1>3, <2>1, HaltsTogether
<1>7. u = t
  BY <1>2, <1>3, <1>6, TraceEnds
<1>8. u.state = s.state /\ u.stack = s.stack
  BY <1>6, <1>7
<1>9. BcRun(c) = BcRun(code)
  BY <1>8 DEF BcRun
<1> QED BY <1>9

-----------------------------------------------------------------------------
(* A pass leaves the machine's answer as it is.                            *)

(* What is left when all behind a HALT has been taken for dead.            *)
LEMMA KeptHead ==
  ASSUME NEW code, CodeOK(code), NEW i \in DOMAIN code, code[i].op = "HALT"
  PROVE  /\ CodeOK(SubSeq(code, 1, i))
         /\ Len(SubSeq(code, 1, i)) = i
         /\ \A k \in 1 .. i : SubSeq(code, 1, i)[k] = code[k]
<1>1. code \in Seq(Instrs) /\ i \in 1 .. Len(code) /\ \A k \in 1 .. i : code[k] \in Instrs
  BY DEF CodeOK
<1>2. /\ SubSeq(code, 1, i) \in Seq(Instrs)
      /\ Len(SubSeq(code, 1, i)) = IF 1 <= i THEN i - 1 + 1 ELSE 0
      /\ \A k \in 1 .. i - 1 + 1 : SubSeq(code, 1, i)[k] = code[1 + k - 1]
  BY <1>1, SubSeqProperties
<1>3. /\ Len(SubSeq(code, 1, i)) = i
      /\ \A k \in 1 .. i : SubSeq(code, 1, i)[k] = code[k]
  BY <1>1, <1>2
<1> DEFINE c == SubSeq(code, 1, i)
<1> HIDE DEF c
<1>4. CodeOK(c)
  BY <1>1, <1>2, <1>3 DEF CodeOK, c
<1> QED BY <1>3, <1>4 DEF c

LEMMA StepKept ==
  ASSUME NEW code, CodeOK(code), Forward(code), NEW i \in DOMAIN code, code[i].op = "HALT",
         \A k \in DOMAIN code : BcIsJump(code[k]) => code[k].arg <= i,
         NEW c, c = SubSeq(code, 1, i), NEW s, StateOK(s), s.ip <= i
  PROVE  BcStep(c, s) = BcStep(code, s) /\ BcStep(code, s).ip <= i
<1>1. /\ Len(code) \in Nat /\ Len(c) \in Nat /\ Len(c) = i /\ i \in 1 .. Len(code)
      /\ \A k \in 1 .. i : c[k] = code[k]
      /\ \A k \in 1 .. Len(code) : code[k] \in Instrs
  BY KeptHead DEF CodeOK
<1>2. s.ip \in 1 .. i
  BY StateParts DEF StateOK
<1>3. c[s.ip] = code[s.ip] /\ (BcHalted(c, s) <=> BcHalted(code, s))
  BY <1>1, <1>2 DEF BcHalted
<1>4. BcStep(c, s) = BcStep(code, s)
  BY <1>3 DEF BcStep
<1> DEFINE t == BcStep(code, s)
<1>5. t.ip <= i
  <2>1. CASE BcHalted(code, s)
    BY <1>2, <2>1 DEF BcStep
  <2>2. CASE ~BcHalted(code, s)
    <3>1. PICK ip \in Nat \ {0}, state \in {"runs", "thrown"} : \E stack, var :
            IsSeq(stack) /\ s = BcState(ip, stack, var, state)
      BY DEF StateOK
    <3>2. PICK stack, var : IsSeq(stack) /\ s = BcState(ip, stack, var, state)
      BY <3>1
    <3>3. s.ip = ip /\ s.state = state
      BY <3>2, StateParts
    <3>4. s = BcState(ip, stack, var, "runs") /\ ip \in 1 .. i /\ code[ip].op # "HALT" /\ ip # i
      BY <1>1, <1>2, <2>2, <3>2, <3>3 DEF BcHalted
    <3>5. ip \in 1 .. Len(code) /\ code[ip] \in Instrs
      BY <1>1, <3>4
    <3>6. Outcome(code[ip], ip, stack, var, t)
      BY <1>1, <3>4, <3>5, StepOf
    <3>7. CASE BcIsJump(code[ip])
      <4>1. \E to, st, state2 : t = BcState(to, st, var, state2) /\ to \in {ip, ip + 1, code[ip].arg}
        <5> HIDE DEF t
        <5>1. CASE code[ip].op = "JUMP"
          BY <3>6, <5>1 DEF Outcome
        <5>2. CASE code[ip].op = "JUMP_IF_FALSE"
          BY <3>6, <5>2 DEF Outcome
        <5> QED BY <3>7, <5>1, <5>2 DEF BcIsJump
      <4>2. PICK to, st, state2 : t = BcState(to, st, var, state2) /\ to \in {ip, ip + 1, code[ip].arg}
        BY <4>1
      <4>3. t.ip = to
        BY <4>2, StateParts
      <4>4. code[ip].arg <= i
        BY <3>5, <3>7 DEF CodeOK
      <4> QED BY <1>1, <3>4, <4>2, <4>3, <4>4
    <3>8. CASE ~BcIsJump(code[ip])
      <4>1. \/ t = BcState(ip, stack, var, "thrown")
            \/ \E st, v : t = BcState(ip + 1, st, v, "runs")
        BY <1>1, <3>4, <3>5, <3>8, StepAlike
      <4>2. t.ip = ip \/ t.ip = ip + 1
        BY <4>1, StateParts
      <4> QED BY <1>1, <3>4, <4>2
    <3> QED BY <3>7, <3>8
  <2> QED BY <2>1, <2>2
<1> QED BY <1>4, <1>5

LEMMA KeptRuns ==
  ASSUME NEW code, CodeOK(code), Forward(code), NEW i \in DOMAIN code, code[i].op = "HALT",
         \A k \in DOMAIN code : BcIsJump(code[k]) => code[k].arg <= i
  PROVE  LET c == SubSeq(code, 1, i)
         IN  CodeOK(c) /\ Forward(c) /\ BcRun(c) = BcRun(code)
<1> DEFINE c == SubSeq(code, 1, i)
<1>1. CodeOK(c) /\ Len(c) = i /\ \A k \in 1 .. i : c[k] = code[k]
  BY KeptHead
<1>2. /\ Len(code) \in Nat /\ i \in 1 .. Len(code) /\ i \in Nat /\ DOMAIN code = 1 .. Len(code)
      /\ DOMAIN c = 1 .. Len(c)
  BY <1>1 DEF CodeOK
<1> HIDE DEF c
<1>3. Forward(c)
  <2> SUFFICES ASSUME NEW k \in 1 .. i, BcIsJump(code[k]) PROVE code[k].arg \in k + 1 .. i
    BY <1>1, <1>2 DEF Forward
  <2>1. k \in DOMAIN code
    BY <1>2
  <2>2. code[k].arg \in k + 1 .. Len(code) /\ code[k].arg <= i
    BY <2>1 DEF Forward
  <2> QED BY <1>2, <2>2
<1> DEFINE T(n) == BcTrace(code)[n]
           U(n) == BcTrace(c)[n]
           S == {n \in Nat : U(n) = T(n) /\ T(n).ip <= i}
<1>4. 0 \in S
  <2>1. T(0) = BcMachine /\ U(0) = BcMachine
    BY Trace
  <2>2. T(0).ip <= i
    BY <1>2, <2>1, MachineOK
  <2> QED BY <2>1, <2>2
<1>5. ASSUME NEW n \in Nat, n \in S PROVE n + 1 \in S
  <2>1. T(n + 1) = BcStep(code, T(n)) /\ U(n + 1) = BcStep(c, U(n))
    BY Trace
  <2>2. StateOK(T(n))
    BY TraceOK
  <2>3. U(n) = T(n) /\ T(n).ip <= i
    BY <1>5
  <2> HIDE DEF T, U
  <2>4. BcStep(c, T(n)) = BcStep(code, T(n)) /\ BcStep(code, T(n)).ip <= i
    BY <2>2, <2>3, StepKept DEF c
  <2> QED BY <2>1, <2>3, <2>4
<1>6. \A n \in Nat : U(n) = T(n)
  <2>1. Nat \subseteq S
    <3> HIDE DEF S
    <3> QED BY <1>4, <1>5, NatSteps
  <2> HIDE DEF T, U
  <2> QED BY <2>1
<1>7. BcTrace(c)[Len(c)] = BcTrace(code)[Len(code)]
  <2>1. BcHalted(code, T(Len(code))) /\ BcHalted(c, U(i))
    BY <1>1, <1>3, TraceStops
  <2>2. U(Len(code)) = U(i)
    BY <1>2, <2>1, TraceStays
  <2> QED BY <1>1, <1>2, <1>6, <2>2
<1>8. BcRun(c) = BcRun(code)
  BY <1>7 DEF BcRun
<1> QED BY <1>1, <1>3, <1>8 DEF c

(* A set of places has a first.                                            *)
LEMMA First ==
  ASSUME NEW places \in SUBSET Nat, places # {}
  PROVE  BcFirst(places) \in places
<1>1. IsWellFoundedOn(OpToRel(<, Nat), Nat)
  BY NatLessThanWellFounded
<1>2. PICK m \in places : \A y \in places : ~(<<y, m>> \in OpToRel(<, Nat))
  BY <1>1, WFMin
<1>3. \A y \in places : ~(y < m)
  BY <1>2 DEF OpToRel
<1>4. \E x \in places : \A y \in places : x <= y
  <2>1. m \in Nat /\ \A y \in places : y \in Nat
    OBVIOUS
  <2> QED BY <1>3, <2>1
<1> QED BY <1>4, Zenon DEF BcFirst

LEMMA Rewritten ==
  ASSUME NEW code, CodeOK(code), NEW pass \in Range(BcPasses), NEW i \in BcMatches(pass, code)
  PROVE  /\ CodeOK(BcRewritten(pass, code, i))
         /\ Forward(code) /\ ~BcEntered(pass, code, i) =>
              /\ Forward(BcRewritten(pass, code, i))
              /\ BcRun(BcRewritten(pass, code, i)) = BcRun(code)
<1>1. CASE pass = "dead-code-elimination"
  <2>1. i \in DOMAIN code /\ code[i].op = "HALT"
    BY <1>1 DEF BcMatches
  <2>2. BcRewritten(pass, code, i) = SubSeq(code, 1, i)
    BY <1>1 DEF BcRewritten
  <2>3. CodeOK(SubSeq(code, 1, i))
    BY <2>1, KeptHead
  <2>4. ASSUME Forward(code), ~BcEntered(pass, code, i)
        PROVE  /\ Forward(SubSeq(code, 1, i))
               /\ BcRun(SubSeq(code, 1, i)) = BcRun(code)
    <3>1. ASSUME NEW k \in DOMAIN code, BcIsJump(code[k]) PROVE code[k].arg <= i
      <4>1. ~(code[k].arg > i)
        BY <1>1, <2>4, <3>1 DEF BcEntered
      <4>2. code[k].arg \in Int /\ i \in Int
        BY <2>1, <2>4, <3>1 DEF Forward, CodeOK
      <4> QED BY <4>1, <4>2
    <3> QED BY <2>1, <2>4, <3>1, KeptRuns
  <2> QED BY <2>2, <2>3, <2>4
<1>2. CASE pass # "dead-code-elimination"
  <2> DEFINE taken == BcTaken(pass)
             put == BcPut(pass, code, i)
             c == BcSpliced(pass, code, i)
  <2>1. Window(code, i, taken, put)
    BY <1>2, Windows
  <2>2. BcRewritten(pass, code, i) = c
    BY <1>2 DEF BcRewritten
  <2>3. CodeOK(c)
    BY <2>1, SplicedOK
  <2>4. ASSUME Forward(code), ~BcEntered(pass, code, i)
        PROVE  Forward(c) /\ BcRun(c) = BcRun(code)
    <3>1. taken \in 1 .. 3 /\ i \in Int
      BY <2>1, WindowPut DEF Window
    <3>2. ASSUME NEW k \in DOMAIN code, BcIsJump(code[k])
          PROVE  code[k].arg <= i \/ code[k].arg >= i + taken
      <4>1. code[k].arg \in Int
        BY <2>4, <3>2 DEF Forward
      <4>2. ~(code[k].arg > i /\ code[k].arg < i + taken)
        BY <2>4, <3>2 DEF BcEntered
      <4> HIDE DEF taken
      <4> QED BY <3>1, <4>1, <4>2
    <3>3. Clear(code, i, taken)
      BY <3>2 DEF Clear
    <3> QED BY <2>1, <2>4, <3>3, SplicedOK, SplicedRuns
  <2> HIDE DEF c
  <2> QED BY <2>2, <2>3, <2>4
<1> QED BY <1>1, <1>2

-----------------------------------------------------------------------------
(* The expressions that there are, by their depth.                         *)

(* Expressions by what they are put together from.                         *)
Leaves == BcNumbers0 \cup BcTruths0 \cup {BcVar, BcPartDefine}
Simple == Leaves \cup BcTruths \cup BcDefines \cup BcStops
Chosen == Simple \cup BcChoices
Operands == Chosen \cup BcNumbers

(* The forms there are, of operands from a set.                            *)
Shape(e, S) ==
  \/ e.op = "lit" /\ e.args = << >> /\ e.value \in BcScalars
  \/ e.op \in {"variable", "define"} /\ e.args = << >>
  \/ e.op \in {"define", "not", "-"} /\ \E a \in S : e.args = <<a>>
  \/ e.op \in {"do", "list", "if", "+", "-", "*", "<", "=", "and", "or"}
       /\ \E a \in S : \E b \in S : e.args = <<a, b>>
  \/ e.op \in {"if", "+"} /\ \E a \in S : \E b \in S : \E c \in S : e.args = <<a, b, c>>

LEMMA Applied ==
  ASSUME NEW op, NEW A, NEW B, NEW S, A \subseteq S, B \subseteq S,
         op \in {"do", "list", "if", "+", "-", "*", "<", "=", "and", "or"},
         NEW e \in BcApply(op, A, B)
  PROVE  Shape(e, S)
<1>1. PICK a \in A, b \in B : e = BcOp(op, <<a, b>>)
  BY DEF BcApply
<1>2. e.op = op /\ e.args = <<a, b>>
  BY <1>1 DEF BcOp
<1> QED BY <1>2 DEF Shape

LEMMA Alone ==
  ASSUME NEW op \in {"define", "not", "-"}, NEW S, NEW a \in S
  PROVE  Shape(BcOp(op, <<a>>), S)
BY DEF Shape, BcOp

LEMMA Paired ==
  ASSUME NEW op \in {"do", "list", "if", "+", "-", "*", "<", "=", "and", "or"}, NEW S,
         NEW a \in S, NEW b \in S
  PROVE  Shape(BcOp(op, <<a, b>>), S)
BY DEF Shape, BcOp

LEMMA Three ==
  ASSUME NEW op \in {"if", "+"}, NEW S, NEW a \in S, NEW b \in S, NEW c \in S
  PROVE  Shape(BcOp(op, <<a, b, c>>), S)
<1>1. BcOp(op, <<a, b, c>>).op = op /\ BcOp(op, <<a, b, c>>).args = <<a, b, c>>
  BY DEF BcOp
<1> QED BY <1>1 DEF Shape

LEMMA LeafShape ==
  ASSUME NEW e \in Leaves
  PROVE  Shape(e, {}) /\ e.args = << >>
<1>1. CASE e \in BcNumbers0
  <2>1. PICK n \in BcLiterals : e = BcLit(BcNum(n))
    BY <1>1 DEF BcNumbers0
  <2>2. BcNum(n) \in BcScalars
    BY BytecodeAssumption, Scalars
  <2> HIDE DEF BcNum
  <2> QED BY <2>1, <2>2 DEF BcLit, Shape
<1>2. CASE e \in BcTruths0
  <2>1. PICK b \in BOOLEAN : e = BcLit(BcBool(b))
    BY <1>2 DEF BcTruths0
  <2>2. BcBool(b) \in BcScalars
    BY Scalars
  <2> QED BY <2>1, <2>2 DEF BcLit, Shape
<1>3. CASE e \in {BcVar, BcPartDefine}
  BY <1>3 DEF BcVar, BcPartDefine, BcOp, Shape
<1> QED BY <1>1, <1>2, <1>3 DEF Leaves

LEMMA ShapeMore ==
  ASSUME NEW e, NEW S, NEW T, S \subseteq T, Shape(e, S)
  PROVE  Shape(e, T)
<1>1. CASE \E a \in S : \E b \in S : \E c \in S : e.args = <<a, b, c>> /\ e.op \in {"if", "+"}
  BY <1>1 DEF Shape
<1>2. CASE /\ e.op \in {"do", "list", "if", "+", "-", "*", "<", "=", "and", "or"}
           /\ \E a \in S : \E b \in S : e.args = <<a, b>>
  BY <1>2 DEF Shape
<1>3. CASE e.op \in {"define", "not", "-"} /\ \E a \in S : e.args = <<a>>
  BY <1>3 DEF Shape
<1>4. CASE \/ e.op = "lit" /\ e.args = << >> /\ e.value \in BcScalars
           \/ e.op \in {"variable", "define"} /\ e.args = << >>
  BY <1>4 DEF Shape
<1> QED BY <1>1, <1>2, <1>3, <1>4 DEF Shape

LEMMA SimpleShape ==
  ASSUME NEW e \in Simple
  PROVE  Shape(e, Leaves)
<1>1. BcNumbers0 \subseteq Leaves /\ BcTruths0 \subseteq Leaves /\ BcPartDefine \in Leaves
  BY DEF Leaves
<1>2. CASE e \in Leaves
  BY <1>2, LeafShape, ShapeMore
<1>3. CASE e \in BcDefines
  <2>1. PICK a \in BcNumbers0 : e = BcOp("define", <<a>>)
    BY <1>3 DEF BcDefines
  <2> QED BY <1>1, <2>1, Alone
<1>4. CASE e \in BcStops
  <2>1. PICK a \in BcNumbers0 : e = BcOp("do", <<BcPartDefine, a>>)
    BY <1>4 DEF BcStops
  <2> QED BY <1>1, <2>1, Paired
<1>5. CASE e \in BcTruths
  <2> DEFINE Mixed == BcTruths0 \cup BcNumbers0
             Mixed2 == BcTruths0 \cup BcNumbers0
  <2>1. BcTruths0 \subseteq Leaves /\ BcNumbers0 \subseteq Leaves /\ Mixed \subseteq Leaves
    BY <1>1
  <2>2. CASE e \in BcTruths0
    BY <1>1, <1>2, <2>2
  <2>3. CASE e \in BcApply("<", BcNumbers0, BcNumbers0)
    BY <2>1, <2>3, Applied
  <2>4. CASE e \in {BcOp("not", <<b>>) : b \in BcTruths0}
    <3>1. PICK b \in BcTruths0 : e = BcOp("not", <<b>>)
      BY <2>4
    <3> QED BY <2>1, <3>1, Alone
  <2>5. CASE e \in BcApply("and", Mixed, BcTruths0)
    <3> HIDE DEF Mixed
    <3> QED BY <2>1, <2>5, Applied
  <2>6. CASE e \in BcApply("or", BcTruths0, Mixed)
    <3> HIDE DEF Mixed
    <3> QED BY <2>1, <2>6, Applied
  <2> QED BY <1>5, <2>2, <2>3, <2>4, <2>5, <2>6 DEF BcTruths
<1> QED BY <1>2, <1>3, <1>4, <1>5 DEF Simple

LEMMA ChosenShape ==
  ASSUME NEW e \in Chosen
  PROVE  Shape(e, Simple)
<1>1. Leaves \subseteq Simple /\ BcTruths0 \subseteq Simple /\ BcNumbers0 \subseteq Simple
  BY DEF Leaves, Simple
<1>2. CASE e \in Simple
  BY <1>1, <1>2, SimpleShape, ShapeMore
<1>3. CASE e \in BcChoices
  <2>1. PICK c \in BcTruths0, a \in BcNumbers0 : e = BcOp("if", <<c, a, a>>)
    BY <1>3 DEF BcChoices
  <2> QED BY <1>1, <2>1, Three
<1> QED BY <1>2, <1>3 DEF Chosen

(* The forms of BcNumbers.                                                 *)
Paired0 == BcApply("-", BcNumbers0, BcNumbers0) \cup BcApply("*", BcNumbers0, BcNumbers0)
Negated0 == {BcOp("-", <<a>>) : a \in BcNumbers0}
Forked0 == {BcOp("if", <<c, a, b>>) : c \in BcTruths, a, b \in BcNumbers0}
Guarded0 == {BcOp("if", <<c, a>>) : c \in BcTruths, a \in BcNumbers0}
Done0 == BcApply("do", BcDefines \cup BcChoices, BcNumbers0 \cup {BcVar})
Stopped0 == {BcOp("if", <<c, stop, a>>) : c \in BcTruths0, stop \in BcStops, a \in BcNumbers0}

LEMMA NumberForms ==
  ASSUME NEW e \in BcNumbers
  PROVE  \/ e \in BcNumbers0 \/ e \in Paired0 \/ e \in Negated0 \/ e \in Forked0
         \/ e \in Guarded0 \/ e \in Done0 \/ e = BcVar \/ e \in Stopped0
<1>1. BcNumbers = BcNumbers0 \cup Paired0 \cup Negated0 \cup Forked0 \cup Guarded0
                    \cup Done0 \cup {BcVar} \cup Stopped0
  BY DEF BcNumbers, Paired0, Negated0, Forked0, Guarded0, Done0, Stopped0
<1> QED BY <1>1

LEMMA OperandShape ==
  ASSUME NEW e \in Operands
  PROVE  Shape(e, Chosen)
<1>1. /\ Simple \subseteq Chosen /\ BcTruths0 \subseteq Chosen /\ BcNumbers0 \subseteq Chosen
      /\ BcTruths \subseteq Chosen /\ BcStops \subseteq Chosen
      /\ BcDefines \cup BcChoices \subseteq Chosen /\ BcNumbers0 \cup {BcVar} \subseteq Chosen
  BY DEF Leaves, Simple, Chosen
<1>2. CASE e \in Chosen
  BY <1>1, <1>2, ChosenShape, ShapeMore
<1>3. CASE e \in BcNumbers
  <2>1. CASE e \in BcNumbers0
    BY <1>1, <1>2, <2>1
  <2>2. CASE e \in Paired0
    BY <1>1, <2>2, Applied DEF Paired0
  <2>3. CASE e \in Negated0
    <3>1. PICK a \in BcNumbers0 : e = BcOp("-", <<a>>)
      BY <2>3 DEF Negated0
    <3> QED BY <1>1, <3>1, Alone
  <2>4. CASE e \in Forked0
    <3>1. PICK c \in BcTruths, a \in BcNumbers0, b \in BcNumbers0 : e = BcOp("if", <<c, a, b>>)
      BY <2>4 DEF Forked0
    <3> QED BY <1>1, <3>1, Three
  <2>5. CASE e \in Guarded0
    <3>1. PICK c \in BcTruths, a \in BcNumbers0 : e = BcOp("if", <<c, a>>)
      BY <2>5 DEF Guarded0
    <3> QED BY <1>1, <3>1, Paired
  <2>6. CASE e \in Done0
    <3> DEFINE L == BcDefines \cup BcChoices
               N == BcNumbers0 \cup {BcVar}
    <3>1. L \subseteq Chosen /\ N \subseteq Chosen /\ e \in BcApply("do", L, N)
      BY <1>1, <2>6 DEF Done0
    <3> HIDE DEF L, N
    <3> QED BY <3>1, Applied
  <2>7. CASE e \in Stopped0
    <3>1. PICK c \in BcTruths0, stop \in BcStops, a \in BcNumbers0 : e = BcOp("if", <<c, stop, a>>)
      BY <2>7 DEF Stopped0
    <3> QED BY <1>1, <3>1, Three
  <2>8. CASE e = BcVar
    BY <1>1, <1>2, <2>8
  <2> QED BY <1>3, <2>1, <2>2, <2>3, <2>4, <2>5, <2>6, <2>7, <2>8, NumberForms
<1> QED BY <1>2, <1>3 DEF Operands

LEMMA ExprShape ==
  ASSUME NEW e \in BcExprs
  PROVE  Shape(e, Operands)
<1>1. /\ Chosen \subseteq Operands /\ BcNumbers0 \subseteq Operands
      /\ BcNumbers \subseteq Operands /\ BcTruths \subseteq Operands
  BY DEF Leaves, Simple, Chosen, Operands
<1>2. CASE e \in Operands
  BY <1>1, <1>2, OperandShape, ShapeMore
<1>3. CASE e \in BcPrograms
  <2>1. CASE e \in BcApply("+", BcNumbers, BcNumbers0) \cup BcApply("list", BcNumbers0, BcNumbers)
                     \cup BcApply("-", BcNumbers0, BcNumbers)
                     \cup BcApply("<", BcNumbers, BcNumbers0)
                     \cup BcApply("=", BcNumbers0, BcNumbers)
    BY <1>1, <2>1, Applied
  <2>2. CASE e \in {BcOp("not", <<b>>) : b \in BcTruths}
    <3>1. PICK b \in BcTruths : e = BcOp("not", <<b>>)
      BY <2>2
    <3> QED BY <1>1, <3>1, Alone
  <2>3. CASE e \in {BcOp("+", args) : args \in BcNumbers0 \X BcNumbers0 \X BcNumbers0}
    <3>1. PICK args \in BcNumbers0 \X BcNumbers0 \X BcNumbers0 : e = BcOp("+", args)
      BY <2>3
    <3>2. PICK a \in BcNumbers0, b \in BcNumbers0, c \in BcNumbers0 : args = <<a, b, c>>
      OBVIOUS
    <3> QED BY <1>1, <3>1, <3>2, Three
  <2> QED BY <1>3, <2>1, <2>2, <2>3 DEF BcPrograms
<1>4. BcExprs \subseteq BcPrograms \cup Operands
  BY DEF BcExprs, Operands, Chosen, Simple, Leaves
<1> QED BY <1>2, <1>3, <1>4

LEMMA Inside ==
  Leaves \subseteq Simple /\ Simple \subseteq Chosen /\ Chosen \subseteq Operands
    /\ Operands \subseteq BcExprs /\ BcPrograms \subseteq BcExprs
<1>1. /\ Leaves \subseteq Simple /\ Simple \subseteq Chosen /\ Chosen \subseteq Operands
      /\ BcPrograms \subseteq BcExprs
  BY DEF Simple, Chosen, Operands, BcExprs
<1>2. BcTruths0 \subseteq BcTruths /\ BcNumbers0 \subseteq BcNumbers
  BY DEF BcTruths, BcNumbers
<1>3. BcChoices \subseteq BcNumbers
  <2> SUFFICES ASSUME NEW e \in BcChoices PROVE e \in BcNumbers
    OBVIOUS
  <2>1. PICK c \in BcTruths0, a \in BcNumbers0 : e = BcOp("if", <<c, a, a>>)
    BY DEF BcChoices
  <2>2. e \in {BcOp("if", <<d, x, y>>) : d \in BcTruths, x, y \in BcNumbers0}
    BY <1>2, <2>1
  <2> QED BY <2>2 DEF BcNumbers
<1> QED BY <1>1, <1>2, <1>3 DEF BcExprs, Operands, Chosen, Simple, Leaves

LEMMA ShapeArgs ==
  ASSUME NEW e, NEW S, Shape(e, S)
  PROVE  \A k \in DOMAIN e.args : e.args[k] \in S
<1>1. CASE e.args = << >>
  BY <1>1
<1>2. CASE \E a \in S : e.args = <<a>>
  BY <1>2
<1>3. CASE \E a \in S : \E b \in S : e.args = <<a, b>>
  BY <1>3
<1>4. CASE \E a \in S : \E b \in S : \E c \in S : e.args = <<a, b, c>>
  BY <1>4
<1> QED BY <1>1, <1>2, <1>3, <1>4 DEF Shape

-----------------------------------------------------------------------------
(* The code of an expression is given by that of its operands.             *)

(* The code of an expression, as deep as it goes.                          *)
Code0(e) == [at \in Nat |-> BcForm(e, at, [k \in DOMAIN e.args |-> << >>])]
Code1(e) == [at \in Nat |-> BcForm(e, at, [k \in DOMAIN e.args |-> Code0(e.args[k])])]
Code2(e) == [at \in Nat |-> BcForm(e, at, [k \in DOMAIN e.args |-> Code1(e.args[k])])]
Code3(e) == [at \in Nat |-> BcForm(e, at, [k \in DOMAIN e.args |-> Code2(e.args[k])])]
Code4(e) == [at \in Nat |-> BcForm(e, at, [k \in DOMAIN e.args |-> Code3(e.args[k])])]

LEMMA CodeSettles ==
  /\ \A e \in Leaves : Code1(e) = Code0(e)
  /\ \A e \in Simple : Code2(e) = Code1(e)
  /\ \A e \in Chosen : Code3(e) = Code2(e)
  /\ \A e \in Operands : Code4(e) = Code3(e)
<1>1. ASSUME NEW e \in Leaves PROVE Code1(e) = Code0(e)
  <2>1. e.args = << >>
    BY LeafShape
  <2>2. [k \in DOMAIN e.args |-> Code0(e.args[k])] = [k \in DOMAIN e.args |-> << >>]
    BY <2>1
  <2> QED BY <2>2, Zenon DEF Code1, Code0
<1>2. ASSUME NEW e \in Simple PROVE Code2(e) = Code1(e)
  <2>1. \A k \in DOMAIN e.args : Code1(e.args[k]) = Code0(e.args[k])
    BY <1>1, SimpleShape, ShapeArgs
  <2>2. [k \in DOMAIN e.args |-> Code1(e.args[k])] = [k \in DOMAIN e.args |-> Code0(e.args[k])]
    BY <2>1
  <2> QED BY <2>2, Zenon DEF Code1, Code2
<1>3. ASSUME NEW e \in Chosen PROVE Code3(e) = Code2(e)
  <2>1. \A k \in DOMAIN e.args : Code2(e.args[k]) = Code1(e.args[k])
    BY <1>2, ChosenShape, ShapeArgs
  <2>2. [k \in DOMAIN e.args |-> Code2(e.args[k])] = [k \in DOMAIN e.args |-> Code1(e.args[k])]
    BY <2>1
  <2> QED BY <2>2, Zenon DEF Code2, Code3
<1>4. ASSUME NEW e \in Operands PROVE Code4(e) = Code3(e)
  <2>1. \A k \in DOMAIN e.args : Code3(e.args[k]) = Code2(e.args[k])
    BY <1>3, OperandShape, ShapeArgs
  <2>2. [k \in DOMAIN e.args |-> Code3(e.args[k])] = [k \in DOMAIN e.args |-> Code2(e.args[k])]
    BY <2>1
  <2> QED BY <2>2, Zenon DEF Code3, Code4
<1> QED BY <1>1, <1>2, <1>3, <1>4

LEMMA CodeExists ==
  \E f : f = [e \in BcExprs |->
               [at \in Nat |-> BcForm(e, at, [k \in DOMAIN e.args |-> f[e.args[k]]])]]
<1> DEFINE f == [e \in BcExprs |-> Code4(e)]
<1>1. ASSUME NEW e \in BcExprs
      PROVE  f[e] = [at \in Nat |-> BcForm(e, at, [k \in DOMAIN e.args |-> f[e.args[k]]])]
  <2>1. \A k \in DOMAIN e.args : e.args[k] \in Operands
    BY ExprShape, ShapeArgs
  <2>2. \A k \in DOMAIN e.args : f[e.args[k]] = Code3(e.args[k])
    BY <2>1, Inside, CodeSettles
  <2>3. [k \in DOMAIN e.args |-> f[e.args[k]]] = [k \in DOMAIN e.args |-> Code3(e.args[k])]
    <3> HIDE DEF f
    <3> QED BY <2>2
  <2>4. f[e] = Code4(e)
    OBVIOUS
  <2> HIDE DEF f
  <2> QED BY <2>3, <2>4, Zenon DEF Code4
<1>2. f = [e \in BcExprs |-> f[e]]
  OBVIOUS
<1> HIDE DEF f
<1>3. f = [e \in BcExprs |->
            [at \in Nat |-> BcForm(e, at, [k \in DOMAIN e.args |-> f[e.args[k]]])]]
  BY <1>1, <1>2
<1> QED BY <1>3

LEMMA CodeOf ==
  ASSUME NEW e \in BcExprs, NEW at \in Nat
  PROVE  BcCode[e][at] = BcForm(e, at, [k \in DOMAIN e.args |-> BcCode[e.args[k]]])
<1> DEFINE Is(f) == f = [d \in BcExprs |->
             [p \in Nat |-> BcForm(d, p, [k \in DOMAIN d.args |-> f[d.args[k]]])]]
           c == CHOOSE f : Is(f)
<1>1. BcCode = c
  BY Zenon DEF BcCode
<1>2. Is(c)
  BY CodeExists, Zenon
<1> HIDE DEF c
<1>3. c[e] = [p \in Nat |-> BcForm(e, p, [k \in DOMAIN e.args |-> c[e.args[k]]])]
  BY <1>2, Zenon
<1>4. c[e][at] = BcForm(e, at, [k \in DOMAIN e.args |-> c[e.args[k]]])
  BY <1>3, Zenon
<1> QED BY <1>1, <1>4, Zenon

-----------------------------------------------------------------------------
(* The compiler's code is well formed: its jumps lead forward in it.       *)

(* Code that begins at a place and whose jumps lead forward, no further    *)
(* than to a place.                                                        *)
Fits(c, at, to) ==
  /\ c \in Seq(Instrs)
  /\ \A k \in 1 .. Len(c) : BcIsJump(c[k]) => c[k].arg \in at + k .. to

WholeAt(c, at) == Fits(c, at, at + Len(c))

LEMMA FitsMore ==
  ASSUME NEW at \in Nat, NEW m \in Nat, NEW to \in Nat, m <= to, NEW c, Fits(c, at, m)
  PROVE  Fits(c, at, to)
<1>1. ASSUME NEW k \in 1 .. Len(c), BcIsJump(c[k]) PROVE c[k].arg \in at + k .. to
  <2>1. c[k].arg \in at + k .. m
    BY <1>1 DEF Fits
  <2> QED BY <2>1
<1> QED BY <1>1 DEF Fits

LEMMA FitsOne ==
  ASSUME NEW j \in Instrs, NEW at \in Nat, NEW to \in Nat,
         BcIsJump(j) => j.arg \in at + 1 .. to
  PROVE  Fits(<<j>>, at, to) /\ Len(<<j>>) = 1
<1>1. <<j>> \in Seq(Instrs) /\ Len(<<j>>) = 1 /\ <<j>>[1] = j
  OBVIOUS
<1> DEFINE c == <<j>>
<1> HIDE DEF c
<1>2. \A k \in 1 .. Len(c) : k = 1
  BY <1>1 DEF c
<1>3. Fits(c, at, to)
  BY <1>1, <1>2 DEF Fits, c
<1> QED BY <1>1, <1>3 DEF c

LEMMA FitsJoined ==
  ASSUME NEW at \in Nat, NEW to \in Nat, NEW c, Fits(c, at, to),
         NEW d, Fits(d, at + Len(c), to)
  PROVE  /\ Fits(c \o d, at, to)
         /\ Len(c \o d) = Len(c) + Len(d) /\ Len(c) \in Nat /\ Len(d) \in Nat
<1>1. c \in Seq(Instrs) /\ d \in Seq(Instrs) /\ Len(c) \in Nat /\ Len(d) \in Nat
  BY DEF Fits
<1> DEFINE a == c \o d
<1>2. /\ a \in Seq(Instrs) /\ Len(a) = Len(c) + Len(d)
      /\ \A k \in 1 .. Len(c) + Len(d) : a[k] = IF k <= Len(c) THEN c[k] ELSE d[k - Len(c)]
  BY <1>1, ConcatProperties
<1> HIDE DEF a
<1>3. ASSUME NEW k \in 1 .. Len(a), BcIsJump(a[k]) PROVE a[k].arg \in at + k .. to
  <2>1. CASE k <= Len(c)
    <3>1. a[k] = c[k] /\ k \in 1 .. Len(c)
      BY <1>1, <1>2, <2>1
    <3> QED BY <1>3, <3>1 DEF Fits
  <2>2. CASE ~(k <= Len(c))
    <3>1. a[k] = d[k - Len(c)] /\ k - Len(c) \in 1 .. Len(d)
      BY <1>1, <1>2, <2>2
    <3>2. d[k - Len(c)].arg \in at + Len(c) + (k - Len(c)) .. to
      BY <1>3, <3>1 DEF Fits
    <3>3. at + Len(c) + (k - Len(c)) = at + k
      BY <1>1
    <3> QED BY <3>1, <3>2, <3>3
  <2> QED BY <2>1, <2>2
<1>4. Fits(a, at, to)
  BY <1>2, <1>3 DEF Fits
<1> QED BY <1>1, <1>2, <1>4 DEF a

LEMMA PushFits ==
  ASSUME NEW v \in BcScalars, NEW at \in Nat, NEW to \in Nat
  PROVE  Fits(BcPush(v), at, to) /\ Len(BcPush(v)) = 1
<1>1. BcInstr("PUSH_CONST", v) \in Instrs /\ ~BcIsJump(BcInstr("PUSH_CONST", v))
  BY DEF Instrs, BcInstr, BcIsJump
<1> QED BY <1>1, FitsOne DEF BcPush

LEMMA NopFits ==
  ASSUME NEW op \in BareOpcodes, NEW at \in Nat, NEW to \in Nat
  PROVE  Fits(<<BcNop(op)>>, at, to) /\ Len(<<BcNop(op)>>) = 1
<1>1. BcNop(op) \in Instrs /\ ~BcIsJump(BcNop(op))
  BY DEF Instrs, BcInstr, BcIsJump, BcNop, BareOpcodes
<1> QED BY <1>1, FitsOne

LEMMA JumpFits ==
  ASSUME NEW op \in {"JUMP", "JUMP_IF_FALSE"}, NEW at \in Nat, NEW to \in Nat,
         NEW goal \in Nat, goal > at, goal <= to
  PROVE  Fits(<<BcInstr(op, goal)>>, at, to) /\ Len(<<BcInstr(op, goal)>>) = 1
<1>1. BcInstr(op, goal) \in Instrs /\ BcInstr(op, goal).arg = goal
  BY DEF Instrs, BcInstr
<1>2. goal \in at + 1 .. to
  OBVIOUS
<1> QED BY <1>1, <1>2, FitsOne

LEMMA ListFits ==
  ASSUME NEW at \in Nat, NEW to \in Nat
  PROVE  Fits(<<BcInstr("MAKE_LIST", 2)>>, at, to) /\ Len(<<BcInstr("MAKE_LIST", 2)>>) = 1
<1>1. BcInstr("MAKE_LIST", 2) \in Instrs /\ ~BcIsJump(BcInstr("MAKE_LIST", 2))
  BY DEF Instrs, BcInstr, BcIsJump
<1> QED BY <1>1, FitsOne

(* Code, one after the other, that is whole, is whole.                     *)
LEMMA WholeJoined ==
  ASSUME NEW at \in Nat, NEW c, WholeAt(c, at), NEW d, WholeAt(d, at + Len(c))
  PROVE  /\ WholeAt(c \o d, at) /\ Len(c \o d) = Len(c) + Len(d)
         /\ Len(c) \in Nat /\ Len(d) \in Nat
<1>1. Len(c) \in Nat /\ Len(d) \in Nat
  BY DEF WholeAt, Fits
<1> DEFINE to == at + Len(c) + Len(d)
<1>2. to \in Nat /\ at + Len(c) \in Nat /\ at + Len(c) <= to
  BY <1>1
<1>3. Fits(c, at, to) /\ Fits(d, at + Len(c), to)
  BY <1>2, FitsMore DEF WholeAt
<1>4. Fits(c \o d, at, to) /\ Len(c \o d) = Len(c) + Len(d)
  <2> HIDE DEF to
  <2> QED BY <1>2, <1>3, FitsJoined
<1>5. at + Len(c \o d) = to
  BY <1>1, <1>4
<1> QED BY <1>1, <1>4, <1>5 DEF WholeAt

LEMMA WholeNop ==
  ASSUME NEW op \in BareOpcodes, NEW at \in Nat
  PROVE  WholeAt(<<BcNop(op)>>, at) /\ Len(<<BcNop(op)>>) = 1
<1>1. at + 1 \in Nat
  OBVIOUS
<1> QED BY <1>1, NopFits DEF WholeAt

LEMMA WholePush ==
  ASSUME NEW v \in BcScalars, NEW at \in Nat
  PROVE  WholeAt(BcPush(v), at) /\ Len(BcPush(v)) = 1
<1>1. at + 1 \in Nat
  OBVIOUS
<1> QED BY <1>1, PushFits DEF WholeAt

LEMMA WholeChoice ==
  ASSUME NEW at \in Nat, NEW cond, WholeAt(cond, at), NEW start \in Nat,
         start = at + Len(cond) + 1, NEW then, WholeAt(then, start),
         NEW else \in Nat, else = start + Len(then) + 1, NEW last, WholeAt(last, else),
         NEW end, end = else + Len(last)
  PROVE  WholeAt(cond \o <<BcInstr("JUMP_IF_FALSE", else)>> \o then
                    \o <<BcInstr("JUMP", end)>> \o last, at)
<1> DEFINE j == <<BcInstr("JUMP_IF_FALSE", else)>>
           k == <<BcInstr("JUMP", end)>>
           lc == Len(cond)
           lt == Len(then)
           ll == Len(last)
<1>1. lc \in Nat /\ lt \in Nat /\ ll \in Nat
  BY DEF WholeAt, Fits
<1>2. /\ end \in Nat /\ at + lc \in Nat /\ at + lc <= end /\ start + lt \in Nat /\ start + lt <= end
      /\ at + lc < else /\ else <= end /\ start + lt < end
      /\ at + lc + 1 = start /\ start + lt + 1 = else
  BY <1>1
<1> HIDE DEF lc, lt, ll
<1>3. Fits(cond, at, end) /\ Fits(then, start, end) /\ Fits(last, else, end)
  BY <1>2, FitsMore DEF WholeAt, lc, lt, ll
<1>4. /\ Fits(j, at + lc, end) /\ Len(j) = 1
      /\ Fits(k, start + lt, end) /\ Len(k) = 1
  BY <1>2, JumpFits
<1> DEFINE A == cond \o j
           B == A \o then
           C == B \o k
           D == C \o last
<1> HIDE DEF j, k
<1>5. Fits(A, at, end) /\ Len(A) = lc + 1
  <2>1. Fits(j, at + Len(cond), end)
    BY <1>4 DEF lc
  <2>2. Fits(A, at, end) /\ Len(A) = Len(cond) + Len(j)
    BY <1>2, <1>3, <2>1, FitsJoined
  <2> QED BY <1>4, <2>2 DEF lc
<1>6. at + Len(A) = start
  BY <1>1, <1>2, <1>5
<1> HIDE DEF A
<1>7. Fits(B, at, end) /\ Len(B) = Len(A) + lt
  <2>1. Fits(then, at + Len(A), end)
    BY <1>3, <1>6
  <2>2. Fits(B, at, end) /\ Len(B) = Len(A) + Len(then)
    <3>1. at \in Nat /\ end \in Nat
      BY <1>2
    <3>2. Fits(A, at, end)
      BY <1>5
    <3> QED BY <2>1, <3>1, <3>2, FitsJoined
  <2> QED BY <1>4, <2>2 DEF lt
<1>8. at + Len(B) = start + lt
  BY <1>1, <1>2, <1>5, <1>7
<1> HIDE DEF B
<1>9. Fits(C, at, end) /\ Len(C) = Len(B) + 1
  <2>1. Fits(k, at + Len(B), end)
    BY <1>4, <1>8
  <2>2. Fits(C, at, end) /\ Len(C) = Len(B) + Len(k)
    <3>1. at \in Nat /\ end \in Nat
      BY <1>2
    <3>2. Fits(B, at, end)
      BY <1>7
    <3> QED BY <2>1, <3>1, <3>2, FitsJoined
  <2> QED BY <1>4, <2>2
<1>10. at + Len(C) = else
  BY <1>1, <1>2, <1>5, <1>7, <1>9
<1> HIDE DEF C
<1>11. Fits(D, at, end) /\ Len(D) = Len(C) + ll
  <2>1. Fits(last, at + Len(C), end)
    BY <1>3, <1>10
  <2>2. Fits(D, at, end) /\ Len(D) = Len(C) + Len(last)
    <3>1. at \in Nat /\ end \in Nat
      BY <1>2
    <3>2. Fits(C, at, end)
      BY <1>9
    <3> QED BY <2>1, <3>1, <3>2, FitsJoined
  <2> QED BY <1>4, <2>2 DEF ll
<1> HIDE DEF D
<1>12. at + Len(D) = end
  <2>1. end = else + ll
    BY DEF ll
  <2>2. Len(C) \in Nat
    BY <1>9 DEF Fits
  <2> QED BY <1>1, <1>2, <2>1, <2>2, <1>10, <1>11
<1>13. WholeAt(D, at)
  <2> QED BY <1>11, <1>12 DEF WholeAt
<1> QED BY <1>13 DEF A, B, C, D, j, k

(* The codes an expression gets, form by form.                             *)
LEMMA FormOf ==
  ASSUME NEW e, NEW at, NEW operand
  PROVE  /\ e.op = "lit" => BcForm(e, at, operand) = BcPush(e.value)
         /\ e.op = "variable" => BcForm(e, at, operand) = <<BcNop("PUSH_VAR")>>
         /\ e.op = "define" /\ e.args = << >> => BcForm(e, at, operand) = <<BcNop("HALT")>>
         /\ e.op = "define" /\ e.args # << >> =>
              BcForm(e, at, operand) = operand[1][at] \o <<BcNop("SET_VAR")>> \o BcPush(BcNull)
         /\ e.op = "not" => BcForm(e, at, operand) = operand[1][at] \o <<BcNop("NOT")>>
         /\ e.op = "do" =>
              BcForm(e, at, operand)
                = operand[1][at] \o <<BcNop("POP")>>
                    \o operand[2][at + Len(operand[1][at] \o <<BcNop("POP")>>)]
         /\ e.op = "list" =>
              BcForm(e, at, operand)
                = operand[1][at] \o operand[2][at + Len(operand[1][at])]
                    \o <<BcInstr("MAKE_LIST", 2)>>
         /\ e.op = "-" /\ Len(e.args) = 1 =>
              BcForm(e, at, operand)
                = BcPush(BcNum(0)) \o operand[1][at + 1] \o <<BcNop("SUB")>>
         /\ e.op \in {"+", "*", "<", "=", "and", "or"} \/ (e.op = "-" /\ Len(e.args) # 1) =>
              BcForm(e, at, operand)
                = operand[1][at] \o operand[2][at + Len(operand[1][at])]
                    \o <<BcNop(BcOpcode[e.op])>>
<1>1. e.op = "lit" => BcForm(e, at, operand) = BcPush(e.value)
  BY DEF BcForm
<1>2. e.op = "variable" => BcForm(e, at, operand) = <<BcNop("PUSH_VAR")>>
  BY DEF BcForm
<1>3. e.op = "define" /\ e.args = << >> => BcForm(e, at, operand) = <<BcNop("HALT")>>
  BY DEF BcForm
<1>4. e.op = "define" /\ e.args # << >> =>
        BcForm(e, at, operand) = operand[1][at] \o <<BcNop("SET_VAR")>> \o BcPush(BcNull)
  BY DEF BcForm
<1>5. e.op = "not" => BcForm(e, at, operand) = operand[1][at] \o <<BcNop("NOT")>>
  BY DEF BcForm
<1>6. e.op = "do" =>
        BcForm(e, at, operand)
          = operand[1][at] \o <<BcNop("POP")>>
              \o operand[2][at + Len(operand[1][at] \o <<BcNop("POP")>>)]
  BY DEF BcForm
<1>7. e.op = "list" =>
        BcForm(e, at, operand)
          = operand[1][at] \o operand[2][at + Len(operand[1][at])]
              \o <<BcInstr("MAKE_LIST", 2)>>
  BY DEF BcForm
<1>8. e.op = "-" /\ Len(e.args) = 1 =>
        BcForm(e, at, operand) = BcPush(BcNum(0)) \o operand[1][at + 1] \o <<BcNop("SUB")>>
  BY DEF BcForm
<1>9. ASSUME e.op \in {"+", "*", "<", "=", "and", "or"} \/ (e.op = "-" /\ Len(e.args) # 1)
      PROVE  BcForm(e, at, operand)
               = operand[1][at] \o operand[2][at + Len(operand[1][at])]
                    \o <<BcNop(BcOpcode[e.op])>>
  BY <1>9 DEF BcForm
<1> QED BY <1>1, <1>2, <1>3, <1>4, <1>5, <1>6, <1>7, <1>8, <1>9

Choosing(e, at, operand, cond, start, then, else, last) ==
  /\ cond = operand[1][at] /\ start = at + Len(cond) + 1
  /\ then = operand[2][start] /\ else = start + Len(then) + 1
  /\ last = IF Len(e.args) = 3 THEN operand[3][else] ELSE BcPush(BcNull)

ChoiceCode(e, at, operand, code) ==
  \E cond, start, then, else, last :
           /\ Choosing(e, at, operand, cond, start, then, else, last)
           /\ code = cond \o <<BcInstr("JUMP_IF_FALSE", else)>> \o then
                       \o <<BcInstr("JUMP", else + Len(last))>> \o last

LEMMA FormChoice ==
  ASSUME NEW e, NEW at, NEW operand, e.op = "if"
  PROVE  ChoiceCode(e, at, operand, BcForm(e, at, operand))
<1> DEFINE cond == operand[1][at]
           start == at + Len(cond) + 1
           then == operand[2][start]
           else == start + Len(then) + 1
           last == IF Len(e.args) = 3 THEN operand[3][else] ELSE BcPush(BcNull)
<1>1. BcForm(e, at, operand)
        = cond \o <<BcInstr("JUMP_IF_FALSE", else)>> \o then
               \o <<BcInstr("JUMP", else + Len(last))>> \o last
  BY DEF BcForm, BcElse
<1>2. Choosing(e, at, operand, cond, start, then, else, last)
  BY Zenon DEF Choosing
<1> HIDE DEF cond, start, then, else, last
<1> QED BY <1>1, <1>2, Zenon DEF ChoiceCode

LEMMA FormWhole ==
  ASSUME NEW e, NEW S, Shape(e, S), NEW operand,
         \A k \in DOMAIN e.args : \A at \in Nat : WholeAt(operand[k][at], at), NEW at \in Nat
  PROVE  WholeAt(BcForm(e, at, operand), at)
<1> DEFINE one == operand[1][at]
           c == BcForm(e, at, operand)
<1>1. ASSUME 1 \in DOMAIN e.args PROVE WholeAt(one, at) /\ at + Len(one) \in Nat
  <2>1. WholeAt(one, at)
    BY <1>1
  <2> QED BY <2>1 DEF WholeAt, Fits
<1> HIDE DEF one
<1>2. ASSUME NEW op \in BareOpcodes, NEW d, WholeAt(d, at)
      PROVE  WholeAt(d \o <<BcNop(op)>>, at) /\ Len(d \o <<BcNop(op)>>) = Len(d) + 1
               /\ at + Len(d \o <<BcNop(op)>>) \in Nat
  <2>1. at + Len(d) \in Nat
    BY <1>2 DEF WholeAt, Fits
  <2>2. WholeAt(<<BcNop(op)>>, at + Len(d)) /\ Len(<<BcNop(op)>>) = 1
    BY <2>1, WholeNop
  <2>3. /\ WholeAt(d \o <<BcNop(op)>>, at)
        /\ Len(d \o <<BcNop(op)>>) = Len(d) + Len(<<BcNop(op)>>) /\ Len(d) \in Nat
    BY <1>2, <2>2, WholeJoined
  <2>4. Len(d \o <<BcNop(op)>>) = Len(d) + 1
    BY <2>2, <2>3
  <2> DEFINE m == Len(d \o <<BcNop(op)>>)
  <2>5. at + m \in Nat
    <3>1. m = Len(d) + 1 /\ Len(d) \in Nat
      BY <2>3, <2>4
    <3> HIDE DEF m
    <3> QED BY <3>1
  <2> QED BY <2>3, <2>4, <2>5
<1>3. ASSUME 2 \in DOMAIN e.args, NEW d, WholeAt(d, at), at + Len(d) \in Nat
      PROVE  WholeAt(d \o operand[2][at + Len(d)], at)
  <2>1. WholeAt(operand[2][at + Len(d)], at + Len(d))
    BY <1>3
  <2> QED BY <1>3, <2>1, WholeJoined
<1>4. CASE e.op = "lit" /\ e.args = << >> /\ e.value \in BcScalars
  BY <1>4, FormOf, WholePush
<1>5. CASE e.op = "variable" /\ e.args = << >>
  <2>1. WholeAt(<<BcNop("PUSH_VAR")>>, at)
    BY WholeNop DEF BareOpcodes
  <2> QED BY <1>5, <2>1, FormOf
<1>6. CASE e.op = "define" /\ e.args = << >>
  <2>1. WholeAt(<<BcNop("HALT")>>, at)
    BY WholeNop DEF BareOpcodes
  <2> QED BY <1>6, <2>1, FormOf
<1>7. CASE e.op \in {"define", "not", "-"} /\ \E a \in S : e.args = <<a>>
  <2>1. 1 \in DOMAIN e.args /\ e.args # << >> /\ Len(e.args) = 1
    BY <1>7
  <2>2. CASE e.op = "define"
    <3> DEFINE d == one \o <<BcNop("SET_VAR")>>
    <3>1. "SET_VAR" \in BareOpcodes
      BY DEF BareOpcodes
    <3>2. WholeAt(d, at) /\ at + Len(d) \in Nat
      BY <1>1, <1>2, <2>1, <3>1
    <3> HIDE DEF d
    <3>3. WholeAt(BcPush(BcNull), at + Len(d))
      BY <3>2, WholePush, Scalars
    <3>4. WholeAt(d \o BcPush(BcNull), at)
      BY <3>2, <3>3, WholeJoined
    <3>5. c = d \o BcPush(BcNull)
      BY <2>1, <2>2, FormOf DEF d, one
    <3> QED BY <3>4, <3>5
  <2>3. CASE e.op = "not"
    <3>1. "NOT" \in BareOpcodes
      BY DEF BareOpcodes
    <3>2. WholeAt(one \o <<BcNop("NOT")>>, at)
      BY <1>1, <1>2, <2>1, <3>1
    <3>3. c = one \o <<BcNop("NOT")>>
      BY <2>3, FormOf DEF one
    <3> QED BY <3>2, <3>3
  <2>4. CASE e.op = "-"
    <3> DEFINE zero == BcPush(BcNum(0))
               d == zero \o operand[1][at + 1]
    <3>1. "SUB" \in BareOpcodes
      BY DEF BareOpcodes
    <3>2. WholeAt(zero, at) /\ Len(zero) = 1
      BY WholePush, Scalars
    <3> HIDE DEF zero
    <3>3. WholeAt(operand[1][at + 1], at + 1)
      BY <2>1
    <3>4. WholeAt(d, at)
      BY <3>2, <3>3, WholeJoined
    <3> HIDE DEF d
    <3>5. WholeAt(d \o <<BcNop("SUB")>>, at)
      BY <1>2, <3>1, <3>4
    <3>6. c = d \o <<BcNop("SUB")>>
      BY <2>1, <2>4, FormOf DEF d, zero
    <3> QED BY <3>5, <3>6
  <2> QED BY <1>7, <2>2, <2>3, <2>4
<1>8. CASE /\ e.op \in {"do", "list", "if", "+", "-", "*", "<", "=", "and", "or"}
           /\ \/ \E a \in S : \E b \in S : e.args = <<a, b>>
              \/ /\ e.op \in {"if", "+"}
                 /\ \E a \in S : \E b \in S : \E third \in S : e.args = <<a, b, third>>
  <2>1. /\ 1 \in DOMAIN e.args /\ 2 \in DOMAIN e.args /\ Len(e.args) \in {2, 3}
        /\ Len(e.args) = 3 => 3 \in DOMAIN e.args
    <3>1. CASE \E a \in S : \E b \in S : e.args = <<a, b>>
      BY <3>1
    <3>2. CASE \E a \in S : \E b \in S : \E third \in S : e.args = <<a, b, third>>
      BY <3>2
    <3> QED BY <1>8, <3>1, <3>2
  <2>2. WholeAt(one, at) /\ at + Len(one) \in Nat
    BY <1>1, <2>1
  <2> DEFINE both == one \o operand[2][at + Len(one)]
  <2>3. WholeAt(both, at) /\ at + Len(both) \in Nat
    <3>1. WholeAt(both, at)
      BY <1>3, <2>1, <2>2
    <3> HIDE DEF both
    <3> QED BY <3>1 DEF WholeAt, Fits
  <2> HIDE DEF both
  <2>4. CASE e.op = "do"
    <3> DEFINE d == one \o <<BcNop("POP")>>
    <3>1. "POP" \in BareOpcodes
      BY DEF BareOpcodes
    <3>2. WholeAt(d, at) /\ at + Len(d) \in Nat
      BY <1>2, <2>2, <3>1
    <3>3. c = d \o operand[2][at + Len(d)]
      BY <2>4, FormOf DEF one
    <3> HIDE DEF d
    <3>4. WholeAt(d \o operand[2][at + Len(d)], at)
      BY <1>3, <2>1, <3>2
    <3> QED BY <3>3, <3>4
  <2>5. CASE e.op = "list"
    <3> DEFINE j == <<BcInstr("MAKE_LIST", 2)>>
    <3>1. WholeAt(j, at + Len(both))
      <4>1. at + Len(both) + 1 \in Nat
        BY <2>3
      <4> QED BY <2>3, <4>1, ListFits DEF WholeAt
    <3> HIDE DEF j
    <3>2. WholeAt(both \o j, at)
      BY <2>3, <3>1, WholeJoined
    <3>3. c = both \o j
      BY <2>5, FormOf DEF both, one, j
    <3> QED BY <3>2, <3>3
  <2>6. CASE e.op \in {"+", "-", "*", "<", "=", "and", "or"}
    <3>1. BcOpcode[e.op] \in BareOpcodes
      BY <2>6 DEF BcOpcode, BareOpcodes
    <3>2. WholeAt(both \o <<BcNop(BcOpcode[e.op])>>, at)
      BY <1>2, <2>3, <3>1
    <3>3. e.op \in {"+", "*", "<", "=", "and", "or"} \/ (e.op = "-" /\ Len(e.args) # 1)
      BY <2>1, <2>6
    <3>4. c = both \o <<BcNop(BcOpcode[e.op])>>
      BY <3>3, FormOf DEF both, one
    <3> QED BY <3>2, <3>4
  <2>7. CASE e.op = "if"
    <3>0. ChoiceCode(e, at, operand, c)
      BY <2>7, FormChoice
    <3> HIDE DEF c
    <3>1. PICK cond, start, then, else, last :
           /\ Choosing(e, at, operand, cond, start, then, else, last)
           /\ c = cond \o <<BcInstr("JUMP_IF_FALSE", else)>> \o then
                       \o <<BcInstr("JUMP", else + Len(last))>> \o last
      BY <3>0, Zenon DEF ChoiceCode
    <3>a. cond = operand[1][at] /\ start = at + Len(cond) + 1
      BY <3>1, Zenon DEF Choosing
    <3>b. then = operand[2][start] /\ else = start + Len(then) + 1
      BY <3>1, Zenon DEF Choosing
    <3>c. last = IF Len(e.args) = 3 THEN operand[3][else] ELSE BcPush(BcNull)
      BY <3>1, Zenon DEF Choosing
    <3>2. WholeAt(cond, at) /\ at + Len(cond) \in Nat
      BY <2>2, <3>a DEF one
    <3>3. start \in Nat
      BY <3>a, <3>2
    <3>4. WholeAt(then, start)
      BY <2>1, <3>b, <3>3
    <3>5. Len(then) \in Nat
      BY <3>4 DEF WholeAt, Fits
    <3>6. else \in Nat
      BY <3>b, <3>3, <3>5
    <3>7. WholeAt(last, else)
      <4>1. CASE Len(e.args) = 3
        <5>1. WholeAt(operand[3][else], else)
          BY <2>1, <3>6, <4>1
        <5> QED BY <3>c, <4>1, <5>1
      <4>2. CASE Len(e.args) # 3
        <5>1. WholeAt(BcPush(BcNull), else)
          BY <3>6, WholePush, Scalars
        <5> QED BY <3>c, <4>2, <5>1
      <4> QED BY <4>1, <4>2
    <3> DEFINE end == else + Len(last)
    <3>8. start = at + Len(cond) + 1 /\ else = start + Len(then) + 1 /\ end = else + Len(last)
      BY <3>a, <3>b
    <3> HIDE DEF end
    <3>9. WholeAt(cond \o <<BcInstr("JUMP_IF_FALSE", else)>> \o then
                    \o <<BcInstr("JUMP", end)>> \o last, at)
      BY <3>2, <3>3, <3>4, <3>6, <3>7, <3>8, WholeChoice
    <3>10. c = cond \o <<BcInstr("JUMP_IF_FALSE", else)>> \o then
                    \o <<BcInstr("JUMP", end)>> \o last
      BY <3>1, Zenon DEF end
    <3>11. WholeAt(c, at)
      BY <3>9, <3>10, Zenon
    <3> QED BY <3>11 DEF c
  <2> QED BY <1>8, <2>4, <2>5, <2>6, <2>7
<1> QED BY <1>4, <1>5, <1>6, <1>7, <1>8 DEF Shape

LEMMA CodeWhole ==
  \A e \in BcExprs : \A at \in Nat : WholeAt(BcCode[e][at], at)
<1> DEFINE IsWhole(e) == \A at \in Nat : WholeAt(BcCode[e][at], at)
<1>1. ASSUME NEW S, NEW e \in BcExprs, Shape(e, S), \A d \in S : IsWhole(d)
      PROVE  IsWhole(e)
  <2> DEFINE operand == [k \in DOMAIN e.args |-> BcCode[e.args[k]]]
  <2>1. \A k \in DOMAIN e.args : operand[k] = BcCode[e.args[k]] /\ e.args[k] \in S
    BY <1>1, ShapeArgs
  <2> HIDE DEF operand
  <2>2. \A k \in DOMAIN e.args : \A at \in Nat : WholeAt(operand[k][at], at)
    BY <1>1, <2>1
  <2> SUFFICES ASSUME NEW at \in Nat PROVE WholeAt(BcCode[e][at], at)
    OBVIOUS
  <2>3. WholeAt(BcForm(e, at, operand), at)
    BY <1>1, <2>2, FormWhole
  <2>4. BcCode[e][at] = BcForm(e, at, operand)
    BY CodeOf DEF operand
  <2> QED BY <2>3, <2>4
<1> HIDE DEF IsWhole
<1>2. \A e \in Leaves : IsWhole(e)
  BY <1>1, LeafShape, Inside
<1>3. \A e \in Simple : IsWhole(e)
  BY <1>1, <1>2, SimpleShape, Inside
<1>4. \A e \in Chosen : IsWhole(e)
  BY <1>1, <1>3, ChosenShape, Inside
<1>5. \A e \in Operands : IsWhole(e)
  BY <1>1, <1>4, OperandShape, Inside
<1>6. \A e \in BcExprs : IsWhole(e)
  BY <1>1, <1>5, ExprShape
<1> QED BY <1>6 DEF IsWhole

(* What the compiler gives the machine.                                    *)
LEMMA Compiled ==
  ASSUME NEW e \in BcPrograms
  PROVE  CodeOK(BcCompile(e)) /\ Forward(BcCompile(e))
<1> DEFINE c == BcCode[e][1]
           h == <<BcNop("HALT")>>
           d == c \o h
<1>1. WholeAt(c, 1) /\ c \in Seq(Instrs) /\ Len(c) \in Nat
  <2>1. WholeAt(c, 1)
    <3>1. e \in BcExprs /\ 1 \in Nat
      BY Inside
    <3> QED BY <3>1, CodeWhole
  <2> HIDE DEF c
  <2> QED BY <2>1 DEF WholeAt, Fits
<1> DEFINE to == Len(c) + 1
<1> HIDE DEF c
<1>2. /\ Fits(h, 1 + Len(c), to) /\ Len(h) = 1 /\ h[1].op = "HALT" /\ h \in Seq(Instrs)
      /\ to \in Nat
  <2>1. "HALT" \in BareOpcodes /\ 1 + Len(c) \in Nat /\ to \in Nat
    BY <1>1 DEF BareOpcodes
  <2>2. Fits(h, 1 + Len(c), to) /\ Len(h) = 1
    <3> HIDE DEF to
    <3> QED BY <2>1, NopFits
  <2>3. h[1].op = "HALT"
    BY DEF BcNop, BcInstr
  <2> HIDE DEF h
  <2> QED BY <2>1, <2>2, <2>3 DEF Fits
<1> HIDE DEF h
<1>3. Fits(d, 1, to) /\ Len(d) = Len(c) + Len(h)
  <2>1. Fits(c, 1, to)
    <3>1. to = 1 + Len(c)
      BY <1>1
    <3> QED BY <1>1, <3>1 DEF WholeAt
  <2>2. PICK at \in Nat : at = 1
    OBVIOUS
  <2>3. Fits(c, at, to) /\ Fits(h, at + Len(c), to) /\ to \in Nat
    BY <1>2, <2>1, <2>2
  <2> HIDE DEF to
  <2>4. Fits(d, at, to) /\ Len(d) = Len(c) + Len(h)
    BY <2>3, FitsJoined
  <2> QED BY <2>2, <2>4
<1>4. d[Len(c) + 1] = h[1]
  <2>1. \A k \in 1 .. Len(c) + Len(h) : d[k] = IF k <= Len(c) THEN c[k] ELSE h[k - Len(c)]
    BY <1>1, <1>2, ConcatProperties
  <2>2. Len(c) + 1 \in 1 .. Len(c) + Len(h) /\ ~(Len(c) + 1 <= Len(c)) /\ (Len(c) + 1) - Len(c) = 1
    BY <1>1, <1>2
  <2> HIDE DEF d
  <2> QED BY <2>1, <2>2
<1>5. BcCompile(e) = d
  BY DEF BcCompile, c, h
<1> HIDE DEF d
<1>6. d \in Seq(Instrs) /\ Len(d) = to /\ to > 0
  BY <1>1, <1>2, <1>3 DEF Fits
<1>7. CodeOK(d)
  BY <1>1, <1>2, <1>4, <1>6 DEF CodeOK
<1>8. Forward(d)
  <2> SUFFICES ASSUME NEW k \in 1 .. Len(d), BcIsJump(d[k]) PROVE d[k].arg \in k + 1 .. Len(d)
    BY <1>6 DEF Forward
  <2>1. d[k].arg \in 1 + k .. to
    BY <1>3 DEF Fits
  <2> QED BY <1>6, <2>1
<1> QED BY <1>5, <1>7, <1>8

-----------------------------------------------------------------------------
(* The invariant, and what follows from it.                                *)

(* What the machine would answer with to the code as it was compiled, where *)
(* the interpreter knows a variable.                                       *)
CompiledAnswer(program, known) ==
  LET ran == BcRun(BcCompile(program))
  IN  IF ran = BcThrown THEN BcInterpreted(program, known) ELSE ran.value

BcInv ==
  /\ bc_program \in BcPrograms /\ bc_known \in BcScalars
  /\ bc_pass \in 1 .. 6 /\ bc_entered \in BOOLEAN
  /\ CodeOK(bc_code)
  /\ ~bc_entered => /\ Forward(bc_code)
                    /\ BcRun(bc_code) = BcRun(BcCompile(bc_program))
  /\ bc_pass = 6 /\ ~bc_entered => bc_answer = CompiledAnswer(bc_program, bc_known)

LEMMA RewriteStep ==
  ASSUME BcInv, BcRewrite
  PROVE  BcInv' /\ (bc_entered' = bc_entered => bc_entered \/ BcRun(bc_code') = BcRun(bc_code))
<1> DEFINE pass == BcPasses[bc_pass]
           places == BcMatches(pass, bc_code)
           i == BcFirst(places)
<1>1. /\ bc_pass \in DOMAIN BcPasses /\ places # {}
      /\ bc_code' = BcRewritten(pass, bc_code, i)
      /\ bc_entered' = (bc_entered \/ BcEntered(pass, bc_code, i))
      /\ bc_program' = bc_program /\ bc_known' = bc_known /\ bc_pass' = bc_pass
  BY DEF BcRewrite
<1>2. bc_pass \in 1 .. 4
  BY <1>1 DEF BcPasses
<1>3. pass \in Range(BcPasses)
  BY <1>1 DEF Range
<1>4. i \in places
  <2>1. places \in SUBSET Nat
    <3>1. places \in SUBSET DOMAIN bc_code
      BY Zenon DEF BcMatches
    <3>2. DOMAIN bc_code \in SUBSET Nat
      BY DEF BcInv, CodeOK
    <3> HIDE DEF places
    <3> QED BY <3>1, <3>2
  <2> HIDE DEF places
  <2> QED BY <1>1, <2>1, First
<1>5. CodeOK(bc_code)
  BY DEF BcInv
<1> DEFINE entered == BcEntered(pass, bc_code, i)
<1>6. entered \in BOOLEAN
  BY DEF BcEntered
<1> HIDE DEF pass, i
<1>7. /\ CodeOK(bc_code')
      /\ Forward(bc_code) /\ ~entered => Forward(bc_code') /\ BcRun(bc_code') = BcRun(bc_code)
  BY <1>1, <1>3, <1>4, <1>5, Rewritten
<1> HIDE DEF entered
<1>8. /\ bc_entered \in BOOLEAN /\ bc_program \in BcPrograms /\ bc_known \in BcScalars
      /\ ~bc_entered => Forward(bc_code) /\ BcRun(bc_code) = BcRun(BcCompile(bc_program))
  BY DEF BcInv
<1>9. bc_entered' \in BOOLEAN /\ (bc_entered' <=> (bc_entered \/ entered))
  BY <1>1, <1>6, <1>8 DEF entered
<1>10. bc_pass' \in 1 .. 6 /\ bc_pass' # 6
  BY <1>1, <1>2
<1>11. ~bc_entered' => Forward(bc_code') /\ BcRun(bc_code') = BcRun(BcCompile(bc_program'))
  BY <1>1, <1>7, <1>8, <1>9
<1>12. BcInv'
  BY <1>1, <1>7, <1>8, <1>9, <1>10, <1>11 DEF BcInv
<1>13. ASSUME bc_entered' = bc_entered PROVE bc_entered \/ BcRun(bc_code') = BcRun(bc_code)
  BY <1>7, <1>8, <1>9, <1>13
<1> QED BY <1>12, <1>13

LEMMA BcInvInit == BcInit => BcInv
<1> SUFFICES ASSUME BcInit PROVE BcInv
  OBVIOUS
<1>1. /\ bc_program \in BcPrograms /\ bc_code = BcCompile(bc_program) /\ bc_pass = 1
      /\ bc_entered = FALSE /\ bc_known \in {BcUnset} \cup {BcNum(n) : n \in BcLiterals}
  BY DEF BcInit
<1>2. CodeOK(bc_code) /\ Forward(bc_code)
  BY <1>1, Compiled
<1>3. bc_pass \in 1 .. 6 /\ bc_pass # 6
  BY <1>1
<1>4. BcRun(bc_code) = BcRun(BcCompile(bc_program))
  BY <1>1
<1>5. bc_known \in BcScalars
  BY <1>1, BytecodeAssumption, Scalars DEF BcUnset
<1> QED BY <1>1, <1>2, <1>3, <1>4, <1>5, Zenon DEF BcInv

LEMMA BcInvNext == BcInv /\ [BcNext]_bc_vars => BcInv'
<1> SUFFICES ASSUME BcInv, [BcNext]_bc_vars PROVE BcInv'
  OBVIOUS
<1>1. CASE BcRewrite
  BY <1>1, RewriteStep
<1>2. CASE BcNextPass
  <2>1. /\ bc_program' = bc_program /\ bc_known' = bc_known /\ bc_code' = bc_code
        /\ bc_entered' = bc_entered /\ bc_pass' = bc_pass + 1 /\ bc_pass \in 1 .. 4
    BY <1>2 DEF BcNextPass, BcPasses
  <2>2. bc_pass' \in 1 .. 6 /\ bc_pass' # 6
    BY <2>1
  <2> QED BY <2>1, <2>2 DEF BcInv
<1>3. CASE BcAnswer
  <2>1. /\ bc_program' = bc_program /\ bc_known' = bc_known /\ bc_code' = bc_code
        /\ bc_entered' = bc_entered /\ bc_pass' = 6
        /\ bc_answer' = IF BcRun(bc_code) = BcThrown THEN BcInterpreted(bc_program, bc_known)
                        ELSE BcRun(bc_code).value
    BY <1>3 DEF BcAnswer, BcFallback
  <2>2. ~bc_entered => bc_answer' = CompiledAnswer(bc_program, bc_known)
    BY <2>1 DEF BcInv, CompiledAnswer
  <2> QED BY <2>1, <2>2 DEF BcInv
<1>4. CASE UNCHANGED bc_vars
  BY <1>4 DEF BcInv, bc_vars
<1> QED BY <1>1, <1>2, <1>3, <1>4 DEF BcNext

LEMMA BcInvTypes == BcInv => BcTypeOK
<1> SUFFICES ASSUME BcInv PROVE BcTypeOK
  OBVIOUS
<1>1. CodeOK(bc_code) /\ (~bc_entered => Forward(bc_code))
  BY DEF BcInv
<1>2. ASSUME NEW k \in DOMAIN bc_code
      PROVE  /\ bc_code[k].op \in BcOpcodes
             /\ BcIsJump(bc_code[k]) /\ ~bc_entered => bc_code[k].arg \in k + 1 .. Len(bc_code)
  <2>1. bc_code[k] \in Instrs
    BY <1>1 DEF CodeOK
  <2>2. bc_code[k].op \in BcOpcodes
    BY <2>1, InstrKinds
  <2> QED BY <1>1, <2>2 DEF Forward
<1> QED BY <1>1, <1>2 DEF BcInv, BcTypeOK, CodeOK

(* What the machine runs is known instructions, its jumps lead forward and *)
(* it ends with a HALT, however it was rewritten (compiler.ts, optimizer). *)
THEOREM BytecodeTypes == BcSpec => []BcTypeOK
<1>1. BcSpec => []BcInv
  BY BcInvInit, BcInvNext, PTL DEF BcSpec
<1> QED BY <1>1, BcInvTypes, PTL

(* A rewriting no jump leads into changes neither the value nor the stack  *)
(* (the passes of the optimizer).                                          *)
THEOREM RewritesAgree == BcSpec => BcRewriteSafe
<1>1. BcSpec => []BcInv
  BY BcInvInit, BcInvNext, PTL DEF BcSpec
<1>2. ASSUME BcInv, [BcNext]_bc_vars
      PROVE  [(BcRewrite /\ bc_entered' = bc_entered) =>
                bc_entered \/ BcRun(bc_code') = BcRun(bc_code)]_bc_vars
  BY <1>2, RewriteStep
<1> QED BY <1>1, <1>2, PTL DEF BcSpec, BcRewriteSafe

-----------------------------------------------------------------------------
(* What an expression evaluates to is given by its operands.               *)

Eval0(e) == [var \in BcScalars |-> BcResult(e, var, [k \in DOMAIN e.args |-> << >>])]
Eval1(e) == [var \in BcScalars |-> BcResult(e, var, [k \in DOMAIN e.args |-> Eval0(e.args[k])])]
Eval2(e) == [var \in BcScalars |-> BcResult(e, var, [k \in DOMAIN e.args |-> Eval1(e.args[k])])]
Eval3(e) == [var \in BcScalars |-> BcResult(e, var, [k \in DOMAIN e.args |-> Eval2(e.args[k])])]
Eval4(e) == [var \in BcScalars |-> BcResult(e, var, [k \in DOMAIN e.args |-> Eval3(e.args[k])])]

LEMMA EvalSettles ==
  /\ \A e \in Leaves : Eval1(e) = Eval0(e)
  /\ \A e \in Simple : Eval2(e) = Eval1(e)
  /\ \A e \in Chosen : Eval3(e) = Eval2(e)
  /\ \A e \in Operands : Eval4(e) = Eval3(e)
<1>1. ASSUME NEW e \in Leaves PROVE Eval1(e) = Eval0(e)
  <2>1. e.args = << >>
    BY LeafShape
  <2>2. [k \in DOMAIN e.args |-> Eval0(e.args[k])] = [k \in DOMAIN e.args |-> << >>]
    BY <2>1
  <2> QED BY <2>2, Zenon DEF Eval1, Eval0
<1>2. ASSUME NEW e \in Simple PROVE Eval2(e) = Eval1(e)
  <2>1. \A k \in DOMAIN e.args : Eval1(e.args[k]) = Eval0(e.args[k])
    BY <1>1, SimpleShape, ShapeArgs
  <2>2. [k \in DOMAIN e.args |-> Eval1(e.args[k])] = [k \in DOMAIN e.args |-> Eval0(e.args[k])]
    BY <2>1
  <2> QED BY <2>2, Zenon DEF Eval1, Eval2
<1>3. ASSUME NEW e \in Chosen PROVE Eval3(e) = Eval2(e)
  <2>1. \A k \in DOMAIN e.args : Eval2(e.args[k]) = Eval1(e.args[k])
    BY <1>2, ChosenShape, ShapeArgs
  <2>2. [k \in DOMAIN e.args |-> Eval2(e.args[k])] = [k \in DOMAIN e.args |-> Eval1(e.args[k])]
    BY <2>1
  <2> QED BY <2>2, Zenon DEF Eval2, Eval3
<1>4. ASSUME NEW e \in Operands PROVE Eval4(e) = Eval3(e)
  <2>1. \A k \in DOMAIN e.args : Eval3(e.args[k]) = Eval2(e.args[k])
    BY <1>3, OperandShape, ShapeArgs
  <2>2. [k \in DOMAIN e.args |-> Eval3(e.args[k])] = [k \in DOMAIN e.args |-> Eval2(e.args[k])]
    BY <2>1
  <2> QED BY <2>2, Zenon DEF Eval3, Eval4
<1> QED BY <1>1, <1>2, <1>3, <1>4

LEMMA EvalExists ==
  \E f : f = [e \in BcExprs |-> [var \in BcScalars |-> BcResult(e, var, [k \in DOMAIN e.args |-> f[e.args[k]]])]]
<1> DEFINE f == [e \in BcExprs |-> Eval4(e)]
<1>1. ASSUME NEW e \in BcExprs
      PROVE  f[e] = [var \in BcScalars |-> BcResult(e, var, [k \in DOMAIN e.args |-> f[e.args[k]]])]
  <2>1. \A k \in DOMAIN e.args : e.args[k] \in Operands
    BY ExprShape, ShapeArgs
  <2>2. \A k \in DOMAIN e.args : f[e.args[k]] = Eval3(e.args[k])
    BY <2>1, Inside, EvalSettles
  <2>3. [k \in DOMAIN e.args |-> f[e.args[k]]] = [k \in DOMAIN e.args |-> Eval3(e.args[k])]
    <3> HIDE DEF f
    <3> QED BY <2>2
  <2>4. f[e] = Eval4(e)
    OBVIOUS
  <2> HIDE DEF f
  <2> QED BY <2>3, <2>4, Zenon DEF Eval4
<1>2. f = [e \in BcExprs |-> f[e]]
  OBVIOUS
<1> HIDE DEF f
<1>3. f = [e \in BcExprs |-> [var \in BcScalars |-> BcResult(e, var, [k \in DOMAIN e.args |-> f[e.args[k]]])]]
  BY <1>1, <1>2
<1> QED BY <1>3

LEMMA EvalOf ==
  ASSUME NEW e \in BcExprs, NEW var \in BcScalars
  PROVE  BcEval[e][var] = BcResult(e, var, [k \in DOMAIN e.args |-> BcEval[e.args[k]]])
<1> DEFINE Is(f) == f = [d \in BcExprs |->
             [w \in BcScalars |-> BcResult(d, w, [k \in DOMAIN d.args |-> f[d.args[k]]])]]
           c == CHOOSE f : Is(f)
<1>1. BcEval = c
  BY Zenon DEF BcEval
<1>2. Is(c)
  BY EvalExists, Zenon
<1> HIDE DEF c
<1>3. c[e] = [w \in BcScalars |-> BcResult(e, w, [k \in DOMAIN e.args |-> c[e.args[k]]])]
  BY <1>2, Zenon
<1>4. c[e][var] = BcResult(e, var, [k \in DOMAIN e.args |-> c[e.args[k]]])
  BY <1>3, Zenon
<1> QED BY <1>1, <1>4, Zenon

Plain0(e) == BcWhole(e, [k \in DOMAIN e.args |-> TRUE])
Plain1(e) == BcWhole(e, [k \in DOMAIN e.args |-> Plain0(e.args[k])])
Plain2(e) == BcWhole(e, [k \in DOMAIN e.args |-> Plain1(e.args[k])])
Plain3(e) == BcWhole(e, [k \in DOMAIN e.args |-> Plain2(e.args[k])])
Plain4(e) == BcWhole(e, [k \in DOMAIN e.args |-> Plain3(e.args[k])])

LEMMA PlainSettles ==
  /\ \A e \in Leaves : Plain1(e) = Plain0(e)
  /\ \A e \in Simple : Plain2(e) = Plain1(e)
  /\ \A e \in Chosen : Plain3(e) = Plain2(e)
  /\ \A e \in Operands : Plain4(e) = Plain3(e)
<1>1. ASSUME NEW e \in Leaves PROVE Plain1(e) = Plain0(e)
  <2>1. e.args = << >>
    BY LeafShape
  <2>2. [k \in DOMAIN e.args |-> Plain0(e.args[k])] = [k \in DOMAIN e.args |-> TRUE]
    BY <2>1
  <2> QED BY <2>2, Zenon DEF Plain1, Plain0
<1>2. ASSUME NEW e \in Simple PROVE Plain2(e) = Plain1(e)
  <2>1. \A k \in DOMAIN e.args : Plain1(e.args[k]) = Plain0(e.args[k])
    BY <1>1, SimpleShape, ShapeArgs
  <2>2. [k \in DOMAIN e.args |-> Plain1(e.args[k])] = [k \in DOMAIN e.args |-> Plain0(e.args[k])]
    BY <2>1
  <2> QED BY <2>2, Zenon DEF Plain1, Plain2
<1>3. ASSUME NEW e \in Chosen PROVE Plain3(e) = Plain2(e)
  <2>1. \A k \in DOMAIN e.args : Plain2(e.args[k]) = Plain1(e.args[k])
    BY <1>2, ChosenShape, ShapeArgs
  <2>2. [k \in DOMAIN e.args |-> Plain2(e.args[k])] = [k \in DOMAIN e.args |-> Plain1(e.args[k])]
    BY <2>1
  <2> QED BY <2>2, Zenon DEF Plain2, Plain3
<1>4. ASSUME NEW e \in Operands PROVE Plain4(e) = Plain3(e)
  <2>1. \A k \in DOMAIN e.args : Plain3(e.args[k]) = Plain2(e.args[k])
    BY <1>3, OperandShape, ShapeArgs
  <2>2. [k \in DOMAIN e.args |-> Plain3(e.args[k])] = [k \in DOMAIN e.args |-> Plain2(e.args[k])]
    BY <2>1
  <2> QED BY <2>2, Zenon DEF Plain3, Plain4
<1> QED BY <1>1, <1>2, <1>3, <1>4

LEMMA PlainExists ==
  \E f : f = [e \in BcExprs |-> BcWhole(e, [k \in DOMAIN e.args |-> f[e.args[k]]])]
<1> DEFINE f == [e \in BcExprs |-> Plain4(e)]
<1>1. ASSUME NEW e \in BcExprs
      PROVE  f[e] = BcWhole(e, [k \in DOMAIN e.args |-> f[e.args[k]]])
  <2>1. \A k \in DOMAIN e.args : e.args[k] \in Operands
    BY ExprShape, ShapeArgs
  <2>2. \A k \in DOMAIN e.args : f[e.args[k]] = Plain3(e.args[k])
    BY <2>1, Inside, PlainSettles
  <2>3. [k \in DOMAIN e.args |-> f[e.args[k]]] = [k \in DOMAIN e.args |-> Plain3(e.args[k])]
    <3> HIDE DEF f
    <3> QED BY <2>2
  <2>4. f[e] = Plain4(e)
    OBVIOUS
  <2> HIDE DEF f
  <2> QED BY <2>3, <2>4, Zenon DEF Plain4
<1>2. f = [e \in BcExprs |-> f[e]]
  OBVIOUS
<1> HIDE DEF f
<1>3. f = [e \in BcExprs |-> BcWhole(e, [k \in DOMAIN e.args |-> f[e.args[k]]])]
  BY <1>1, <1>2
<1> QED BY <1>3

LEMMA PlainOf ==
  ASSUME NEW e \in BcExprs
  PROVE  BcPlain[e] = BcWhole(e, [k \in DOMAIN e.args |-> BcPlain[e.args[k]]])
<1> DEFINE Is(f) == f = [d \in BcExprs |-> BcWhole(d, [k \in DOMAIN d.args |-> f[d.args[k]]])]
           c == CHOOSE f : Is(f)
<1>1. BcPlain = c
  BY Zenon DEF BcPlain
<1>2. Is(c)
  BY PlainExists, Zenon
<1> HIDE DEF c
<1>3. c[e] = BcWhole(e, [k \in DOMAIN e.args |-> c[e.args[k]]])
  BY <1>2, Zenon
<1> QED BY <1>1, <1>3, Zenon

-----------------------------------------------------------------------------
(* Code within code: what it leaves on the stack.                          *)

(* Code that stands in the code from a place on.                           *)
Held(code, c, at) ==
  \A k \in 1 .. Len(c) : at - 1 + k \in 1 .. Len(code) /\ code[at - 1 + k] = c[k]

(* A machine that comes to a state goes on to another.                     *)
Reach(code, s, t) ==
  (\E m \in Nat : BcTrace(code)[m] = s) => \E n \in Nat : BcTrace(code)[n] = t

LEMMA ReachOn ==
  ASSUME NEW code, NEW s, NEW t, NEW u, Reach(code, s, t), Reach(code, t, u)
  PROVE  Reach(code, s, u)
BY DEF Reach

LEMMA ReachStep ==
  ASSUME NEW code, NEW s PROVE Reach(code, s, BcStep(code, s))
<1>1. \A m \in Nat : BcTrace(code)[m + 1] = BcStep(code, BcTrace(code)[m])
  BY Trace
<1>2. \A m \in Nat : m + 1 \in Nat
  OBVIOUS
<1> QED BY <1>1, <1>2 DEF Reach

LEMMA HeldOne ==
  ASSUME NEW code, NEW j, NEW at \in Nat, Held(code, <<j>>, at)
  PROVE  at \in 1 .. Len(code) /\ code[at] = j
<1>1. Len(<<j>>) = 1 /\ <<j>>[1] = j
  OBVIOUS
<1> DEFINE c == <<j>>
<1> HIDE DEF c
<1>2. 1 \in 1 .. Len(c) /\ at - 1 + 1 = at
  BY <1>1 DEF c
<1>3. at - 1 + 1 \in 1 .. Len(code) /\ code[at - 1 + 1] = c[1]
  BY <1>2 DEF Held, c
<1> QED BY <1>1, <1>2, <1>3 DEF c

LEMMA HeldJoined ==
  ASSUME NEW code, NEW c \in Seq(Instrs), NEW d \in Seq(Instrs), NEW at \in Nat,
         Held(code, c \o d, at)
  PROVE  Held(code, c, at) /\ Held(code, d, at + Len(c))
<1> DEFINE a == c \o d
<1>1. /\ a \in Seq(Instrs) /\ Len(a) = Len(c) + Len(d)
      /\ \A k \in 1 .. Len(c) + Len(d) : a[k] = IF k <= Len(c) THEN c[k] ELSE d[k - Len(c)]
  BY ConcatProperties
<1>2. Held(code, a, at)
  OBVIOUS
<1> HIDE DEF a
<1>3. ASSUME NEW k \in 1 .. Len(c) PROVE at - 1 + k \in 1 .. Len(code) /\ code[at - 1 + k] = c[k]
  <2>1. k \in 1 .. Len(a) /\ a[k] = c[k]
    BY <1>1
  <2> QED BY <1>2, <2>1 DEF Held
<1>4. ASSUME NEW k \in 1 .. Len(d)
      PROVE  at + Len(c) - 1 + k \in 1 .. Len(code) /\ code[at + Len(c) - 1 + k] = d[k]
  <2>1. Len(c) + k \in 1 .. Len(a) /\ a[Len(c) + k] = d[k]
    <3>1. /\ Len(c) + k \in 1 .. Len(c) + Len(d) /\ ~(Len(c) + k <= Len(c))
          /\ (Len(c) + k) - Len(c) = k
      OBVIOUS
    <3> QED BY <1>1, <3>1
  <2>2. at - 1 + (Len(c) + k) \in 1 .. Len(code) /\ code[at - 1 + (Len(c) + k)] = d[k]
    BY <1>2, <2>1 DEF Held
  <2>3. at - 1 + (Len(c) + k) = at + Len(c) - 1 + k
    OBVIOUS
  <2> QED BY <2>2, <2>3
<1> QED BY <1>3, <1>4 DEF Held

-----------------------------------------------------------------------------
(* Code that leaves a value on the stack, and the variable as it says.     *)
Gives(code, c, at, var, value, after) ==
  \A st : IsSeq(st) =>
    Reach(code, BcState(at, st, var, "runs"),
                BcState(at + Len(c), Append(st, value), after, "runs"))

LEMMA StepFrom ==
  ASSUME NEW code, CodeOK(code), NEW at \in 1 .. Len(code), code[at].op # "HALT",
         NEW st, NEW var
  PROVE  \E t : /\ Outcome(code[at], at, st, var, t)
                /\ Reach(code, BcState(at, st, var, "runs"), t)
<1>1. Len(code) \in Nat /\ code[at] \in Instrs
  BY DEF CodeOK
<1> DEFINE s == BcState(at, st, var, "runs")
           t == BcStep(code, s)
<1>2. Outcome(code[at], at, st, var, t)
  BY <1>1, StepOf
<1>3. Reach(code, s, t)
  <2> HIDE DEF s
  <2> QED BY ReachStep
<1> HIDE DEF t
<1> QED BY <1>2, <1>3

LEMMA PushGives ==
  ASSUME NEW code, CodeOK(code), NEW at \in Nat, NEW v, Held(code, BcPush(v), at), NEW var
  PROVE  Gives(code, BcPush(v), at, var, v, var)
<1>1. at \in 1 .. Len(code) /\ code[at] = BcInstr("PUSH_CONST", v)
  BY HeldOne DEF BcPush
<1>2. code[at].op = "PUSH_CONST" /\ code[at].arg = v
  BY <1>1 DEF BcInstr
<1>3. Len(BcPush(v)) = 1
  BY DEF BcPush
<1> SUFFICES ASSUME NEW st, IsSeq(st)
             PROVE  Reach(code, BcState(at, st, var, "runs"),
                                BcState(at + 1, Append(st, v), var, "runs"))
  BY <1>3, Zenon DEF Gives
<1>4. PICK t : Outcome(code[at], at, st, var, t) /\ Reach(code, BcState(at, st, var, "runs"), t)
  BY <1>1, <1>2, StepFrom
<1>5. t = BcState(at + 1, Append(st, v), var, "runs")
  BY <1>2, <1>4 DEF Outcome
<1> QED BY <1>4, <1>5

LEMMA VariableGives ==
  ASSUME NEW code, CodeOK(code), NEW at \in Nat, Held(code, <<BcNop("PUSH_VAR")>>, at),
         NEW var, var # BcError
  PROVE  Gives(code, <<BcNop("PUSH_VAR")>>, at, var, var, var)
<1> DEFINE c == <<BcNop("PUSH_VAR")>>
<1>1. at \in 1 .. Len(code) /\ code[at] = BcNop("PUSH_VAR")
  BY HeldOne
<1>2. code[at].op = "PUSH_VAR"
  BY <1>1 DEF BcNop, BcInstr
<1>3. Len(c) = 1
  OBVIOUS
<1> HIDE DEF c
<1> SUFFICES ASSUME NEW st, IsSeq(st)
             PROVE  Reach(code, BcState(at, st, var, "runs"),
                                BcState(at + 1, Append(st, var), var, "runs"))
  BY <1>3, Zenon DEF Gives, c
<1>4. PICK t : Outcome(code[at], at, st, var, t) /\ Reach(code, BcState(at, st, var, "runs"), t)
  BY <1>1, <1>2, StepFrom
<1>5. t = BcState(at + 1, Append(st, var), var, "runs")
  BY <1>2, <1>4 DEF Outcome, BcUnset
<1> QED BY <1>4, <1>5

(* What is on top after a push.                                            *)
LEMMA PushedOne ==
  ASSUME NEW st, IsSeq(st), NEW v
  PROVE  /\ IsSeq(Append(st, v)) /\ Len(st) \in Nat /\ Len(Append(st, v)) = Len(st) + 1
         /\ Append(st, v)[Len(Append(st, v))] = v
         /\ SubSeq(Append(st, v), 1, Len(Append(st, v)) - 1) = st
<1>1. Len(st) \in Nat
  BY DEF IsSeq
<1>2. /\ IsSeq(Append(st, v)) /\ Len(Append(st, v)) = Len(st) + 1
      /\ Append(st, v)[Len(st) + 1] = v /\ SubSeq(Append(st, v), 1, Len(st)) = st
  BY SeqAppend, SeqPopped
<1> DEFINE a == Append(st, v)
<1> HIDE DEF a
<1>3. Len(a) - 1 = Len(st)
  BY <1>1, <1>2 DEF a
<1> QED BY <1>1, <1>2, <1>3 DEF a

LEMMA PairOf ==
  ASSUME NEW S, NEW top \in Seq(S), Len(top) = 2
  PROVE  top = <<top[1], top[2]>>
<1>1. top[1] \in S /\ top[2] \in S
  OBVIOUS
<1> DEFINE pair == <<top[1], top[2]>>
<1>2. pair \in Seq(S) /\ Len(pair) = 2 /\ pair[1] = top[1] /\ pair[2] = top[2]
  BY <1>1
<1> HIDE DEF pair
<1>3. \A k \in 1 .. Len(top) : k = 1 \/ k = 2
  OBVIOUS
<1>4. \A k \in 1 .. Len(top) : top[k] = pair[k]
  BY <1>2, <1>3
<1>5. top = pair
  BY <1>2, <1>4, SeqEqual
<1> QED BY <1>5 DEF pair

LEMMA PushedTwo ==
  ASSUME NEW st, IsSeq(st), NEW v, NEW w
  PROVE  LET two == Append(Append(st, v), w)
         IN  /\ IsSeq(two) /\ Len(two) = Len(st) + 2 /\ Len(st) \in Nat
             /\ two[Len(two)] = w /\ two[Len(two) - 1] = v
             /\ SubSeq(two, 1, Len(two) - 2) = st
             /\ SubSeq(two, Len(two) - 2 + 1, Len(two)) = <<v, w>>
<1> DEFINE one == Append(st, v)
           two == Append(one, w)
           n == Len(st)
<1>0. n \in Nat
  BY DEF IsSeq
<1>1. /\ IsSeq(one) /\ Len(one) = n + 1 /\ one[n + 1] = v /\ SubSeq(one, 1, n) = st
  BY SeqAppend, SeqPopped
<1> HIDE DEF one
<1>2. /\ IsSeq(two) /\ Len(two) = Len(one) + 1 /\ two[Len(one) + 1] = w
      /\ \A k \in 1 .. Len(one) : two[k] = one[k]
  BY <1>1, SeqAppend
<1>3. SubSeq(two, 1, n) = SubSeq(one, 1, n)
  <2>1. PICK S : one \in Seq(S)
    BY <1>1 DEF IsSeq
  <2>2. one \in Seq(S \cup {w}) /\ w \in S \cup {w}
    BY <2>1
  <2>3. n \in 0 .. Len(one)
    BY <1>0, <1>1
  <2> QED BY <2>2, <2>3
<1> HIDE DEF two, n
<1>4. /\ Len(two) = n + 2 /\ Len(two) - 2 = n /\ Len(two) - 1 = n + 1
      /\ Len(one) + 1 = Len(two) /\ n + 1 \in 1 .. Len(one) /\ n \in Nat
  BY <1>0, <1>1, <1>2
<1>5. two[Len(two)] = w /\ two[n + 1] = v /\ two[n + 2] = w
  BY <1>1, <1>2, <1>4
<1>6. SubSeq(two, n + 1, Len(two)) = <<v, w>>
  <2> DEFINE top == SubSeq(two, n + 1, n + 2)
  <2>1. PICK S : two \in Seq(S)
    BY <1>2 DEF IsSeq
  <2>2. two[n + 1] \in S /\ two[n + 2] \in S /\ \A k \in n + 1 .. n + 2 : two[k] \in S
    BY <1>4, <2>1
  <2>3. n + 1 \in Int /\ n + 2 \in Int /\ n + 1 <= n + 2 /\ (n + 2) - (n + 1) + 1 = 2
    BY <1>4
  <2>4. /\ top \in Seq(S) /\ Len(top) = (n + 2) - (n + 1) + 1
        /\ \A k \in 1 .. (n + 2) - (n + 1) + 1 : top[k] = two[(n + 1) + k - 1]
    BY <2>2, <2>3, SubSeqProperties
  <2>5. Len(top) = 2 /\ top[1] = two[(n + 1) + 1 - 1] /\ top[2] = two[(n + 1) + 2 - 1]
    BY <2>3, <2>4
  <2>6. (n + 1) + 1 - 1 = n + 1 /\ (n + 1) + 2 - 1 = n + 2
    BY <1>4
  <2> HIDE DEF top
  <2>7. top[1] = v /\ top[2] = w
    BY <1>5, <2>5, <2>6
  <2>8. top = <<v, w>>
    BY <2>4, <2>5, <2>7, PairOf
  <2> QED BY <1>4, <2>8 DEF top
<1>7. SubSeq(two, 1, Len(two) - 2) = st
  BY <1>1, <1>3, <1>4
<1>8. Len(two) - 2 + 1 = n + 1
  BY <1>4
<1> QED BY <1>2, <1>4, <1>5, <1>6, <1>7, <1>8 DEF two, one, n

(* What the machine does with the code of an expression, wherever it is.   *)
Yields(code, e, var, value, after) ==
  \A at \in Nat : Held(code, BcCode[e][at], at) =>
                    Gives(code, BcCode[e][at], at, var, value, after)

LEMMA CodeTyped ==
  ASSUME NEW e \in BcExprs, NEW at \in Nat
  PROVE  BcCode[e][at] \in Seq(Instrs) /\ Len(BcCode[e][at]) \in Nat /\ at + Len(BcCode[e][at]) \in Nat
<1>1. WholeAt(BcCode[e][at], at)
  BY CodeWhole
<1> DEFINE c == BcCode[e][at]
<1> HIDE DEF c
<1>2. c \in Seq(Instrs) /\ Len(c) \in Nat
  BY <1>1 DEF WholeAt, Fits, c
<1>3. at + Len(c) \in Nat
  BY <1>2
<1> QED BY <1>2, <1>3 DEF c

LEMMA OneTyped ==
  ASSUME NEW op
  PROVE  op \in BareOpcodes => <<BcNop(op)>> \in Seq(Instrs) /\ Len(<<BcNop(op)>>) = 1
BY DEF BcNop, BcInstr, Instrs

(* The operands of a form, and the codes they get.                         *)
LEMMA OperandCodes ==
  ASSUME NEW e \in BcExprs, NEW at \in Nat
  PROVE  \E operand :
           /\ BcCode[e][at] = BcForm(e, at, operand)
           /\ \A a : e.args = <<a>> => operand[1] = BcCode[a]
           /\ \A a, b : e.args = <<a, b>> => operand[1] = BcCode[a] /\ operand[2] = BcCode[b]
           /\ \A a, b, c : e.args = <<a, b, c>> =>
                /\ operand[1] = BcCode[a] /\ operand[2] = BcCode[b] /\ operand[3] = BcCode[c]
<1> DEFINE operand == [k \in DOMAIN e.args |-> BcCode[e.args[k]]]
<1>1. BcCode[e][at] = BcForm(e, at, operand)
  BY CodeOf
<1>2. ASSUME NEW a, e.args = <<a>> PROVE operand[1] = BcCode[a]
  BY <1>2
<1>3. ASSUME NEW a, NEW b, e.args = <<a, b>>
      PROVE  operand[1] = BcCode[a] /\ operand[2] = BcCode[b]
  BY <1>3
<1>4. ASSUME NEW a, NEW b, NEW c, e.args = <<a, b, c>>
      PROVE  /\ operand[1] = BcCode[a] /\ operand[2] = BcCode[b] /\ operand[3] = BcCode[c]
  BY <1>4
<1> HIDE DEF operand
<1> QED BY <1>1, <1>2, <1>3, <1>4

(* Three pieces of code, one after the other.                              *)
Pieces(code, c, d, h, at) ==
  /\ Held(code, c, at) /\ Held(code, d, at + Len(c))
  /\ Held(code, h, at + Len(c) + Len(d))
  /\ at + Len(c) + Len(d) \in Nat
  /\ Len(c \o d \o h) = Len(c) + Len(d) + Len(h)

LEMMA HeldThree ==
  ASSUME NEW code, NEW c \in Seq(Instrs), NEW d \in Seq(Instrs), NEW h \in Seq(Instrs),
         NEW at \in Nat, Held(code, c \o d \o h, at)
  PROVE  Pieces(code, c, d, h, at)
<1> DEFINE a == c \o d
<1>1. a \in Seq(Instrs) /\ Len(a) = Len(c) + Len(d)
  BY ConcatProperties
<1>2. Held(code, a \o h, at)
  OBVIOUS
<1>3. Len(a \o h) = Len(a) + Len(h)
  BY <1>1, ConcatProperties
<1>4. Len(c) \in Nat /\ Len(d) \in Nat /\ Len(h) \in Nat
  OBVIOUS
<1>5. Held(code, c, at) /\ Held(code, d, at + Len(c))
  <2>1. Held(code, a, at)
    <3> HIDE DEF a
    <3> QED BY <1>1, <1>2, HeldJoined
  <2> QED BY <2>1, HeldJoined
<1>6. Held(code, h, at + Len(a))
  <2> HIDE DEF a
  <2> QED BY <1>1, <1>2, HeldJoined
<1> HIDE DEF a
<1>7. at + Len(a) = at + Len(c) + Len(d) /\ at + Len(a) \in Nat
  BY <1>1, <1>4
<1>8. Len(a \o h) = Len(c) + Len(d) + Len(h)
  BY <1>1, <1>3, <1>4
<1> QED BY <1>5, <1>6, <1>7, <1>8 DEF a, Pieces

LEMMA GivesBoth ==
  ASSUME NEW code, NEW at \in Nat, NEW c, NEW d, NEW var, NEW va, NEW vb, NEW x, NEW y,
         Gives(code, c, at, var, va, x), Gives(code, d, at + Len(c), x, vb, y),
         NEW st, IsSeq(st)
  PROVE  Reach(code, BcState(at, st, var, "runs"),
                     BcState(at + Len(c) + Len(d), Append(Append(st, va), vb), y, "runs"))
<1> DEFINE one == Append(st, va)
<1>1. IsSeq(one)
  BY SeqAppend
<1>2. Reach(code, BcState(at, st, var, "runs"), BcState(at + Len(c), one, x, "runs"))
  BY DEF Gives
<1> HIDE DEF one
<1>3. Reach(code, BcState(at + Len(c), one, x, "runs"),
                  BcState(at + Len(c) + Len(d), Append(one, vb), y, "runs"))
  BY <1>1 DEF Gives
<1> QED BY <1>2, <1>3, ReachOn DEF one

(* An operator finds its operands on the stack.                            *)
LEMMA OperatorGives ==
  ASSUME NEW code, CodeOK(code), NEW at \in Nat, NEW c \in Seq(Instrs), NEW d \in Seq(Instrs),
         NEW var, NEW va, NEW vb, NEW x, NEW y,
         NEW op \in BcBinaryOpcodes, Held(code, c \o d \o <<BcNop(op)>>, at),
         Gives(code, c, at, var, va, x), Gives(code, d, at + Len(c), x, vb, y)
  PROVE  Gives(code, c \o d \o <<BcNop(op)>>, at, var, BcBinary(op, va, vb), y)
<1> DEFINE h == <<BcNop(op)>>
           p == at + Len(c) + Len(d)
           l == Len(c \o d \o h)
<1>1. h \in Seq(Instrs) /\ Len(h) = 1
  BY BinaryOpcodes, OneTyped DEF BareOpcodes
<1>0. Held(code, c \o d \o h, at)
  OBVIOUS
<1>2. Held(code, h, p) /\ p \in Nat /\ l = Len(c) + Len(d) + Len(h)
  <2>1. Pieces(code, c, d, h, at)
    <3> HIDE DEF h
    <3> QED BY <1>0, <1>1, HeldThree
  <2> HIDE DEF h
  <2> QED BY <2>1 DEF Pieces
<1>3. p \in 1 .. Len(code) /\ code[p] = BcNop(op)
  <2> HIDE DEF p
  <2> QED BY <1>2, HeldOne
<1>4. code[p].op = op
  BY <1>3 DEF BcNop, BcInstr
<1>5. at + l = p + 1
  BY <1>1, <1>2
<1> HIDE DEF l, p, h
<1> SUFFICES ASSUME NEW st, IsSeq(st)
             PROVE  Reach(code, BcState(at, st, var, "runs"),
                                BcState(p + 1, Append(st, BcBinary(op, va, vb)), y, "runs"))
  BY <1>5, Zenon DEF Gives, l, h
<1> DEFINE two == Append(Append(st, va), vb)
<1>6. Reach(code, BcState(at, st, var, "runs"), BcState(p, two, y, "runs"))
  BY GivesBoth DEF p
<1>7. /\ Len(two) \in Nat /\ ~(Len(two) < 2)
      /\ two[Len(two)] = vb /\ two[Len(two) - 1] = va /\ SubSeq(two, 1, Len(two) - 2) = st
  <2>1. LET u == two IN Len(u) = Len(st) + 2 /\ Len(st) \in Nat /\ u[Len(u)] = vb /\ u[Len(u) - 1] = va
                   /\ SubSeq(u, 1, Len(u) - 2) = st
    BY PushedTwo
  <2> HIDE DEF two
  <2> QED BY <2>1
<1> HIDE DEF two
<1>8. code[p].op # "HALT"
  BY <1>4, BinaryOpcodes
<1>9. PICK t : Outcome(code[p], p, two, y, t) /\ Reach(code, BcState(p, two, y, "runs"), t)
  BY <1>3, <1>8, StepFrom
<1>10. t = BcState(p + 1, Append(st, BcBinary(op, va, vb)), y, "runs")
  BY <1>4, <1>7, <1>9 DEF Outcome
<1> QED BY <1>6, <1>9, <1>10, ReachOn

LEMMA ListGives ==
  ASSUME NEW code, CodeOK(code), NEW at \in Nat, NEW c \in Seq(Instrs), NEW d \in Seq(Instrs),
         NEW var, NEW va, NEW vb, NEW x, NEW y,
         Held(code, c \o d \o <<BcInstr("MAKE_LIST", 2)>>, at),
         Gives(code, c, at, var, va, x), Gives(code, d, at + Len(c), x, vb, y)
  PROVE  Gives(code, c \o d \o <<BcInstr("MAKE_LIST", 2)>>, at, var, <<"list", <<va, vb>> >>, y)
<1> DEFINE h == <<BcInstr("MAKE_LIST", 2)>>
           p == at + Len(c) + Len(d)
           l == Len(c \o d \o h)
<1>1. h \in Seq(Instrs) /\ Len(h) = 1
  BY DEF BcInstr, Instrs
<1>0. Held(code, c \o d \o h, at)
  OBVIOUS
<1>2. Held(code, h, p) /\ p \in Nat /\ l = Len(c) + Len(d) + Len(h)
  <2>1. Pieces(code, c, d, h, at)
    <3> HIDE DEF h
    <3> QED BY <1>0, <1>1, HeldThree
  <2> HIDE DEF h
  <2> QED BY <2>1 DEF Pieces
<1>3. p \in 1 .. Len(code) /\ code[p] = BcInstr("MAKE_LIST", 2)
  <2> HIDE DEF p
  <2> QED BY <1>2, HeldOne
<1>4. code[p].op = "MAKE_LIST" /\ code[p].arg = 2
  BY <1>3 DEF BcInstr
<1>5. at + l = p + 1
  BY <1>1, <1>2
<1> HIDE DEF l, p, h
<1> SUFFICES ASSUME NEW st, IsSeq(st)
             PROVE  Reach(code, BcState(at, st, var, "runs"),
                                BcState(p + 1, Append(st, <<"list", <<va, vb>> >>), y, "runs"))
  BY <1>5, Zenon DEF Gives, l, h
<1> DEFINE two == Append(Append(st, va), vb)
<1>6. Reach(code, BcState(at, st, var, "runs"), BcState(p, two, y, "runs"))
  BY GivesBoth DEF p
<1>7. /\ Len(two) \in Nat /\ ~(Len(two) < 2)
      /\ SubSeq(two, Len(two) - 2 + 1, Len(two)) = <<va, vb>> /\ SubSeq(two, 1, Len(two) - 2) = st
  <2>1. LET u == two IN Len(u) = Len(st) + 2 /\ Len(st) \in Nat
                   /\ SubSeq(u, Len(u) - 2 + 1, Len(u)) = <<va, vb>>
                   /\ SubSeq(u, 1, Len(u) - 2) = st
    BY PushedTwo
  <2> HIDE DEF two
  <2> QED BY <2>1
<1> HIDE DEF two
<1>9. PICK t : Outcome(code[p], p, two, y, t) /\ Reach(code, BcState(p, two, y, "runs"), t)
  BY <1>3, <1>4, StepFrom
<1>10. t = BcState(p + 1, Append(st, <<"list", <<va, vb>> >>), y, "runs")
  BY <1>4, <1>7, <1>9 DEF Outcome
<1> QED BY <1>6, <1>9, <1>10, ReachOn

(* One piece of code and an instruction that takes its value.              *)
LEMMA TakerGives ==
  ASSUME NEW code, CodeOK(code), NEW at \in Nat, NEW c \in Seq(Instrs), NEW j \in Instrs,
         j.op # "HALT", Held(code, c \o <<j>>, at),
         NEW var, NEW v, NEW x, Gives(code, c, at, var, v, x), NEW st, IsSeq(st)
  PROVE  LET p == at + Len(c)
         IN  /\ Len(c \o <<j>>) = Len(c) + 1 /\ p \in Nat
             /\ \E t : /\ Outcome(j, p, Append(st, v), x, t)
                       /\ Reach(code, BcState(at, st, var, "runs"), t)
<1> DEFINE h == <<j>>
           p == at + Len(c)
           one == Append(st, v)
<1>1. h \in Seq(Instrs) /\ Len(h) = 1 /\ Len(c) \in Nat /\ p \in Nat
  OBVIOUS
<1>0. Held(code, c \o h, at)
  OBVIOUS
<1>2. Len(c \o h) = Len(c) + 1
  <2> HIDE DEF h
  <2>1. Len(c \o h) = Len(c) + Len(h)
    BY <1>1, ConcatProperties
  <2> QED BY <1>1, <2>1
<1>3. Held(code, h, p)
  <2> HIDE DEF h
  <2> QED BY <1>0, <1>1, HeldJoined
<1>4. p \in 1 .. Len(code) /\ code[p] = j
  <2> HIDE DEF p
  <2> QED BY <1>1, <1>3, HeldOne
<1>5. Reach(code, BcState(at, st, var, "runs"), BcState(p, one, x, "runs"))
  BY DEF Gives
<1> HIDE DEF one, p
<1>6. PICK t : Outcome(code[p], p, one, x, t) /\ Reach(code, BcState(p, one, x, "runs"), t)
  BY <1>4, StepFrom
<1>7. Reach(code, BcState(at, st, var, "runs"), t)
  BY <1>5, <1>6, ReachOn
<1> QED BY <1>1, <1>2, <1>4, <1>6, <1>7 DEF one, p, h

-----------------------------------------------------------------------------
(* What the machine does with each form.                                   *)

(* The codes of two operands, one after the other.                         *)
LEMMA TwoCodes ==
  ASSUME NEW code, NEW a \in BcExprs, NEW b \in BcExprs, NEW at \in Nat,
         NEW c, c = BcCode[a][at], NEW d, d = BcCode[b][at + Len(c)],
         NEW var, NEW va, NEW vb, NEW x, NEW y,
         Yields(code, a, var, va, x), Yields(code, b, x, vb, y)
  PROVE  /\ c \in Seq(Instrs) /\ d \in Seq(Instrs) /\ at + Len(c) \in Nat
         /\ Held(code, c, at) => Gives(code, c, at, var, va, x)
         /\ Held(code, d, at + Len(c)) => Gives(code, d, at + Len(c), x, vb, y)
<1>1. c \in Seq(Instrs) /\ at + Len(c) \in Nat
  BY CodeTyped
<1>2. d \in Seq(Instrs)
  BY <1>1, CodeTyped
<1>3. Held(code, c, at) => Gives(code, c, at, var, va, x)
  BY DEF Yields
<1>4. Held(code, d, at + Len(c)) => Gives(code, d, at + Len(c), x, vb, y)
  BY <1>1 DEF Yields
<1> QED BY <1>1, <1>2, <1>3, <1>4

LEMMA YieldsLiteral ==
  ASSUME NEW code, CodeOK(code), NEW e \in BcExprs, e.op = "lit", NEW var
  PROVE  Yields(code, e, var, e.value, var)
<1> SUFFICES ASSUME NEW at \in Nat, Held(code, BcCode[e][at], at)
             PROVE  Gives(code, BcCode[e][at], at, var, e.value, var)
  BY DEF Yields
<1>1. BcCode[e][at] = BcPush(e.value)
  <2>1. PICK operand : BcCode[e][at] = BcForm(e, at, operand)
    BY OperandCodes
  <2>2. BcForm(e, at, operand) = BcPush(e.value)
    BY FormOf
  <2> QED BY <2>1, <2>2
<1> QED BY <1>1, PushGives

LEMMA YieldsVariable ==
  ASSUME NEW code, CodeOK(code), NEW e \in BcExprs, e.op = "variable", NEW var, var # BcError
  PROVE  Yields(code, e, var, var, var)
<1> SUFFICES ASSUME NEW at \in Nat, Held(code, BcCode[e][at], at)
             PROVE  Gives(code, BcCode[e][at], at, var, var, var)
  BY DEF Yields
<1>1. BcCode[e][at] = <<BcNop("PUSH_VAR")>>
  <2>1. PICK operand : BcCode[e][at] = BcForm(e, at, operand)
    BY OperandCodes
  <2>2. BcForm(e, at, operand) = <<BcNop("PUSH_VAR")>>
    BY FormOf
  <2> QED BY <2>1, <2>2
<1> QED BY <1>1, VariableGives

LEMMA YieldsBinary ==
  ASSUME NEW code, CodeOK(code), NEW e \in BcExprs, NEW a \in BcExprs, NEW b \in BcExprs,
         e.op \in {"+", "-", "*", "<", "=", "and", "or"}, e.args = <<a, b>>,
         NEW var, NEW va, NEW vb, NEW x, NEW y,
         Yields(code, a, var, va, x), Yields(code, b, x, vb, y)
  PROVE  Yields(code, e, var, BcBinary(BcOpcode[e.op], va, vb), y)
<1> DEFINE op == BcOpcode[e.op]
<1> SUFFICES ASSUME NEW at \in Nat, Held(code, BcCode[e][at], at)
             PROVE  Gives(code, BcCode[e][at], at, var, BcBinary(op, va, vb), y)
  BY DEF Yields
<1> DEFINE c == BcCode[a][at]
           d == BcCode[b][at + Len(c)]
<1>1. BcCode[e][at] = c \o d \o <<BcNop(op)>>
  <2>1. PICK operand : /\ BcCode[e][at] = BcForm(e, at, operand)
                       /\ operand[1] = BcCode[a] /\ operand[2] = BcCode[b]
    BY OperandCodes
  <2>2. e.op \in {"+", "*", "<", "=", "and", "or"} \/ (e.op = "-" /\ Len(e.args) # 1)
    OBVIOUS
  <2>3. BcForm(e, at, operand)
          = operand[1][at] \o operand[2][at + Len(operand[1][at])] \o <<BcNop(op)>>
    BY <2>2, FormOf
  <2> QED BY <2>1, <2>3
<1>2. op \in BcBinaryOpcodes
  BY BinaryOpcodes DEF BcOpcode
<1>3. /\ c \in Seq(Instrs) /\ d \in Seq(Instrs) /\ at + Len(c) \in Nat
      /\ Held(code, c, at) => Gives(code, c, at, var, va, x)
      /\ Held(code, d, at + Len(c)) => Gives(code, d, at + Len(c), x, vb, y)
  BY TwoCodes
<1>4. Held(code, c \o d \o <<BcNop(op)>>, at)
  BY <1>1
<1> HIDE DEF c, d
<1>5. <<BcNop(op)>> \in Seq(Instrs)
  BY <1>2, BinaryOpcodes, OneTyped DEF BareOpcodes
<1>6. Held(code, c, at) /\ Held(code, d, at + Len(c))
  <2> DEFINE h == <<BcNop(op)>>
  <2>1. Held(code, c \o d \o h, at) /\ h \in Seq(Instrs)
    BY <1>4, <1>5
  <2> HIDE DEF h
  <2> QED BY <1>3, <2>1, HeldThree DEF Pieces
<1> HIDE DEF op
<1>7. Gives(code, c \o d \o <<BcNop(op)>>, at, var, BcBinary(op, va, vb), y)
  BY <1>2, <1>3, <1>4, <1>6, OperatorGives
<1> QED BY <1>1, <1>7

LEMMA YieldsList ==
  ASSUME NEW code, CodeOK(code), NEW e \in BcExprs, NEW a \in BcExprs, NEW b \in BcExprs,
         e.op = "list", e.args = <<a, b>>, NEW var, NEW va, NEW vb, NEW x, NEW y,
         Yields(code, a, var, va, x), Yields(code, b, x, vb, y)
  PROVE  Yields(code, e, var, <<"list", <<va, vb>> >>, y)
<1> SUFFICES ASSUME NEW at \in Nat, Held(code, BcCode[e][at], at)
             PROVE  Gives(code, BcCode[e][at], at, var, <<"list", <<va, vb>> >>, y)
  BY DEF Yields
<1> DEFINE c == BcCode[a][at]
           d == BcCode[b][at + Len(c)]
           h == <<BcInstr("MAKE_LIST", 2)>>
<1>1. BcCode[e][at] = c \o d \o h
  <2>1. PICK operand : /\ BcCode[e][at] = BcForm(e, at, operand)
                       /\ operand[1] = BcCode[a] /\ operand[2] = BcCode[b]
    BY OperandCodes
  <2>3. BcForm(e, at, operand)
          = operand[1][at] \o operand[2][at + Len(operand[1][at])] \o h
    BY FormOf
  <2> QED BY <2>1, <2>3
<1>3. /\ c \in Seq(Instrs) /\ d \in Seq(Instrs) /\ at + Len(c) \in Nat
      /\ Held(code, c, at) => Gives(code, c, at, var, va, x)
      /\ Held(code, d, at + Len(c)) => Gives(code, d, at + Len(c), x, vb, y)
  BY TwoCodes
<1>4. Held(code, c \o d \o h, at)
  BY <1>1
<1> HIDE DEF c, d
<1>5. h \in Seq(Instrs)
  BY DEF BcInstr, Instrs
<1>6. Held(code, c, at) /\ Held(code, d, at + Len(c))
  <2> HIDE DEF h
  <2> QED BY <1>3, <1>4, <1>5, HeldThree DEF Pieces
<1>7. Gives(code, c \o d \o h, at, var, <<"list", <<va, vb>> >>, y)
  BY <1>3, <1>4, <1>6, ListGives
<1> QED BY <1>1, <1>7

LEMMA YieldsNegated ==
  ASSUME NEW code, CodeOK(code), NEW e \in BcExprs, NEW a \in BcExprs,
         e.op = "-", e.args = <<a>>, NEW var, NEW v, NEW x, Yields(code, a, var, v, x)
  PROVE  Yields(code, e, var, BcBinary("SUB", BcNum(0), v), x)
<1> SUFFICES ASSUME NEW at \in Nat, Held(code, BcCode[e][at], at)
             PROVE  Gives(code, BcCode[e][at], at, var, BcBinary("SUB", BcNum(0), v), x)
  BY DEF Yields
<1> DEFINE zero == BcNum(0)
           c == BcPush(zero)
           d == BcCode[a][at + 1]
           h == <<BcNop("SUB")>>
<1>1. BcCode[e][at] = c \o d \o h
  <2>1. PICK operand : BcCode[e][at] = BcForm(e, at, operand) /\ operand[1] = BcCode[a]
    BY OperandCodes
  <2>2. Len(e.args) = 1
    OBVIOUS
  <2>3. BcForm(e, at, operand) = c \o operand[1][at + 1] \o h
    BY <2>2, FormOf
  <2> QED BY <2>1, <2>3
<1>2. "SUB" \in BcBinaryOpcodes /\ h \in Seq(Instrs)
  BY BinaryOpcodes, OneTyped DEF BareOpcodes
<1>3. c \in Seq(Instrs) /\ Len(c) = 1 /\ at + 1 \in Nat /\ d \in Seq(Instrs)
  <2>1. c \in Seq(Instrs) /\ Len(c) = 1
    <3>1. zero \in BcScalars
      BY Scalars
    <3> HIDE DEF zero
    <3>2. Fits(BcPush(zero), at, at) /\ Len(BcPush(zero)) = 1
      BY <3>1, PushFits
    <3> QED BY <3>2 DEF Fits
  <2>2. at + 1 \in Nat
    OBVIOUS
  <2>3. d \in Seq(Instrs)
    BY <2>2, CodeTyped
  <2> QED BY <2>1, <2>2, <2>3
<1>4. Held(code, c \o d \o h, at)
  BY <1>1
<1>a. \A p \in Nat : Held(code, BcCode[a][p], p) => Gives(code, BcCode[a][p], p, var, v, x)
  BY DEF Yields
<1>b. Held(code, d, at + 1) => Gives(code, d, at + 1, var, v, x)
  BY <1>3, <1>a
<1>c. Held(code, c, at) => Gives(code, c, at, var, zero, var)
  <2> HIDE DEF zero
  <2> QED BY PushGives
<1> HIDE DEF c, d, zero
<1>6. Held(code, c, at) /\ Held(code, d, at + Len(c))
  <2> HIDE DEF h
  <2> QED BY <1>2, <1>3, <1>4, HeldThree DEF Pieces
<1>7. Gives(code, c, at, var, zero, var) /\ Gives(code, d, at + Len(c), var, v, x)
  BY <1>3, <1>6, <1>b, <1>c
<1>8. Gives(code, c \o d \o h, at, var, BcBinary("SUB", zero, v), x)
  BY <1>2, <1>3, <1>4, <1>7, OperatorGives
<1> QED BY <1>1, <1>8 DEF zero

LEMMA YieldsNot ==
  ASSUME NEW code, CodeOK(code), NEW e \in BcExprs, NEW a \in BcExprs,
         e.op = "not", e.args = <<a>>, NEW var, NEW v, NEW x, Yields(code, a, var, v, x)
  PROVE  Yields(code, e, var, BcBool(~BcTruthy(v)), x)
<1> DEFINE u == BcBool(~BcTruthy(v))
<1> SUFFICES ASSUME NEW at \in Nat, Held(code, BcCode[e][at], at)
             PROVE  Gives(code, BcCode[e][at], at, var, u, x)
  BY DEF Yields
<1> DEFINE c == BcCode[a][at]
           j == BcNop("NOT")
<1>1. BcCode[e][at] = c \o <<j>>
  <2>1. PICK operand : BcCode[e][at] = BcForm(e, at, operand) /\ operand[1] = BcCode[a]
    BY OperandCodes
  <2>3. BcForm(e, at, operand) = operand[1][at] \o <<j>>
    BY FormOf
  <2> QED BY <2>1, <2>3
<1>2. c \in Seq(Instrs) /\ j \in Instrs /\ j.op = "NOT" /\ <<j>> \in Seq(Instrs)
  <2>1. c \in Seq(Instrs)
    BY CodeTyped
  <2>2. j \in Instrs /\ j.op = "NOT"
    BY DEF BcNop, BcInstr, Instrs, BareOpcodes
  <2> HIDE DEF c, j
  <2> QED BY <2>1, <2>2
<1>3. Held(code, c \o <<j>>, at)
  BY <1>1
<1>4. Held(code, c, at) => Gives(code, c, at, var, v, x)
  BY DEF Yields
<1> HIDE DEF c, j
<1>5. Held(code, c, at)
  <2> DEFINE h == <<j>>
  <2>1. Held(code, c \o h, at) /\ h \in Seq(Instrs)
    BY <1>2, <1>3
  <2> HIDE DEF h
  <2> QED BY <1>2, <2>1, HeldJoined
<1> SUFFICES Gives(code, c \o <<j>>, at, var, u, x)
  BY <1>1
<1> SUFFICES ASSUME NEW st, IsSeq(st)
             PROVE  Reach(code, BcState(at, st, var, "runs"),
                                BcState(at + Len(c \o <<j>>), Append(st, u), x, "runs"))
  BY Zenon DEF Gives
<1>6. /\ Len(c \o <<j>>) = Len(c) + 1 /\ at + Len(c) \in Nat
      /\ \E t : /\ Outcome(j, at + Len(c), Append(st, v), x, t)
                /\ Reach(code, BcState(at, st, var, "runs"), t)
  BY <1>2, <1>3, <1>4, <1>5, TakerGives
<1>7. PICK t : /\ Outcome(j, at + Len(c), Append(st, v), x, t)
               /\ Reach(code, BcState(at, st, var, "runs"), t)
  BY <1>6
<1> DEFINE one == Append(st, v)
<1>8. Len(one) # 0 /\ one[Len(one)] = v /\ SubSeq(one, 1, Len(one) - 1) = st
  BY PushedOne
<1> HIDE DEF one
<1>9. t = BcState(at + Len(c) + 1, Append(st, u), x, "runs")
  BY <1>2, <1>7, <1>8 DEF Outcome, one
<1>10. at + Len(c \o <<j>>) = at + Len(c) + 1
  BY <1>2, <1>6
<1> QED BY <1>7, <1>9, <1>10

-----------------------------------------------------------------------------
(* What is dropped, what is kept, and a choice.                            *)

(* A value that is dropped or given to the variable.                       *)
LEMMA Taken ==
  ASSUME NEW code, CodeOK(code), NEW at \in Nat, NEW c \in Seq(Instrs),
         NEW op \in {"POP", "SET_VAR"}, Held(code, c \o <<BcNop(op)>>, at),
         NEW var, NEW v, NEW x, Gives(code, c, at, var, v, x), NEW st, IsSeq(st)
  PROVE  /\ Len(c \o <<BcNop(op)>>) = Len(c) + 1 /\ at + Len(c) + 1 \in Nat
         /\ Reach(code, BcState(at, st, var, "runs"),
                  BcState(at + Len(c) + 1, st, IF op = "POP" THEN x ELSE v, "runs"))
<1> DEFINE j == BcNop(op)
<1>1. j \in Instrs /\ j.op = op
  BY DEF BcNop, BcInstr, Instrs, BareOpcodes
<1>2. Held(code, c \o <<j>>, at) /\ j.op # "HALT"
  BY <1>1
<1> HIDE DEF j
<1>3. /\ Len(c \o <<j>>) = Len(c) + 1 /\ at + Len(c) \in Nat
      /\ \E t : /\ Outcome(j, at + Len(c), Append(st, v), x, t)
                /\ Reach(code, BcState(at, st, var, "runs"), t)
  BY <1>1, <1>2, TakerGives
<1>4. PICK t : /\ Outcome(j, at + Len(c), Append(st, v), x, t)
               /\ Reach(code, BcState(at, st, var, "runs"), t)
  BY <1>3
<1> DEFINE one == Append(st, v)
<1>5. Len(one) # 0 /\ one[Len(one)] = v /\ SubSeq(one, 1, Len(one) - 1) = st
  BY PushedOne
<1> HIDE DEF one
<1>6. t = BcState(at + Len(c) + 1, st, IF op = "POP" THEN x ELSE v, "runs")
  BY <1>1, <1>4, <1>5 DEF Outcome, one
<1>7. at + Len(c) + 1 \in Nat
  BY <1>3
<1> QED BY <1>3, <1>4, <1>6, <1>7 DEF j

LEMMA YieldsDefine ==
  ASSUME NEW code, CodeOK(code), NEW e \in BcExprs, NEW a \in BcExprs,
         e.op = "define", e.args = <<a>>, NEW var, NEW v, NEW x, Yields(code, a, var, v, x)
  PROVE  Yields(code, e, var, BcNull, v)
<1> SUFFICES ASSUME NEW at \in Nat, Held(code, BcCode[e][at], at)
             PROVE  Gives(code, BcCode[e][at], at, var, BcNull, v)
  BY DEF Yields
<1> DEFINE c == BcCode[a][at]
           h == <<BcNop("SET_VAR")>>
           d == BcPush(BcNull)
           p == at + Len(c)
<1>1. BcCode[e][at] = c \o h \o d
  <2>1. PICK operand : BcCode[e][at] = BcForm(e, at, operand) /\ operand[1] = BcCode[a]
    BY OperandCodes
  <2>2. e.args # << >>
    OBVIOUS
  <2>3. BcForm(e, at, operand) = operand[1][at] \o h \o d
    BY <2>2, FormOf
  <2> QED BY <2>1, <2>3
<1>2. c \in Seq(Instrs) /\ Len(c) \in Nat /\ p \in Nat
  BY CodeTyped
<1>3. h \in Seq(Instrs) /\ Len(h) = 1
  BY OneTyped DEF BareOpcodes
<1>4. d \in Seq(Instrs) /\ Len(d) = 1
  <2>1. Fits(BcPush(BcNull), at, at) /\ Len(BcPush(BcNull)) = 1
    BY Scalars, PushFits
  <2> QED BY <2>1 DEF Fits
<1>5. Held(code, c, at) => Gives(code, c, at, var, v, x)
  BY DEF Yields
<1>6. Held(code, c \o h \o d, at)
  BY <1>1
<1> HIDE DEF c, d
<1>7. /\ Held(code, c, at) /\ Held(code, c \o h, at) /\ Held(code, d, p + 1) /\ p + 1 \in Nat
      /\ Len(c \o h \o d) = Len(c) + 2
  <2> HIDE DEF h
  <2>1. Pieces(code, c, h, d, at)
    BY <1>2, <1>3, <1>4, <1>6, HeldThree
  <2> DEFINE ch == c \o h
  <2>2. ch \in Seq(Instrs) /\ Held(code, ch \o d, at)
    BY <1>2, <1>3, <1>6
  <2> HIDE DEF ch
  <2>3. Held(code, ch, at)
    BY <1>4, <2>2, HeldJoined
  <2> QED BY <1>2, <1>3, <1>4, <2>1, <2>3 DEF Pieces, ch
<1> SUFFICES ASSUME NEW st, IsSeq(st)
             PROVE  Reach(code, BcState(at, st, var, "runs"),
                                BcState(at + Len(c \o h \o d), Append(st, BcNull), v, "runs"))
  BY <1>1, Zenon DEF Gives
<1>8. Reach(code, BcState(at, st, var, "runs"), BcState(p + 1, st, v, "runs"))
  <2> DEFINE op == "SET_VAR"
  <2>1. op \in {"POP", "SET_VAR"} /\ op # "POP" /\ h = <<BcNop(op)>>
    OBVIOUS
  <2> HIDE DEF op, h
  <2> QED BY <1>2, <1>5, <1>7, <2>1, Taken
<1>9. Gives(code, d, p + 1, v, BcNull, v)
  BY <1>7, PushGives DEF d
<1>10. Reach(code, BcState(p + 1, st, v, "runs"),
                   BcState(p + 1 + Len(d), Append(st, BcNull), v, "runs"))
  BY <1>9 DEF Gives
<1>11. p + 1 + Len(d) = at + Len(c \o h \o d)
  BY <1>2, <1>4, <1>7
<1> QED BY <1>8, <1>10, <1>11, ReachOn

LEMMA YieldsDo ==
  ASSUME NEW code, CodeOK(code), NEW e \in BcExprs, NEW a \in BcExprs, NEW b \in BcExprs,
         e.op = "do", e.args = <<a, b>>, NEW var, NEW va, NEW vb, NEW x, NEW y,
         Yields(code, a, var, va, x), Yields(code, b, x, vb, y)
  PROVE  Yields(code, e, var, vb, y)
<1> SUFFICES ASSUME NEW at \in Nat, Held(code, BcCode[e][at], at)
             PROVE  Gives(code, BcCode[e][at], at, var, vb, y)
  BY DEF Yields
<1> DEFINE c == BcCode[a][at]
           h == <<BcNop("POP")>>
           first == c \o h
           p == at + Len(first)
           d == BcCode[b][p]
<1>1. BcCode[e][at] = first \o d
  <2>1. PICK operand : /\ BcCode[e][at] = BcForm(e, at, operand)
                       /\ operand[1] = BcCode[a] /\ operand[2] = BcCode[b]
    BY OperandCodes
  <2>2. BcForm(e, at, operand)
          = operand[1][at] \o h \o operand[2][at + Len(operand[1][at] \o h)]
    BY FormOf
  <2> QED BY <2>1, <2>2
<1>2. c \in Seq(Instrs) /\ Len(c) \in Nat /\ at + Len(c) \in Nat
  BY CodeTyped
<1>3. h \in Seq(Instrs) /\ Len(h) = 1
  BY OneTyped DEF BareOpcodes
<1>4. Held(code, c, at) => Gives(code, c, at, var, va, x)
  BY DEF Yields
<1> HIDE DEF c
<1>5. first \in Seq(Instrs) /\ Len(first) = Len(c) + 1 /\ p = at + Len(c) + 1 /\ p \in Nat
  <2>1. first \in Seq(Instrs) /\ Len(first) = Len(c) + Len(h)
    <3> HIDE DEF h
    <3> QED BY <1>2, <1>3, ConcatProperties
  <2> HIDE DEF first, h
  <2>2. p = at + Len(c) + 1
    BY <1>2, <1>3, <2>1
  <2> QED BY <1>2, <1>3, <2>1, <2>2
<1> HIDE DEF p
<1>6. d \in Seq(Instrs) /\ Len(d) \in Nat
  BY <1>5, CodeTyped
<1>7. Held(code, d, p) => Gives(code, d, p, x, vb, y)
  BY <1>5 DEF Yields
<1>8. Held(code, first \o d, at)
  BY <1>1
<1> HIDE DEF d
<1>9. Held(code, first, at) /\ Held(code, d, p)
  <2> HIDE DEF first
  <2> QED BY <1>5, <1>6, <1>8, HeldJoined DEF p
<1>10. Held(code, c, at)
  <2> HIDE DEF h
  <2> QED BY <1>2, <1>3, <1>9, HeldJoined
<1>11. at + Len(first \o d) = p + Len(d)
  <2> HIDE DEF first
  <2>1. Len(first \o d) = Len(first) + Len(d)
    BY <1>5, <1>6, ConcatProperties
  <2> DEFINE l == Len(first \o d)
  <2> HIDE DEF l
  <2>2. at + l = p + Len(d)
    BY <1>2, <1>5, <1>6, <2>1 DEF l
  <2> QED BY <2>2 DEF l
<1> SUFFICES ASSUME NEW st, IsSeq(st)
             PROVE  Reach(code, BcState(at, st, var, "runs"),
                                BcState(p + Len(d), Append(st, vb), y, "runs"))
  BY <1>1, <1>11, Zenon DEF Gives
<1>12. Reach(code, BcState(at, st, var, "runs"), BcState(p, st, x, "runs"))
  <2> DEFINE op == "POP"
  <2>1. op \in {"POP", "SET_VAR"} /\ op = "POP" /\ Held(code, c \o <<BcNop(op)>>, at)
    BY <1>9
  <2> HIDE DEF op, first, h
  <2>2. Reach(code, BcState(at, st, var, "runs"), BcState(at + Len(c) + 1, st, x, "runs"))
    BY <1>2, <1>4, <1>10, <2>1, Taken
  <2> QED BY <1>5, <2>2
<1>13. Reach(code, BcState(p, st, x, "runs"), BcState(p + Len(d), Append(st, vb), y, "runs"))
  BY <1>7, <1>9 DEF Gives
<1> QED BY <1>12, <1>13, ReachOn

(* The pieces of a choice, and where each of them is.                      *)
Branches(code, at, cond, j, then, k, last) ==
  LET start == at + Len(cond) + 1
      else == start + Len(then) + 1
  IN
  /\ Held(code, cond, at) /\ Held(code, <<j>>, at + Len(cond)) /\ Held(code, then, start)
  /\ Held(code, <<k>>, start + Len(then)) /\ Held(code, last, else)
  /\ at + Len(cond) \in Nat /\ start \in Nat /\ start + Len(then) \in Nat /\ else \in Nat
  /\ Held(code, cond \o <<j>>, at)
  /\ at + Len(cond \o <<j>> \o then \o <<k>> \o last) = else + Len(last)

LEMMA HeldChoice ==
  ASSUME NEW code, NEW at \in Nat, NEW cond \in Seq(Instrs), NEW j \in Instrs,
         NEW then \in Seq(Instrs), NEW k \in Instrs, NEW last \in Seq(Instrs),
         Held(code, cond \o <<j>> \o then \o <<k>> \o last, at)
  PROVE  Branches(code, at, cond, j, then, k, last)
<1> DEFINE h == <<j>>
           g == <<k>>
           a1 == cond \o h
           a2 == a1 \o then
           a3 == a2 \o g
           a4 == a3 \o last
<1>1. h \in Seq(Instrs) /\ Len(h) = 1 /\ g \in Seq(Instrs) /\ Len(g) = 1
  OBVIOUS
<1>0. Held(code, a4, at)
  OBVIOUS
<1> HIDE DEF h, g
<1>2. a1 \in Seq(Instrs) /\ Len(a1) = Len(cond) + Len(h)
  BY <1>1, ConcatProperties
<1> HIDE DEF a1
<1>3. a2 \in Seq(Instrs) /\ Len(a2) = Len(a1) + Len(then)
  BY <1>2, ConcatProperties
<1> HIDE DEF a2
<1>4. a3 \in Seq(Instrs) /\ Len(a3) = Len(a2) + Len(g)
  BY <1>1, <1>3, ConcatProperties
<1> HIDE DEF a3
<1>5. Len(a4) = Len(a3) + Len(last)
  BY <1>4, ConcatProperties
<1>6. Held(code, a3, at) /\ Held(code, last, at + Len(a3))
  BY <1>0, <1>4, HeldJoined
<1> HIDE DEF a4
<1>7. Held(code, a2, at) /\ Held(code, g, at + Len(a2))
  BY <1>1, <1>3, <1>6, HeldJoined DEF a3
<1>8. Held(code, a1, at) /\ Held(code, then, at + Len(a1))
  BY <1>2, <1>7, HeldJoined DEF a2
<1>9. Held(code, cond, at) /\ Held(code, h, at + Len(cond))
  BY <1>1, <1>8, HeldJoined DEF a1
<1> DEFINE start == at + Len(cond) + 1
           else == start + Len(then) + 1
<1>10. Len(cond) \in Nat /\ Len(then) \in Nat /\ Len(last) \in Nat
  OBVIOUS
<1>11. /\ at + Len(a1) = start /\ at + Len(a2) = start + Len(then) /\ at + Len(a3) = else
       /\ at + Len(a4) = else + Len(last)
       /\ at + Len(cond) \in Nat /\ start \in Nat /\ start + Len(then) \in Nat /\ else \in Nat
  BY <1>1, <1>2, <1>3, <1>4, <1>5, <1>10
<1> HIDE DEF start, else
<1>12. /\ Held(code, cond, at) /\ Held(code, h, at + Len(cond)) /\ Held(code, then, start)
       /\ Held(code, g, start + Len(then)) /\ Held(code, last, else) /\ Held(code, a1, at)
  BY <1>6, <1>7, <1>8, <1>9, <1>11
<1> QED BY <1>11, <1>12, Zenon DEF Branches, start, else, h, g, a1, a2, a3, a4

(* A choice goes one way or the other, and on behind it.                   *)
LEMMA ChoiceGives ==
  ASSUME NEW code, CodeOK(code), NEW at \in Nat,
         NEW cond \in Seq(Instrs), NEW then \in Seq(Instrs), NEW last \in Seq(Instrs),
         NEW start, start = at + Len(cond) + 1, NEW else \in Nat, else = start + Len(then) + 1,
         NEW end \in Nat, end = else + Len(last),
         NEW j, j = BcInstr("JUMP_IF_FALSE", else), NEW k, k = BcInstr("JUMP", end),
         Branches(code, at, cond, j, then, k, last),
         NEW var, NEW v, NEW x, NEW value, NEW after, Gives(code, cond, at, var, v, x),
         BcTruthy(v) => Gives(code, then, start, x, value, after),
         ~BcTruthy(v) => Gives(code, last, else, x, value, after)
  PROVE  Gives(code, cond \o <<j>> \o then \o <<k>> \o last, at, var, value, after)
<1> DEFINE all == cond \o <<j>> \o then \o <<k>> \o last
<1>1. j \in Instrs /\ j.op = "JUMP_IF_FALSE" /\ j.arg = else
  BY DEF BcInstr, Instrs
<1>2. k \in Instrs /\ k.op = "JUMP" /\ k.arg = end
  BY DEF BcInstr, Instrs
<1>3. /\ Held(code, cond, at) /\ Held(code, <<k>>, start + Len(then))
      /\ at + Len(cond) \in Nat /\ start \in Nat /\ start + Len(then) \in Nat
      /\ Held(code, cond \o <<j>>, at)
      /\ at + Len(all) = end
  BY DEF Branches
<1> HIDE DEF all
<1> SUFFICES ASSUME NEW st, IsSeq(st)
             PROVE  Reach(code, BcState(at, st, var, "runs"),
                                BcState(end, Append(st, value), after, "runs"))
  BY <1>3, Zenon DEF Gives, all
<1>4. \E t : /\ Outcome(j, at + Len(cond), Append(st, v), x, t)
             /\ Reach(code, BcState(at, st, var, "runs"), t)
  BY <1>1, <1>3, TakerGives
<1>5. PICK t : /\ Outcome(j, at + Len(cond), Append(st, v), x, t)
               /\ Reach(code, BcState(at, st, var, "runs"), t)
  BY <1>4
<1> DEFINE one == Append(st, v)
<1>6. Len(one) # 0 /\ one[Len(one)] = v /\ SubSeq(one, 1, Len(one) - 1) = st
  <2>1. /\ Len(st) \in Nat /\ Len(one) = Len(st) + 1 /\ one[Len(one)] = v
        /\ SubSeq(one, 1, Len(one) - 1) = st
    BY PushedOne
  <2> HIDE DEF one
  <2> QED BY <2>1
<1> HIDE DEF one
<1>7. t = IF BcTruthy(v) THEN BcState(start, st, x, "runs") ELSE BcState(else, st, x, "runs")
  BY <1>1, <1>5, <1>6 DEF Outcome, one
<1>8. CASE BcTruthy(v)
  <2> DEFINE p == start + Len(then)
             st2 == Append(st, value)
  <2>1. Reach(code, BcState(at, st, var, "runs"), BcState(start, st, x, "runs"))
    BY <1>5, <1>7, <1>8
  <2>2. Reach(code, BcState(start, st, x, "runs"), BcState(p, st2, after, "runs"))
    BY <1>8 DEF Gives
  <2>3. p \in 1 .. Len(code) /\ code[p] = k
    <3> HIDE DEF p
    <3>1. Held(code, <<k>>, p) /\ p \in Nat
      BY <1>3 DEF p
    <3> QED BY <3>1, HeldOne
  <2> HIDE DEF p, st2
  <2>4. PICK u : /\ Outcome(code[p], p, st2, after, u)
                 /\ Reach(code, BcState(p, st2, after, "runs"), u)
    BY <1>2, <2>3, StepFrom
  <2>5. u = BcState(end, st2, after, "runs")
    BY <1>2, <2>3, <2>4 DEF Outcome
  <2>6. Reach(code, BcState(at, st, var, "runs"), BcState(p, st2, after, "runs"))
    BY <2>1, <2>2, ReachOn
  <2> QED BY <2>4, <2>5, <2>6, ReachOn DEF st2
<1>9. CASE ~BcTruthy(v)
  <2>1. Reach(code, BcState(at, st, var, "runs"), BcState(else, st, x, "runs"))
    BY <1>5, <1>7, <1>9
  <2>2. Reach(code, BcState(else, st, x, "runs"),
                    BcState(end, Append(st, value), after, "runs"))
    BY <1>9 DEF Gives
  <2> QED BY <2>1, <2>2, ReachOn
<1> QED BY <1>8, <1>9

LEMMA YieldsIf ==
  ASSUME NEW code, CodeOK(code), NEW e \in BcExprs, NEW p \in BcExprs, NEW a \in BcExprs,
         e.op = "if",
         \/ e.args = <<p, a>>
         \/ \E b \in BcExprs : e.args = <<p, a, b>>,
         NEW var, NEW v, NEW x, NEW value, NEW after, Yields(code, p, var, v, x),
         BcTruthy(v) => Yields(code, a, x, value, after),
         ~BcTruthy(v) => IF Len(e.args) = 3 THEN Yields(code, e.args[3], x, value, after)
                         ELSE value = BcNull /\ after = x
  PROVE  Yields(code, e, var, value, after)
<1> SUFFICES ASSUME NEW at \in Nat, Held(code, BcCode[e][at], at)
             PROVE  Gives(code, BcCode[e][at], at, var, value, after)
  BY DEF Yields
<1>1. PICK operand : /\ BcCode[e][at] = BcForm(e, at, operand)
                     /\ operand[1] = BcCode[p] /\ operand[2] = BcCode[a]
                     /\ Len(e.args) = 3 => operand[3] = BcCode[e.args[3]]
  <2>1. CASE e.args = <<p, a>>
    BY <2>1, OperandCodes
  <2>2. CASE \E b \in BcExprs : e.args = <<p, a, b>>
    <3>1. PICK b \in BcExprs : e.args = <<p, a, b>>
      BY <2>2
    <3>2. e.args[3] = b
      BY <3>1
    <3>3. \E operand : /\ BcCode[e][at] = BcForm(e, at, operand)
                       /\ operand[1] = BcCode[p] /\ operand[2] = BcCode[a]
                       /\ operand[3] = BcCode[b]
      BY <3>1, OperandCodes
    <3> QED BY <3>2, <3>3
  <2> QED BY <2>1, <2>2
<1>2. ChoiceCode(e, at, operand, BcCode[e][at])
  BY <1>1, FormChoice
<1>3. PICK cond, start, then, else, last :
           /\ Choosing(e, at, operand, cond, start, then, else, last)
           /\ BcCode[e][at] = cond \o <<BcInstr("JUMP_IF_FALSE", else)>> \o then
                       \o <<BcInstr("JUMP", else + Len(last))>> \o last
  BY <1>2 DEF ChoiceCode
<1>4. /\ cond = BcCode[p][at] /\ start = at + Len(cond) + 1
      /\ then = BcCode[a][start] /\ else = start + Len(then) + 1
      /\ last = IF Len(e.args) = 3 THEN BcCode[e.args[3]][else] ELSE BcPush(BcNull)
  BY <1>1, <1>3 DEF Choosing
<1>5. cond \in Seq(Instrs) /\ start \in Nat
  <2>1. cond \in Seq(Instrs) /\ at + Len(cond) \in Nat
    BY <1>4, CodeTyped
  <2> QED BY <1>4, <2>1
<1>6. then \in Seq(Instrs) /\ else \in Nat
  <2>1. then \in Seq(Instrs) /\ start + Len(then) \in Nat
    BY <1>4, <1>5, CodeTyped
  <2>2. else = start + Len(then) + 1
    BY <1>4
  <2> QED BY <2>1, <2>2
<1>7. last \in Seq(Instrs)
  <2>1. CASE Len(e.args) = 3
    <3>1. e.args[3] \in BcExprs
      BY <2>1
    <3> QED BY <1>4, <1>6, <2>1, <3>1, CodeTyped
  <2>2. CASE Len(e.args) # 3
    <3>1. Fits(BcPush(BcNull), at, at)
      BY Scalars, PushFits
    <3> QED BY <1>4, <2>2, <3>1 DEF Fits
  <2> QED BY <2>1, <2>2
<1> DEFINE end == else + Len(last)
           j == BcInstr("JUMP_IF_FALSE", else)
           k == BcInstr("JUMP", end)
<1>8. end \in Nat
  BY <1>6, <1>7
<1>9. j \in Instrs /\ k \in Instrs
  <2> HIDE DEF end
  <2> QED BY <1>6, <1>8 DEF BcInstr, Instrs
<1>10. Held(code, cond \o <<j>> \o then \o <<k>> \o last, at)
  BY <1>3
<1>11. Branches(code, at, cond, j, then, k, last)
  <2> HIDE DEF j, k
  <2> QED BY <1>5, <1>6, <1>7, <1>9, <1>10, HeldChoice
<1>12. Held(code, cond, at) /\ Held(code, then, start) /\ Held(code, last, else)
  BY <1>4, <1>11 DEF Branches
<1>13. Gives(code, cond, at, var, v, x)
  BY <1>4, <1>12 DEF Yields
<1>14. BcTruthy(v) => Gives(code, then, start, x, value, after)
  BY <1>4, <1>5, <1>12 DEF Yields
<1>15. ~BcTruthy(v) => Gives(code, last, else, x, value, after)
  <2>1. CASE Len(e.args) = 3
    BY <1>4, <1>6, <1>12, <2>1 DEF Yields
  <2>2. CASE Len(e.args) # 3
    <3>1. Gives(code, BcPush(BcNull), else, x, BcNull, x)
      BY <1>4, <1>6, <1>12, <2>2, PushGives
    <3> QED BY <1>4, <2>2, <3>1
  <2> QED BY <2>1, <2>2
<1>16. Gives(code, cond \o <<j>> \o then \o <<k>> \o last, at, var, value, after)
  <2>1. end = else + Len(last) /\ j = BcInstr("JUMP_IF_FALSE", else) /\ k = BcInstr("JUMP", end)
    OBVIOUS
  <2>2. start = at + Len(cond) + 1 /\ else = start + Len(then) + 1
    BY <1>4
  <2> HIDE DEF end, j, k
  <2> QED BY <1>5, <1>6, <1>7, <1>8, <1>11, <1>13, <1>14, <1>15, <2>1, <2>2, ChoiceGives
<1> QED BY <1>3, <1>16

-----------------------------------------------------------------------------
(* What the interpreter does with each form.                               *)

LEMMA OperandResults ==
  ASSUME NEW e \in BcExprs, NEW var \in BcScalars
  PROVE  \E operand :
           /\ BcEval[e][var] = BcResult(e, var, operand)
           /\ \A a : e.args = <<a>> => operand[1] = BcEval[a]
           /\ \A a, b : e.args = <<a, b>> => operand[1] = BcEval[a] /\ operand[2] = BcEval[b]
           /\ \A a, b, c : e.args = <<a, b, c>> =>
                /\ operand[1] = BcEval[a] /\ operand[2] = BcEval[b] /\ operand[3] = BcEval[c]
<1> DEFINE operand == [k \in DOMAIN e.args |-> BcEval[e.args[k]]]
<1>1. BcEval[e][var] = BcResult(e, var, operand)
  BY EvalOf
<1>2. ASSUME NEW a, e.args = <<a>> PROVE operand[1] = BcEval[a]
  BY <1>2
<1>3. ASSUME NEW a, NEW b, e.args = <<a, b>>
      PROVE  operand[1] = BcEval[a] /\ operand[2] = BcEval[b]
  BY <1>3
<1>4. ASSUME NEW a, NEW b, NEW c, e.args = <<a, b, c>>
      PROVE  /\ operand[1] = BcEval[a] /\ operand[2] = BcEval[b] /\ operand[3] = BcEval[c]
  BY <1>4
<1> HIDE DEF operand
<1> QED BY <1>1, <1>2, <1>3, <1>4

(* The results of the forms the interpreter evaluates on its own.          *)
LEMMA ResultOf ==
  ASSUME NEW e, NEW var, NEW operand, NEW r, r = BcResult(e, var, operand),
         NEW first, first = operand[1][var]
  PROVE  /\ e.op = "lit" => r = [value |-> e.value, var |-> var]
         /\ e.op = "variable" => r = [value |-> var, var |-> var]
         /\ e.args # << >> /\ first.value \notin BcErrors =>
              /\ e.op = "define" => r = [value |-> BcNull, var |-> first.value]
              /\ e.op = "do" => r = operand[2][first.var]
              /\ e.op = "if" =>
                   r = IF BcTruthy(first.value) THEN operand[2][first.var]
                       ELSE IF Len(e.args) = 3 THEN operand[3][first.var]
                       ELSE [first EXCEPT !.value = BcNull]
              /\ e.op = "and" => r = IF BcAnd(first.value) THEN operand[2][first.var] ELSE first
              /\ e.op = "or" => r = IF BcOr(first.value) THEN first ELSE operand[2][first.var]
<1>1. e.op = "lit" => r = [value |-> e.value, var |-> var]
  BY DEF BcResult
<1>2. e.op = "variable" => r = [value |-> var, var |-> var]
  BY DEF BcResult
<1> SUFFICES ASSUME e.args # << >>, first.value \notin BcErrors
             PROVE  /\ e.op = "define" => r = [value |-> BcNull, var |-> first.value]
                    /\ e.op = "do" => r = operand[2][first.var]
                    /\ e.op = "if" =>
                         r = IF BcTruthy(first.value) THEN operand[2][first.var]
                             ELSE IF Len(e.args) = 3 THEN operand[3][first.var]
                             ELSE [first EXCEPT !.value = BcNull]
                    /\ e.op = "and" =>
                         r = IF BcAnd(first.value) THEN operand[2][first.var] ELSE first
                    /\ e.op = "or" =>
                         r = IF BcOr(first.value) THEN first ELSE operand[2][first.var]
  BY <1>1, <1>2, Zenon
<1>3. e.op = "define" => r = [value |-> BcNull, var |-> first.value]
  BY DEF BcResult
<1>4. e.op = "do" => r = operand[2][first.var]
  BY DEF BcResult
<1>5. e.op = "if" =>
        r = IF BcTruthy(first.value) THEN operand[2][first.var]
            ELSE IF Len(e.args) = 3 THEN operand[3][first.var]
            ELSE [first EXCEPT !.value = BcNull]
  BY DEF BcResult
<1>6. e.op = "and" => r = IF BcAnd(first.value) THEN operand[2][first.var] ELSE first
  BY DEF BcResult
<1>7. e.op = "or" => r = IF BcOr(first.value) THEN first ELSE operand[2][first.var]
  BY DEF BcResult
<1> QED BY <1>3, <1>4, <1>5, <1>6, <1>7

LEMMA ResultDo ==
  ASSUME NEW e, e.op = "do", e.args # << >>, NEW var, NEW operand,
         operand[1][var].value \notin BcErrors
  PROVE  BcResult(e, var, operand) = operand[2][operand[1][var].var]
<1> DEFINE second == operand[2][operand[1][var].var]
<1>1. BcResult(e, var, operand) = second
  BY DEF BcResult
<1> QED BY <1>1

(* What the operands came to, one after the other in one context.          *)
Ran(e, var, operand) ==
  LET one == operand[1][var]
      two == operand[2][one.var]
      three == operand[3][two.var]
  IN  [k \in DOMAIN e.args |-> CASE k = 1 -> one [] k = 2 -> two [] k = 3 -> three]

LEMMA ResultBuiltin ==
  ASSUME NEW e, e.op \in {"+", "-", "*", "<", "=", "list", "not"}, e.args # << >>,
         NEW var, NEW operand, operand[1][var].value \notin BcErrors,
         NEW ran, ran = Ran(e, var, operand)
  PROVE  BcResult(e, var, operand)
           = [value |-> BcBuiltin(e.op, [k \in DOMAIN ran |-> ran[k].value]),
              var |-> ran[Len(ran)].var]
<1>1. e.op \notin {"lit", "variable", "define", "do", "if", "and", "or"}
  OBVIOUS
<1>2. LET all == Ran(e, var, operand) IN
      BcResult(e, var, operand)
        = [value |-> BcBuiltin(e.op, [k \in DOMAIN all |-> all[k].value]),
           var |-> all[Len(all)].var]
  BY <1>1 DEF BcResult, Ran
<1> QED BY <1>2

(* Builtins of values none of which is an exception.                       *)
Strange(va, vb) == va[1] # "num" \/ vb[1] # "num"

LEMMA BuiltinAlone ==
  ASSUME NEW v, v \notin BcErrors
  PROVE  /\ BcBuiltin("not", <<v>>) = BcBool(~BcTruthy(v))
         /\ v[1] = "num" => BcBuiltin("-", <<v>>) = BcNum(-v[2])
<1> DEFINE values == <<v>>
<1>1. DOMAIN values = {1} /\ values[1] = v /\ Len(values) = 1
  OBVIOUS
<1> HIDE DEF values
<1>2. {k \in DOMAIN values : values[k] \in BcErrors} = {}
  BY <1>1
<1>3. (\E k \in DOMAIN values : values[k][1] # "num") <=> v[1] # "num"
  BY <1>1
<1>4. BcBuiltin("not", values) = BcBool(~BcTruthy(v))
  BY <1>1, <1>2 DEF BcBuiltin
<1>5. v[1] = "num" => BcBuiltin("-", values) = BcNum(-v[2])
  BY <1>1, <1>2, <1>3 DEF BcBuiltin
<1> QED BY <1>4, <1>5 DEF values

PairRules(va, vb) ==
  /\ BcBuiltin("<", <<va, vb>>) = BcBinary("LT", va, vb)
  /\ BcBuiltin("=", <<va, vb>>) = BcBool(va = vb)
  /\ BcBuiltin("list", <<va, vb>>) = <<"list", <<va, vb>> >>
  /\ BcBuiltin("+", <<va, vb>>)
       = IF Strange(va, vb) THEN BcMismatch ELSE BcNum(va[2] + vb[2] + 0)
  /\ BcBuiltin("-", <<va, vb>>)
       = IF Strange(va, vb) THEN BcMismatch ELSE BcNum(va[2] - vb[2])
  /\ BcBuiltin("*", <<va, vb>>)
       = IF Strange(va, vb) THEN BcMismatch ELSE BcNum(va[2] * vb[2])

LEMMA BuiltinPaired ==
  ASSUME NEW va, NEW vb, va \notin BcErrors, vb \notin BcErrors
  PROVE  PairRules(va, vb)
<1> DEFINE values == <<va, vb>>
           strange == Strange(va, vb)
<1>1. DOMAIN values = {1, 2} /\ values[1] = va /\ values[2] = vb /\ Len(values) = 2
  OBVIOUS
<1> HIDE DEF values
<1>2. {k \in DOMAIN values : values[k] \in BcErrors} = {}
  BY <1>1
<1>3. (\E k \in DOMAIN values : values[k][1] # "num") <=> strange
  BY <1>1 DEF Strange
<1> HIDE DEF strange
<1>4. BcBuiltin("<", values) = BcBinary("LT", va, vb)
  BY <1>1, <1>2 DEF BcBuiltin
<1>5. BcBuiltin("=", values) = BcBool(va = vb)
  BY <1>1, <1>2 DEF BcBuiltin
<1>6. BcBuiltin("list", values) = <<"list", values>>
  BY <1>1, <1>2 DEF BcBuiltin
<1>7. BcBuiltin("+", values) = IF strange THEN BcMismatch ELSE BcNum(va[2] + vb[2] + 0)
  BY <1>1, <1>2, <1>3 DEF BcBuiltin
<1>8. BcBuiltin("-", values) = IF strange THEN BcMismatch ELSE BcNum(va[2] - vb[2])
  BY <1>1, <1>2, <1>3 DEF BcBuiltin
<1>9. BcBuiltin("*", values) = IF strange THEN BcMismatch ELSE BcNum(va[2] * vb[2])
  BY <1>1, <1>2, <1>3 DEF BcBuiltin
<1> QED BY <1>4, <1>5, <1>6, <1>7, <1>8, <1>9 DEF values, strange, PairRules

(* What the operands come to is what the builtin is applied to.            *)
LEMMA EvalAlone ==
  ASSUME NEW e \in BcExprs, NEW a, e.args = <<a>>, e.op \in {"-", "not"},
         NEW var \in BcScalars, NEW v, NEW x, v \notin BcErrors,
         BcEval[a][var] = [value |-> v, var |-> x]
  PROVE  BcEval[e][var] = [value |-> BcBuiltin(e.op, <<v>>), var |-> x]
<1>1. PICK operand : BcEval[e][var] = BcResult(e, var, operand) /\ operand[1] = BcEval[a]
  BY OperandResults
<1> DEFINE first == operand[1][var]
           ran == Ran(e, var, operand)
<1>2. first = [value |-> v, var |-> x] /\ first.value = v /\ first.var = x
  BY <1>1
<1>3. ran = <<first>>
  <2>1. DOMAIN e.args = {1}
    OBVIOUS
  <2>2. ran = [k \in {1} |-> first]
    BY <2>1 DEF Ran
  <2> HIDE DEF first, ran
  <2> QED BY <2>2
<1>4. /\ [k \in DOMAIN ran |-> ran[k].value] = <<v>> /\ ran[Len(ran)] = first
  <2> HIDE DEF first, ran
  <2> QED BY <1>2, <1>3
<1>5. BcResult(e, var, operand)
        = [value |-> BcBuiltin(e.op, [k \in DOMAIN ran |-> ran[k].value]),
           var |-> ran[Len(ran)].var]
  <2>1. first.value \notin BcErrors /\ e.args # << >>
    BY <1>2
  <2> QED BY <2>1, ResultBuiltin
<1> HIDE DEF first, ran
<1> QED BY <1>1, <1>2, <1>4, <1>5

LEMMA EvalPaired ==
  ASSUME NEW e \in BcExprs, NEW a, NEW b, e.args = <<a, b>>,
         e.op \in {"+", "-", "*", "<", "=", "list"}, NEW var \in BcScalars,
         NEW va, NEW vb, NEW x, NEW y, va \notin BcErrors,
         BcEval[a][var] = [value |-> va, var |-> x],
         BcEval[b][x] = [value |-> vb, var |-> y]
  PROVE  BcEval[e][var] = [value |-> BcBuiltin(e.op, <<va, vb>>), var |-> y]
<1>1. PICK operand : /\ BcEval[e][var] = BcResult(e, var, operand)
                     /\ operand[1] = BcEval[a] /\ operand[2] = BcEval[b]
  BY OperandResults
<1> DEFINE first == operand[1][var]
           second == operand[2][first.var]
           ran == Ran(e, var, operand)
<1>2. first = [value |-> va, var |-> x] /\ first.value = va /\ first.var = x
  BY <1>1
<1>3. second = [value |-> vb, var |-> y] /\ second.value = vb /\ second.var = y
  <2>1. operand[2][x] = [value |-> vb, var |-> y]
    BY <1>1
  <2> QED BY <1>2, <2>1
<1>4. ran = <<first, second>>
  <2>1. DOMAIN e.args = {1, 2}
    OBVIOUS
  <2>2. ran = [k \in {1, 2} |-> IF k = 1 THEN first ELSE second]
    BY <2>1 DEF Ran
  <2> HIDE DEF first, second, ran
  <2> QED BY <2>2
<1>5. [k \in DOMAIN ran |-> ran[k].value] = <<va, vb>> /\ ran[Len(ran)] = second
  <2> HIDE DEF first, second, ran
  <2> QED BY <1>2, <1>3, <1>4
<1>6. BcResult(e, var, operand)
        = [value |-> BcBuiltin(e.op, [k \in DOMAIN ran |-> ran[k].value]),
           var |-> ran[Len(ran)].var]
  <2>1. first.value \notin BcErrors /\ e.args # << >>
    BY <1>2
  <2> QED BY <2>1, ResultBuiltin
<1> HIDE DEF first, second, ran
<1> QED BY <1>1, <1>3, <1>5, <1>6

(* Values that are no exceptions.                                          *)
LEMMA NumberValue ==
  ASSUME NEW n \in Int, NEW v, v = BcNum(n)
  PROVE  /\ v[1] = "num" /\ v[2] = n /\ v \in BcScalars /\ v \notin BcErrors
         /\ BcToNumber(v) = n
<1>1. v[1] = "num" /\ v[2] = n
  BY DEF BcNum
<1>2. v \notin BcErrors
  BY <1>1 DEF BcErrors, BcError, BcMismatch
<1>3. BcToNumber(v) = n
  BY <1>1 DEF BcToNumber
<1>4. v \in BcScalars
  BY Scalars
<1> QED BY <1>1, <1>2, <1>3, <1>4

LEMMA TruthValue ==
  ASSUME NEW b \in BOOLEAN, NEW v, v = BcBool(b)
  PROVE  /\ v[1] = "bool" /\ v \in BcScalars /\ v \notin BcErrors
         /\ BcTruthy(v) <=> b
         /\ BcAnd(v) <=> b
         /\ BcOr(v) <=> b
<1>1. v[1] = "bool" /\ v[2] = b
  BY DEF BcBool
<1>2. v \notin BcErrors /\ v # BcNull
  BY <1>1 DEF BcErrors, BcError, BcMismatch, BcNull
<1>3. BcTruthy(v) <=> b
  BY <1>1 DEF BcTruthy
<1>4. v = BcBool(FALSE) <=> ~b
  <2>1. BcBool(FALSE)[2] = FALSE
    BY DEF BcBool
  <2> QED BY <1>1, <2>1
<1> QED BY <1>1, <1>2, <1>3, <1>4, Scalars DEF BcAnd, BcOr

LEMMA NullValue == BcNull \in BcScalars /\ BcNull \notin BcErrors
<1>1. BcNull[1] = "null" /\ BcError[1] = "error" /\ BcMismatch[1] = "mismatch"
  BY DEF BcNull, BcError, BcMismatch
<1> QED BY <1>1, Scalars DEF BcErrors

(* A scalar that is no exception is a number, a truth value or null.       *)
LEMMA ScalarNumber ==
  ASSUME NEW v \in BcScalars
  PROVE  v[1] # "list" /\ (v[1] = "num" => \E n \in Int : v = BcNum(n))
<1>1. \A b \in BOOLEAN : BcBool(b)[1] = "bool"
  BY DEF BcBool
<1>2. BcNull[1] = "null" /\ BcError[1] = "error" /\ BcMismatch[1] = "mismatch"
  BY DEF BcNull, BcError, BcMismatch
<1>3. \A n \in Int : BcNum(n)[1] = "num"
  BY DEF BcNum
<1> QED BY <1>1, <1>2, <1>3, Scalars

(* The builtins the machine has an opcode for: alike, but for operands the  *)
(* interpreter does not take.                                              *)
LEMMA BuiltinBinary ==
  ASSUME NEW op \in {"+", "-", "*", "<", "="}, NEW va \in BcScalars, NEW vb \in BcScalars,
         va \notin BcErrors, vb \notin BcErrors, NEW v, v = BcBuiltin(op, <<va, vb>>)
  PROVE  \/ v = BcMismatch /\ op \in {"+", "-", "*"} /\ Strange(va, vb)
         \/ /\ v = BcBinary(BcOpcode[op], va, vb)
            /\ v \in BcScalars /\ v \notin BcErrors
<1> DEFINE strange == Strange(va, vb)
           of(o) == BcBuiltin(o, <<va, vb>>)
<1>0. /\ of("<") = BcBinary("LT", va, vb)
      /\ of("=") = BcBool(va = vb)
      /\ of("+") = IF strange THEN BcMismatch ELSE BcNum(va[2] + vb[2] + 0)
      /\ of("-") = IF strange THEN BcMismatch ELSE BcNum(va[2] - vb[2])
      /\ of("*") = IF strange THEN BcMismatch ELSE BcNum(va[2] * vb[2])
  <2>1. PairRules(va, vb)
    BY BuiltinPaired, Zenon
  <2> QED BY <2>1, Zenon DEF PairRules
<1>b. strange <=> (va[1] # "num" \/ vb[1] # "num")
  BY DEF Strange
<1>c. v = of(op)
  OBVIOUS
<1> HIDE DEF strange, of
<1>1. CASE op = "<"
  <2>1. v = BcBinary("LT", va, vb)
    BY <1>0, <1>c, <1>1
  <2>2. BcOpcode[op] = "LT"
    BY <1>1 DEF BcOpcode
  <2> DEFINE less == BcToNumber(va) < BcToNumber(vb)
  <2>3. BcBinary("LT", va, vb) = BcBool(less)
    BY DEF BcBinary
  <2>4. less \in BOOLEAN
    BY ScalarParts
  <2> HIDE DEF less
  <2>5. v \in BcScalars /\ v \notin BcErrors
    BY <2>1, <2>3, <2>4, TruthValue
  <2> QED BY <2>1, <2>2, <2>5
<1>2. CASE op = "="
  <2>1. v = BcBool(va = vb)
    BY <1>0, <1>c, <1>2
  <2>2. BcOpcode[op] = "EQ"
    BY <1>2 DEF BcOpcode
  <2>3. BcBinary("EQ", va, vb) = BcBool(va = vb /\ va[1] # "list")
    BY DEF BcBinary
  <2>4. (va = vb /\ va[1] # "list") = (va = vb)
    BY ScalarNumber
  <2>5. (va = vb) \in BOOLEAN
    OBVIOUS
  <2>6. v \in BcScalars /\ v \notin BcErrors
    BY <2>1, <2>5, TruthValue
  <2> QED BY <2>1, <2>2, <2>3, <2>4, <2>6
<1>3. CASE op \in {"+", "-", "*"} /\ strange
  BY <1>0, <1>c, <1>3 DEF strange
<1>4. CASE op \in {"+", "-", "*"} /\ ~strange
  <2>1. PICK m \in Int, n \in Int : va = BcNum(m) /\ vb = BcNum(n)
    BY <1>4, <1>b, ScalarNumber
  <2>2. va[2] = m /\ vb[2] = n /\ BcToNumber(va) = m /\ BcToNumber(vb) = n
    BY <2>1, NumberValue
  <2>3. op = "+" => v = BcNum(va[2] + vb[2] + 0)
    BY <1>0, <1>c, <1>4
  <2>4. op = "-" => v = BcNum(va[2] - vb[2])
    BY <1>0, <1>c, <1>4
  <2>5. op = "*" => v = BcNum(va[2] * vb[2])
    BY <1>0, <1>c, <1>4
  <2>6. /\ BcBinary("ADD", va, vb) = BcNum(m + n)
        /\ BcBinary("SUB", va, vb) = BcNum(m - n)
        /\ BcBinary("MUL", va, vb) = BcNum(m * n)
    BY <2>2 DEF BcBinary
  <2>7. BcOpcode["+"] = "ADD" /\ BcOpcode["-"] = "SUB" /\ BcOpcode["*"] = "MUL"
    BY DEF BcOpcode
  <2>8. m + n + 0 = m + n
    OBVIOUS
  <2>9. v = BcBinary(BcOpcode[op], va, vb)
    BY <1>4, <2>2, <2>3, <2>4, <2>5, <2>6, <2>7, <2>8
  <2>10. v \in {BcNum(m + n), BcNum(m - n), BcNum(m * n)}
    BY <1>4, <2>2, <2>3, <2>4, <2>5, <2>8
  <2>11. m + n \in Int /\ m - n \in Int /\ m * n \in Int
    OBVIOUS
  <2>12. v \in BcScalars /\ v \notin BcErrors
    BY <2>10, <2>11, NumberValue
  <2> QED BY <2>9, <2>12
<1> QED BY <1>1, <1>2, <1>3, <1>4

-----------------------------------------------------------------------------
(* Interpreter and machine come to the same value, which is no exception,   *)
(* and make the same of the variable.                                      *)
Same(code, e, var, v, after) ==
  /\ v \in BcScalars /\ v \notin BcErrors /\ after \in BcScalars
  /\ BcEval[e][var] = [value |-> v, var |-> after]
  /\ Yields(code, e, var, v, after)

LEMMA SameLiteral ==
  ASSUME NEW code, CodeOK(code), NEW e \in BcExprs, e.op = "lit", NEW var \in BcScalars,
         NEW v, v = e.value, v \in BcScalars, v \notin BcErrors
  PROVE  Same(code, e, var, v, var)
<1>1. PICK operand : BcEval[e][var] = BcResult(e, var, operand)
  BY OperandResults
<1>2. BcResult(e, var, operand) = [value |-> v, var |-> var]
  BY ResultOf
<1>3. Yields(code, e, var, v, var)
  BY YieldsLiteral
<1> QED BY <1>1, <1>2, <1>3 DEF Same

LEMMA NumberLiteral ==
  ASSUME NEW e \in BcNumbers0
  PROVE  e \in BcExprs /\ e.op = "lit" /\ \E n \in Int : e.value = BcNum(n)
<1>1. PICK n \in BcLiterals : e = BcLit(BcNum(n))
  BY DEF BcNumbers0
<1>2. n \in Int
  BY BytecodeAssumption
<1> HIDE DEF BcNum
<1>3. e.op = "lit" /\ e.value = BcNum(n)
  BY <1>1 DEF BcLit
<1>4. e \in BcExprs
  BY Inside DEF Leaves
<1> QED BY <1>2, <1>3, <1>4

LEMMA TruthLiteral ==
  ASSUME NEW e \in BcTruths0
  PROVE  e \in BcExprs /\ e.op = "lit" /\ \E b \in BOOLEAN : e.value = BcBool(b)
<1>1. PICK b \in BOOLEAN : e = BcLit(BcBool(b))
  BY DEF BcTruths0
<1> HIDE DEF BcBool
<1>3. e.op = "lit" /\ e.value = BcBool(b)
  BY <1>1 DEF BcLit
<1>4. e \in BcExprs
  BY Inside DEF Leaves
<1> QED BY <1>3, <1>4

LEMMA SameNumber ==
  ASSUME NEW code, CodeOK(code), NEW e \in BcNumbers0, NEW var \in BcScalars
  PROVE  e \in BcExprs /\ Same(code, e, var, e.value, var)
<1>1. e \in BcExprs /\ e.op = "lit"
  BY NumberLiteral
<1>2. PICK n \in Int : e.value = BcNum(n)
  BY NumberLiteral
<1>3. e.value \in BcScalars /\ e.value \notin BcErrors
  BY <1>2, NumberValue
<1> QED BY <1>1, <1>3, SameLiteral

LEMMA SameVariable ==
  ASSUME NEW code, CodeOK(code), NEW var \in BcScalars, var \notin BcErrors
  PROVE  Same(code, BcVar, var, var, var)
<1>1. BcVar \in BcExprs /\ BcVar.op = "variable"
  BY Inside DEF Leaves, BcVar, BcOp
<1> DEFINE e == BcVar
<1> HIDE DEF e
<1>2. PICK operand : BcEval[e][var] = BcResult(e, var, operand)
  BY <1>1, OperandResults DEF e
<1>3. BcResult(e, var, operand) = [value |-> var, var |-> var]
  BY <1>1, ResultOf DEF e
<1>4. Yields(code, e, var, var, var)
  BY <1>1, YieldsVariable DEF e, BcErrors
<1> QED BY <1>2, <1>3, <1>4 DEF Same, e

LEMMA SameDefine ==
  ASSUME NEW code, CodeOK(code), NEW e \in BcExprs, NEW a \in BcExprs,
         e.op = "define", e.args = <<a>>, NEW var \in BcScalars, NEW v, NEW x,
         Same(code, a, var, v, x)
  PROVE  Same(code, e, var, BcNull, v)
<1>1. /\ Yields(code, a, var, v, x) /\ v \in BcScalars /\ v \notin BcErrors
      /\ BcEval[a][var] = [value |-> v, var |-> x]
  BY DEF Same
<1>2. PICK operand : BcEval[e][var] = BcResult(e, var, operand) /\ operand[1] = BcEval[a]
  BY OperandResults
<1> DEFINE first == operand[1][var]
<1>3. first.value = v
  BY <1>1, <1>2
<1>4. BcResult(e, var, operand) = [value |-> BcNull, var |-> v]
  <2>1. e.args # << >>
    OBVIOUS
  <2> HIDE DEF first
  <2> QED BY <1>1, <1>3, <2>1, ResultOf DEF first
<1>5. Yields(code, e, var, BcNull, v)
  BY <1>1, YieldsDefine
<1> QED BY <1>1, <1>2, <1>4, <1>5, NullValue DEF Same

LEMMA SameDo ==
  ASSUME NEW code, CodeOK(code), NEW e \in BcExprs, NEW a \in BcExprs, NEW b \in BcExprs,
         e.op = "do", e.args = <<a, b>>, NEW var \in BcScalars,
         NEW va, NEW vb, NEW x, NEW y, Same(code, a, var, va, x), Same(code, b, x, vb, y)
  PROVE  Same(code, e, var, vb, y)
<1>1. /\ Yields(code, a, var, va, x) /\ va \notin BcErrors
      /\ BcEval[a][var] = [value |-> va, var |-> x]
  BY DEF Same
<1>2. /\ vb \in BcScalars /\ vb \notin BcErrors /\ y \in BcScalars
      /\ BcEval[b][x] = [value |-> vb, var |-> y] /\ Yields(code, b, x, vb, y)
  BY DEF Same
<1>3. PICK operand : /\ BcEval[e][var] = BcResult(e, var, operand)
                     /\ operand[1] = BcEval[a] /\ operand[2] = BcEval[b]
  BY OperandResults
<1>4. PICK first : first = operand[1][var]
  OBVIOUS
<1>5. first.value = va /\ first.var = x /\ first.value \notin BcErrors /\ e.args # << >>
  BY <1>1, <1>3, <1>4
<1>a. BcResult(e, var, operand) = operand[2][x]
  <2>1. BcResult(e, var, operand) = operand[2][operand[1][var].var]
    BY <1>4, <1>5, ResultDo
  <2>2. operand[1][var].var = x
    BY <1>4, <1>5
  <2> QED BY <2>1, <2>2
<1>6. Yields(code, e, var, vb, y)
  BY <1>1, <1>2, YieldsDo
<1> QED BY <1>2, <1>3, <1>6, <1>a DEF Same

(* A choice: the condition is a truth value, whose branch both take.       *)
LEMMA SameIf ==
  ASSUME NEW code, CodeOK(code), NEW e \in BcExprs, NEW p \in BcExprs, NEW a \in BcExprs,
         e.op = "if", NEW var \in BcScalars, NEW t \in BOOLEAN, NEW x, NEW v, NEW y,
         Same(code, p, var, BcBool(t), x),
         t => Same(code, a, x, v, y),
         \/ e.args = <<p, a>> /\ (~t => v = BcNull /\ y = x)
         \/ \E b \in BcExprs : e.args = <<p, a, b>> /\ (~t => Same(code, b, x, v, y))
  PROVE  Same(code, e, var, v, y)
<1> DEFINE c == BcBool(t)
<1>1. /\ Yields(code, p, var, c, x) /\ c \notin BcErrors /\ x \in BcScalars
      /\ BcEval[p][var] = [value |-> c, var |-> x]
  BY DEF Same
<1>2. BcTruthy(c) <=> t
  BY TruthValue
<1>3. PICK operand : /\ BcEval[e][var] = BcResult(e, var, operand)
                     /\ e.args = <<p, a>> => operand[1] = BcEval[p] /\ operand[2] = BcEval[a]
                     /\ \A b : e.args = <<p, a, b>> =>
                          /\ operand[1] = BcEval[p] /\ operand[2] = BcEval[a]
                          /\ operand[3] = BcEval[b]
  BY OperandResults
<1> HIDE DEF c
<1> DEFINE first == operand[1][var]
<1>4. first = [value |-> c, var |-> x] /\ first.value = c /\ first.var = x
  BY <1>1, <1>3
<1>5. operand[2] = BcEval[a] /\ e.args # << >>
  BY <1>3
<1>6. BcResult(e, var, operand)
        = IF BcTruthy(c) THEN operand[2][x]
          ELSE IF Len(e.args) = 3 THEN operand[3][x]
          ELSE [value |-> BcNull, var |-> x]
  <2>1. [first EXCEPT !.value = BcNull] = [value |-> BcNull, var |-> x]
    BY <1>4
  <2> HIDE DEF first
  <2>2. BcResult(e, var, operand)
          = IF BcTruthy(first.value) THEN operand[2][first.var]
            ELSE IF Len(e.args) = 3 THEN operand[3][first.var]
            ELSE [first EXCEPT !.value = BcNull]
    BY <1>1, <1>4, <1>5, ResultOf DEF first
  <2> QED BY <1>4, <2>1, <2>2
<1> HIDE DEF first
<1>7. CASE t
  <2>1. /\ v \in BcScalars /\ v \notin BcErrors /\ y \in BcScalars
        /\ BcEval[a][x] = [value |-> v, var |-> y] /\ Yields(code, a, x, v, y)
    BY <1>7 DEF Same
  <2>2. BcEval[e][var] = [value |-> v, var |-> y]
    BY <1>2, <1>3, <1>5, <1>6, <1>7, <2>1
  <2>3. e.args = <<p, a>> \/ \E b \in BcExprs : e.args = <<p, a, b>>
    OBVIOUS
  <2>4. Yields(code, e, var, v, y)
    BY <1>1, <1>2, <1>7, <2>1, <2>3, YieldsIf
  <2> QED BY <2>1, <2>2, <2>4 DEF Same
<1>8. CASE ~t /\ e.args = <<p, a>>
  <2>1. Len(e.args) # 3 /\ e.args # <<p, a, e>>
    BY <1>8
  <2>2. v = BcNull /\ y = x
    <3>1. \A b : e.args # <<p, a, b>>
      <4>1. \A b : Len(<<p, a, b>>) = 3
        OBVIOUS
      <4> QED BY <2>1, <4>1
    <3> QED BY <1>8, <3>1
  <2>3. BcEval[e][var] = [value |-> v, var |-> y]
    BY <1>2, <1>3, <1>6, <1>8, <2>1, <2>2
  <2>4. Yields(code, e, var, v, y)
    BY <1>1, <1>2, <1>8, <2>1, <2>2, YieldsIf
  <2> QED BY <1>1, <2>2, <2>3, <2>4, NullValue DEF Same
<1>9. CASE ~t /\ \E b \in BcExprs : e.args = <<p, a, b>> /\ (~t => Same(code, b, x, v, y))
  <2>1. PICK b \in BcExprs : e.args = <<p, a, b>> /\ Same(code, b, x, v, y)
    BY <1>9
  <2>2. Len(e.args) = 3 /\ e.args[3] = b /\ operand[3] = BcEval[b]
    BY <1>3, <2>1
  <2>3. /\ v \in BcScalars /\ v \notin BcErrors /\ y \in BcScalars
        /\ BcEval[b][x] = [value |-> v, var |-> y] /\ Yields(code, b, x, v, y)
    BY <2>1 DEF Same
  <2>4. BcEval[e][var] = [value |-> v, var |-> y]
    BY <1>2, <1>3, <1>6, <1>9, <2>2, <2>3
  <2>5. Yields(code, e, var, v, y)
    BY <1>1, <1>2, <1>9, <2>1, <2>2, <2>3, YieldsIf
  <2> QED BY <2>3, <2>4, <2>5 DEF Same
<1> QED BY <1>7, <1>8, <1>9

(* An operator: the same, unless the interpreter finds no number where it   *)
(* wants one.                                                              *)
LEMMA SameBinary ==
  ASSUME NEW code, CodeOK(code), NEW e \in BcExprs, NEW a \in BcExprs, NEW b \in BcExprs,
         e.op \in {"+", "-", "*", "<", "="}, e.args = <<a, b>>, NEW var \in BcScalars,
         NEW va, NEW vb, NEW x, NEW y, Same(code, a, var, va, x), Same(code, b, x, vb, y),
         NEW v, v = BcBuiltin(e.op, <<va, vb>>)
  PROVE  /\ BcEval[e][var] = [value |-> v, var |-> y]
         /\ \/ v = BcMismatch /\ e.op \in {"+", "-", "*"} /\ Strange(va, vb)
            \/ v = BcBinary(BcOpcode[e.op], va, vb) /\ Same(code, e, var, v, y)
<1>1. /\ va \in BcScalars /\ va \notin BcErrors /\ Yields(code, a, var, va, x)
      /\ BcEval[a][var] = [value |-> va, var |-> x]
  BY DEF Same
<1>2. /\ vb \in BcScalars /\ vb \notin BcErrors /\ y \in BcScalars /\ Yields(code, b, x, vb, y)
      /\ BcEval[b][x] = [value |-> vb, var |-> y]
  BY DEF Same
<1>3. BcEval[e][var] = [value |-> v, var |-> y]
  <2>1. e.op \in {"+", "-", "*", "<", "=", "list"}
    OBVIOUS
  <2> QED BY <1>1, <1>2, <2>1, EvalPaired
<1>4. \/ v = BcMismatch /\ e.op \in {"+", "-", "*"} /\ Strange(va, vb)
      \/ v = BcBinary(BcOpcode[e.op], va, vb) /\ v \in BcScalars /\ v \notin BcErrors
  BY <1>1, <1>2, BuiltinBinary
<1>5. Yields(code, e, var, BcBinary(BcOpcode[e.op], va, vb), y)
  <2>1. e.op \in {"+", "-", "*", "<", "=", "and", "or"}
    OBVIOUS
  <2> QED BY <1>1, <1>2, <2>1, YieldsBinary
<1> QED BY <1>2, <1>3, <1>4, <1>5 DEF Same

LEMMA SameNot ==
  ASSUME NEW code, CodeOK(code), NEW e \in BcExprs, NEW a \in BcExprs,
         e.op = "not", e.args = <<a>>, NEW var \in BcScalars, NEW b \in BOOLEAN, NEW x,
         Same(code, a, var, BcBool(b), x)
  PROVE  Same(code, e, var, BcBool(~b), x)
<1> DEFINE v == BcBool(b)
<1>1. /\ v \notin BcErrors /\ x \in BcScalars /\ Yields(code, a, var, v, x)
      /\ BcEval[a][var] = [value |-> v, var |-> x]
  BY DEF Same
<1>2. BcTruthy(v) <=> b
  BY TruthValue
<1> HIDE DEF v
<1>3. BcEval[e][var] = [value |-> BcBuiltin("not", <<v>>), var |-> x]
  BY <1>1, EvalAlone
<1>4. BcBuiltin("not", <<v>>) = BcBool(~BcTruthy(v))
  BY <1>1, BuiltinAlone
<1>5. Yields(code, e, var, BcBool(~BcTruthy(v)), x)
  BY <1>1, YieldsNot
<1>6. (~BcTruthy(v)) = (~b) /\ (~b) \in BOOLEAN
  BY <1>2
<1>7. BcBool(~b) \in BcScalars /\ BcBool(~b) \notin BcErrors
  BY <1>6, TruthValue
<1> QED BY <1>1, <1>3, <1>4, <1>5, <1>6, <1>7 DEF Same

LEMMA SameNegated ==
  ASSUME NEW code, CodeOK(code), NEW e \in BcExprs, NEW a \in BcExprs,
         e.op = "-", e.args = <<a>>, NEW var \in BcScalars, NEW n \in Int, NEW x,
         Same(code, a, var, BcNum(n), x)
  PROVE  Same(code, e, var, BcNum(-n), x)
<1> DEFINE v == BcNum(n)
           zero == BcNum(0)
<1>1. /\ v \notin BcErrors /\ x \in BcScalars /\ Yields(code, a, var, v, x)
      /\ BcEval[a][var] = [value |-> v, var |-> x]
  BY DEF Same
<1>2. v[1] = "num" /\ v[2] = n /\ BcToNumber(v) = n /\ BcToNumber(zero) = 0
  BY NumberValue
<1> HIDE DEF v
<1>3. BcEval[e][var] = [value |-> BcBuiltin("-", <<v>>), var |-> x]
  BY <1>1, EvalAlone
<1>4. BcBuiltin("-", <<v>>) = BcNum(-n)
  BY <1>1, <1>2, BuiltinAlone
<1>5. Yields(code, e, var, BcBinary("SUB", zero, v), x)
  BY <1>1, YieldsNegated
<1> HIDE DEF zero
<1>6. BcBinary("SUB", zero, v) = BcNum(0 - n)
  BY <1>2 DEF BcBinary
<1>7. 0 - n = -n /\ -n \in Int
  OBVIOUS
<1>8. BcNum(-n) \in BcScalars /\ BcNum(-n) \notin BcErrors
  BY <1>7, NumberValue
<1> QED BY <1>1, <1>3, <1>4, <1>5, <1>6, <1>7, <1>8 DEF Same

-----------------------------------------------------------------------------
(* Code at which the machine throws, wherever it is.                       *)
ThrowsAt(code, at, var) ==
  \A st : IsSeq(st) =>
    \E s : s.state = "thrown" /\ Reach(code, BcState(at, st, var, "runs"), s)

Throws(code, e, var) ==
  \A at \in Nat : Held(code, BcCode[e][at], at) => ThrowsAt(code, at, var)

(* The machine has no variable where none was defined.                     *)
LEMMA VariableThrows ==
  ASSUME NEW code, CodeOK(code)
  PROVE  Throws(code, BcVar, BcUnset)
<1> DEFINE e == BcVar
           i == BcNop("PUSH_VAR")
<1>1. e \in BcExprs /\ e.op = "variable"
  BY Inside DEF Leaves, BcVar, BcOp
<1>2. i.op = "PUSH_VAR"
  BY DEF BcNop, BcInstr
<1> HIDE DEF e, i
<1> SUFFICES ASSUME NEW at \in Nat, Held(code, BcCode[e][at], at), NEW st, IsSeq(st)
             PROVE  \E s : /\ s.state = "thrown"
                           /\ Reach(code, BcState(at, st, BcUnset, "runs"), s)
  BY DEF Throws, ThrowsAt, e
<1>3. BcCode[e][at] = <<i>>
  <2>1. PICK operand : BcCode[e][at] = BcForm(e, at, operand)
    BY <1>1, OperandCodes
  <2>2. BcForm(e, at, operand) = <<i>>
    BY <1>1, FormOf DEF i
  <2> QED BY <2>1, <2>2
<1>4. at \in 1 .. Len(code) /\ code[at] = i
  BY <1>3, HeldOne
<1>5. PICK t : /\ Outcome(code[at], at, st, BcUnset, t)
               /\ Reach(code, BcState(at, st, BcUnset, "runs"), t)
  BY <1>2, <1>4, StepFrom
<1>6. t = BcState(at, st, BcUnset, "thrown")
  BY <1>2, <1>4, <1>5 DEF Outcome
<1>7. t.state = "thrown"
  BY <1>6, StateParts
<1> QED BY <1>5, <1>7

(* Once it has thrown, what comes behind does not matter.                  *)
LEMMA ReachThrows ==
  ASSUME NEW code, NEW jo, NEW s, NEW x, NEW to,
         Reach(code, s, BcState(jo, to, x, "runs")), IsSeq(to), ThrowsAt(code, jo, x)
  PROVE  \E t : t.state = "thrown" /\ Reach(code, s, t)
<1>1. PICK t : t.state = "thrown" /\ Reach(code, BcState(jo, to, x, "runs"), t)
  BY DEF ThrowsAt
<1> QED BY <1>1, ReachOn

(* A do whose last part throws.                                            *)
LEMMA DoThrows ==
  ASSUME NEW code, CodeOK(code), NEW e \in BcExprs, NEW a \in BcExprs, NEW b \in BcExprs,
         e.op = "do", e.args = <<a, b>>, NEW var, NEW va, NEW x,
         Yields(code, a, var, va, x), Throws(code, b, x)
  PROVE  Throws(code, e, var)
<1> SUFFICES ASSUME NEW at \in Nat, Held(code, BcCode[e][at], at), NEW st, IsSeq(st)
             PROVE  \E s : /\ s.state = "thrown"
                           /\ Reach(code, BcState(at, st, var, "runs"), s)
  BY DEF Throws, ThrowsAt
<1> DEFINE c == BcCode[a][at]
           h == <<BcNop("POP")>>
           first == c \o h
           p == at + Len(first)
           d == BcCode[b][p]
<1>1. BcCode[e][at] = first \o d
  <2>1. PICK operand : /\ BcCode[e][at] = BcForm(e, at, operand)
                       /\ operand[1] = BcCode[a] /\ operand[2] = BcCode[b]
    BY OperandCodes
  <2>2. BcForm(e, at, operand)
          = operand[1][at] \o h \o operand[2][at + Len(operand[1][at] \o h)]
    BY FormOf
  <2> QED BY <2>1, <2>2
<1>2. c \in Seq(Instrs) /\ Len(c) \in Nat /\ at + Len(c) \in Nat
  BY CodeTyped
<1>3. h \in Seq(Instrs) /\ Len(h) = 1
  BY OneTyped DEF BareOpcodes
<1>4. Held(code, c, at) => Gives(code, c, at, var, va, x)
  BY DEF Yields
<1> HIDE DEF c
<1>5. first \in Seq(Instrs) /\ p = at + Len(c) + 1 /\ p \in Nat
  <2>1. first \in Seq(Instrs) /\ Len(first) = Len(c) + Len(h)
    <3> HIDE DEF h
    <3> QED BY <1>2, <1>3, ConcatProperties
  <2> HIDE DEF first, h
  <2>2. p = at + Len(c) + 1
    BY <1>2, <1>3, <2>1
  <2> QED BY <1>2, <2>1, <2>2
<1> HIDE DEF p
<1>6. d \in Seq(Instrs)
  BY <1>5, CodeTyped
<1>7. Held(code, d, p) => ThrowsAt(code, p, x)
  BY <1>5 DEF Throws
<1>8. Held(code, first \o d, at)
  BY <1>1
<1> HIDE DEF d
<1>9. Held(code, first, at) /\ Held(code, d, p)
  <2> HIDE DEF first
  <2> QED BY <1>5, <1>6, <1>8, HeldJoined DEF p
<1>10. Held(code, c, at)
  <2> HIDE DEF h
  <2> QED BY <1>2, <1>3, <1>9, HeldJoined
<1>12. Reach(code, BcState(at, st, var, "runs"), BcState(p, st, x, "runs"))
  <2> DEFINE op == "POP"
  <2>1. op \in {"POP", "SET_VAR"} /\ op = "POP" /\ Held(code, c \o <<BcNop(op)>>, at)
    BY <1>9
  <2> HIDE DEF op, first, h
  <2>2. Reach(code, BcState(at, st, var, "runs"), BcState(at + Len(c) + 1, st, x, "runs"))
    BY <1>2, <1>4, <1>10, <2>1, Taken
  <2> QED BY <1>5, <2>2
<1>13. ThrowsAt(code, p, x)
  BY <1>7, <1>9
<1> QED BY <1>12, <1>13, ReachThrows

(* The codes of the operands come first in that of an operator.            *)
LEMMA PairedCode ==
  ASSUME NEW code, NEW e \in BcExprs, NEW a \in BcExprs, NEW b \in BcExprs,
         e.op \in {"+", "-", "*", "<", "=", "list"}, e.args = <<a, b>>,
         NEW at \in Nat, Held(code, BcCode[e][at], at),
         NEW c, c = BcCode[a][at], NEW d, d = BcCode[b][at + Len(c)]
  PROVE  Held(code, c, at) /\ Held(code, d, at + Len(c)) /\ at + Len(c) \in Nat
<1> DEFINE h == IF e.op = "list" THEN <<BcInstr("MAKE_LIST", 2)>> ELSE <<BcNop(BcOpcode[e.op])>>
<1>1. BcCode[e][at] = c \o d \o h
  <2>1. PICK operand : /\ BcCode[e][at] = BcForm(e, at, operand)
                       /\ operand[1] = BcCode[a] /\ operand[2] = BcCode[b]
    BY OperandCodes
  <2>2. CASE e.op = "list"
    <3>1. BcForm(e, at, operand) = operand[1][at] \o operand[2][at + Len(operand[1][at])]
                                     \o <<BcInstr("MAKE_LIST", 2)>>
      BY <2>2, FormOf
    <3> QED BY <2>1, <2>2, <3>1
  <2>3. CASE e.op # "list"
    <3>1. e.op \in {"+", "*", "<", "=", "and", "or"} \/ (e.op = "-" /\ Len(e.args) # 1)
      BY <2>3
    <3>2. BcForm(e, at, operand) = operand[1][at] \o operand[2][at + Len(operand[1][at])]
                                     \o <<BcNop(BcOpcode[e.op])>>
      BY <3>1, FormOf
    <3> QED BY <2>1, <2>3, <3>2
  <2> QED BY <2>2, <2>3
<1>2. c \in Seq(Instrs) /\ at + Len(c) \in Nat
  BY CodeTyped
<1>3. d \in Seq(Instrs)
  BY <1>2, CodeTyped
<1>4. h \in Seq(Instrs)
  <2>1. <<BcInstr("MAKE_LIST", 2)>> \in Seq(Instrs)
    BY DEF BcInstr, Instrs
  <2>2. ASSUME e.op # "list" PROVE <<BcNop(BcOpcode[e.op])>> \in Seq(Instrs)
    <3>1. BcOpcode[e.op] \in BcBinaryOpcodes
      BY <2>2, BinaryOpcodes DEF BcOpcode
    <3> QED BY <3>1, BinaryOpcodes, OneTyped DEF BareOpcodes
  <2> QED BY <2>1, <2>2
<1>5. Held(code, c \o d \o h, at)
  BY <1>1
<1> HIDE DEF h
<1> QED BY <1>2, <1>3, <1>4, <1>5, HeldThree DEF Pieces

LEMMA FirstThrows ==
  ASSUME NEW code, NEW e \in BcExprs, NEW a \in BcExprs, NEW b \in BcExprs,
         e.op \in {"+", "-", "*", "<", "=", "list"}, e.args = <<a, b>>,
         NEW var, Throws(code, a, var)
  PROVE  Throws(code, e, var)
<1> SUFFICES ASSUME NEW at \in Nat, Held(code, BcCode[e][at], at)
             PROVE  ThrowsAt(code, at, var)
  BY DEF Throws
<1> DEFINE c == BcCode[a][at]
           d == BcCode[b][at + Len(c)]
<1>1. Held(code, c, at)
  BY PairedCode
<1>2. ThrowsAt(code, at, var)
  BY <1>1 DEF Throws
<1> QED BY <1>2 DEF ThrowsAt

LEMMA SecondThrows ==
  ASSUME NEW code, NEW e \in BcExprs, NEW a \in BcExprs, NEW b \in BcExprs,
         e.op \in {"+", "-", "*", "<", "=", "list"}, e.args = <<a, b>>,
         NEW var, NEW va, NEW x, Yields(code, a, var, va, x), Throws(code, b, x)
  PROVE  Throws(code, e, var)
<1> SUFFICES ASSUME NEW at \in Nat, Held(code, BcCode[e][at], at), NEW st, IsSeq(st)
             PROVE  \E s : /\ s.state = "thrown"
                           /\ Reach(code, BcState(at, st, var, "runs"), s)
  BY DEF Throws, ThrowsAt
<1> DEFINE c == BcCode[a][at]
           jo == at + Len(c)
           d == BcCode[b][jo]
<1>1. Held(code, c, at) /\ Held(code, d, jo) /\ jo \in Nat
  BY PairedCode
<1>2. Gives(code, c, at, var, va, x)
  BY <1>1 DEF Yields
<1>3. ThrowsAt(code, jo, x)
  BY <1>1 DEF Throws
<1> HIDE DEF c
<1> DEFINE to == Append(st, va)
<1>4. Reach(code, BcState(at, st, var, "runs"), BcState(jo, to, x, "runs"))
  BY <1>2 DEF Gives
<1>5. IsSeq(to)
  BY SeqAppend
<1> HIDE DEF d, jo, to
<1> QED BY <1>3, <1>4, <1>5, ReachThrows

-----------------------------------------------------------------------------
(* A truth value for both, and no change of the variable.                  *)
Says(code, e, t) == \A var \in BcScalars : Same(code, e, var, BcBool(t), var)

LEMMA LiteralSays ==
  ASSUME NEW code, CodeOK(code), NEW e \in BcTruths0
  PROVE  \E t \in BOOLEAN : Says(code, e, t)
<1>1. e \in BcExprs /\ e.op = "lit"
  BY TruthLiteral
<1>2. PICK t \in BOOLEAN : e.value = BcBool(t)
  BY TruthLiteral
<1>3. e.value \in BcScalars /\ e.value \notin BcErrors
  BY <1>2, TruthValue
<1>4. \A var \in BcScalars : Same(code, e, var, e.value, var)
  BY <1>1, <1>3, SameLiteral
<1> QED BY <1>2, <1>4 DEF Says

LEMMA LessSays ==
  ASSUME NEW code, CodeOK(code), NEW e \in BcExprs, NEW a \in BcNumbers0, NEW b \in BcNumbers0,
         e.op = "<", e.args = <<a, b>>
  PROVE  \E t \in BOOLEAN : Says(code, e, t)
<1>0. PICK va, vb : va = a.value /\ vb = b.value
  OBVIOUS
<1> DEFINE t == BcToNumber(va) < BcToNumber(vb)
<1>1. /\ a \in BcExprs /\ \A var \in BcScalars : Same(code, a, var, va, var)
      /\ b \in BcExprs /\ \A var \in BcScalars : Same(code, b, var, vb, var)
  BY <1>0, NumberLiteral, SameNumber
<1>2. \E m \in Int, n \in Int : va = BcNum(m) /\ vb = BcNum(n)
  BY <1>0, NumberLiteral
<1>3. va \in BcScalars /\ vb \in BcScalars
  BY <1>2, NumberValue
<1>4. t \in BOOLEAN
  BY <1>3, ScalarParts
<1>5. BcOpcode[e.op] = "LT" /\ BcBinary("LT", va, vb) = BcBool(t)
  BY DEF BcOpcode, BcBinary
<1> HIDE DEF t
<1>6. ASSUME NEW var \in BcScalars PROVE Same(code, e, var, BcBool(t), var)
  <2>1. Same(code, a, var, va, var) /\ Same(code, b, var, vb, var)
    BY <1>1
  <2>2. PICK v : v = BcBuiltin(e.op, <<va, vb>>)
    OBVIOUS
  <2>3. e.op \in {"+", "-", "*", "<", "="} /\ e.op \notin {"+", "-", "*"}
    OBVIOUS
  <2>4. /\ BcEval[e][var] = [value |-> v, var |-> var]
        /\ \/ v = BcMismatch /\ e.op \in {"+", "-", "*"} /\ Strange(va, vb)
           \/ v = BcBinary(BcOpcode[e.op], va, vb) /\ Same(code, e, var, v, var)
    BY <1>1, <2>1, <2>2, <2>3, SameBinary
  <2> QED BY <1>5, <2>3, <2>4
<1> QED BY <1>4, <1>6 DEF Says

LEMMA NotSays ==
  ASSUME NEW code, CodeOK(code), NEW e \in BcExprs, NEW a \in BcExprs,
         e.op = "not", e.args = <<a>>, \E t \in BOOLEAN : Says(code, a, t)
  PROVE  \E t \in BOOLEAN : Says(code, e, t)
<1>1. PICK t \in BOOLEAN : Says(code, a, t)
  OBVIOUS
<1>2. ASSUME NEW var \in BcScalars PROVE Same(code, e, var, BcBool(~t), var)
  BY <1>1, SameNot DEF Says
<1>3. (~t) \in BOOLEAN
  OBVIOUS
<1> QED BY <1>2, <1>3 DEF Says

(* The machine makes a truth value of an and or an or, of truth values the  *)
(* one the interpreter picks.                                              *)
LEMMA SameBoth ==
  ASSUME NEW code, CodeOK(code), NEW e \in BcExprs, NEW a \in BcExprs, NEW b \in BcExprs,
         e.op \in {"and", "or"}, e.args = <<a, b>>, NEW var \in BcScalars,
         NEW p \in BOOLEAN, NEW q \in BOOLEAN,
         Same(code, a, var, BcBool(p), var), Same(code, b, var, BcBool(q), var),
         NEW t, t = IF e.op = "and" THEN p /\ q ELSE p \/ q
  PROVE  Same(code, e, var, BcBool(t), var)
<1> DEFINE va == BcBool(p)
           vb == BcBool(q)
           op == BcOpcode[e.op]
<1>1. /\ va \notin BcErrors /\ BcEval[a][var] = [value |-> va, var |-> var]
      /\ Yields(code, a, var, va, var)
  BY DEF Same
<1>2. BcEval[b][var] = [value |-> vb, var |-> var] /\ Yields(code, b, var, vb, var)
  BY DEF Same
<1>3. /\ (BcTruthy(va) <=> p) /\ (BcAnd(va) <=> p) /\ (BcOr(va) <=> p)
      /\ BcTruthy(vb) <=> q
  BY TruthValue
<1>4. PICK operand : /\ BcEval[e][var] = BcResult(e, var, operand)
                     /\ operand[1] = BcEval[a] /\ operand[2] = BcEval[b]
  BY OperandResults
<1>7. Yields(code, e, var, BcBinary(op, va, vb), var)
  <2>1. e.op \in {"+", "-", "*", "<", "=", "and", "or"}
    OBVIOUS
  <2> QED BY <1>1, <1>2, <2>1, YieldsBinary
<1> HIDE DEF va, vb
<1>5. PICK first : first = operand[1][var]
  OBVIOUS
<1>6. first.value = va /\ first.var = var /\ e.args # << >>
  BY <1>1, <1>4, <1>5
<1>8. /\ e.op = "and" => BcResult(e, var, operand)
                           = IF BcAnd(first.value) THEN operand[2][first.var] ELSE first
      /\ e.op = "or" => BcResult(e, var, operand)
                           = IF BcOr(first.value) THEN first ELSE operand[2][first.var]
  <2>1. e.args # << >> /\ first.value \notin BcErrors
    BY <1>1, <1>6
  <2> QED BY <1>5, <2>1, ResultOf
<1>9. BcEval[e][var] = [value |-> IF e.op = "and" THEN (IF p THEN vb ELSE va)
                                  ELSE (IF p THEN va ELSE vb), var |-> var]
  <2>1. operand[2][first.var] = [value |-> vb, var |-> var]
    BY <1>2, <1>4, <1>6
  <2>2. first = [value |-> va, var |-> var]
    BY <1>1, <1>4, <1>5
  <2>3. (BcAnd(first.value) <=> p) /\ (BcOr(first.value) <=> p)
    BY <1>3, <1>6
  <2> QED BY <1>4, <1>8, <2>1, <2>2, <2>3
<1>10. BcBinary(op, va, vb) = BcBool(t)
  <2>1. op = IF e.op = "and" THEN "AND" ELSE "OR"
    BY DEF BcOpcode
  <2> HIDE DEF op
  <2>2. CASE e.op = "and"
    <3>1. BcBinary(op, va, vb) = BcBool(BcTruthy(va) /\ BcTruthy(vb))
      BY <2>1, <2>2 DEF BcBinary
    <3>2. (BcTruthy(va) /\ BcTruthy(vb)) = (p /\ q)
      BY <1>3
    <3> QED BY <2>2, <3>1, <3>2
  <2>3. CASE e.op = "or"
    <3>1. BcBinary(op, va, vb) = BcBool(BcTruthy(va) \/ BcTruthy(vb))
      BY <2>1, <2>3 DEF BcBinary
    <3>2. (BcTruthy(va) \/ BcTruthy(vb)) = (p \/ q)
      BY <1>3
    <3> QED BY <2>3, <3>1, <3>2
  <2> QED BY <2>2, <2>3
<1>11. (IF e.op = "and" THEN (IF p THEN vb ELSE va) ELSE (IF p THEN va ELSE vb)) = BcBool(t)
  <2>1. CASE p
    <3>1. p = TRUE
      BY <2>1
    <3>2. t = IF e.op = "and" THEN q ELSE TRUE
      BY <2>1
    <3> QED BY <2>1, <3>1, <3>2 DEF va, vb
  <2>2. CASE ~p
    <3>1. p = FALSE
      BY <2>2
    <3>2. t = IF e.op = "and" THEN FALSE ELSE q
      BY <2>2
    <3> QED BY <2>2, <3>1, <3>2 DEF va, vb
  <2> QED BY <2>1, <2>2
<1>12. t \in BOOLEAN
  OBVIOUS
<1>13. BcBool(t) \in BcScalars /\ BcBool(t) \notin BcErrors
  BY <1>12, TruthValue
<1> HIDE DEF op
<1>14. /\ BcEval[e][var] = [value |-> BcBool(t), var |-> var]
       /\ Yields(code, e, var, BcBool(t), var)
  BY <1>7, <1>9, <1>10, <1>11
<1> QED BY <1>13, <1>14 DEF Same

LEMMA BothSay ==
  ASSUME NEW code, CodeOK(code), NEW e \in BcExprs, NEW a \in BcExprs, NEW b \in BcExprs,
         e.op \in {"and", "or"}, e.args = <<a, b>>,
         \E t \in BOOLEAN : Says(code, a, t), \E t \in BOOLEAN : Says(code, b, t)
  PROVE  \E t \in BOOLEAN : Says(code, e, t)
<1>1. PICK p \in BOOLEAN : Says(code, a, p)
  OBVIOUS
<1>2. PICK q \in BOOLEAN : Says(code, b, q)
  OBVIOUS
<1> DEFINE t == IF e.op = "and" THEN p /\ q ELSE p \/ q
<1>3. t \in BOOLEAN
  OBVIOUS
<1>4. ASSUME NEW u, u = t, NEW var \in BcScalars PROVE Same(code, e, var, BcBool(u), var)
  <2>1. Same(code, a, var, BcBool(p), var) /\ Same(code, b, var, BcBool(q), var)
    BY <1>1, <1>2 DEF Says
  <2>2. u = IF e.op = "and" THEN p /\ q ELSE p \/ q
    BY <1>4
  <2> QED BY <2>1, <2>2, SameBoth
<1> HIDE DEF t
<1> QED BY <1>3, <1>4 DEF Says

-----------------------------------------------------------------------------
(* The parts of a program machine and interpreter are meant alike in.       *)
LEMMA PlainParts ==
  ASSUME NEW e \in BcExprs, BcPlain[e], e.op \notin {"lit", "variable"}
  PROVE  /\ e.args # << >> /\ (e.op = "if" \/ Len(e.args) <= 2)
         /\ e.op \in {"and", "or"} => \A k \in DOMAIN e.args : e.args[k].value[1] = "bool"
         /\ \A k \in DOMAIN e.args : BcPlain[e.args[k]]
<1> DEFINE operand == [k \in DOMAIN e.args |-> BcPlain[e.args[k]]]
<1>1. BcWhole(e, operand)
  BY PlainOf
<1>2. \A k \in DOMAIN e.args : operand[k] = BcPlain[e.args[k]]
  OBVIOUS
<1> HIDE DEF operand
<1>3. /\ e.args # << >> /\ (e.op = "if" \/ Len(e.args) <= 2)
      /\ e.op \in {"and", "or"} => \A k \in DOMAIN e.args : e.args[k].value[1] = "bool"
      /\ \A k \in DOMAIN e.args : operand[k]
  BY <1>1, Zenon DEF BcWhole
<1> QED BY <1>2, <1>3

LEMMA PlainOne ==
  ASSUME NEW e \in BcExprs, BcPlain[e], e.op \notin {"lit", "variable"}, NEW a, e.args = <<a>>
  PROVE  BcPlain[a]
BY PlainParts

LEMMA PlainTwo ==
  ASSUME NEW e \in BcExprs, BcPlain[e], e.op \notin {"lit", "variable"},
         NEW a, NEW b, e.args = <<a, b>>
  PROVE  /\ BcPlain[a] /\ BcPlain[b]
         /\ e.op \in {"and", "or"} => a.value[1] = "bool" /\ b.value[1] = "bool"
<1>1. /\ e.op \in {"and", "or"} => \A k \in DOMAIN e.args : e.args[k].value[1] = "bool"
      /\ \A k \in DOMAIN e.args : BcPlain[e.args[k]]
  BY PlainParts
<1>2. 1 \in DOMAIN e.args /\ 2 \in DOMAIN e.args /\ e.args[1] = a /\ e.args[2] = b
  OBVIOUS
<1> QED BY <1>1, <1>2

LEMMA PlainThree ==
  ASSUME NEW e \in BcExprs, BcPlain[e], e.op \notin {"lit", "variable"},
         NEW a, NEW b, NEW c, e.args = <<a, b, c>>
  PROVE  BcPlain[a] /\ BcPlain[b] /\ BcPlain[c] /\ e.op = "if"
<1>1. \A k \in DOMAIN e.args : BcPlain[e.args[k]]
  BY PlainParts
<1>2. e.op = "if" \/ Len(e.args) <= 2
  BY PlainParts
<1>3. /\ 1 \in DOMAIN e.args /\ 2 \in DOMAIN e.args /\ 3 \in DOMAIN e.args
      /\ e.args[1] = a /\ e.args[2] = b /\ e.args[3] = c /\ Len(e.args) = 3
  OBVIOUS
<1> QED BY <1>1, <1>2, <1>3


LEMMA StopsNotPlain ==
  ASSUME NEW e \in BcStops PROVE ~BcPlain[e]
<1>1. e \in BcExprs /\ BcPartDefine \in BcExprs
  BY Inside DEF Simple, Leaves
<1>2. PICK a \in BcNumbers0 : e.op = "do" /\ e.args = <<BcPartDefine, a>>
  BY DEF BcStops, BcOp
<1>3. BcPartDefine.op = "define" /\ BcPartDefine.args = << >>
  BY DEF BcPartDefine, BcOp
<1>4. ~BcPlain[BcPartDefine]
  BY <1>1, <1>3, PlainParts
<1> QED BY <1>1, <1>2, <1>4, PlainTwo

LEMMA TruthsSay ==
  ASSUME NEW code, CodeOK(code), NEW e \in BcTruths, BcPlain[e]
  PROVE  \E t \in BOOLEAN : Says(code, e, t)
<1>1. e \in BcExprs
  BY Inside DEF Simple
<1>2. CASE e \in BcTruths0
  BY <1>2, LiteralSays
<1>3. CASE e \in BcApply("<", BcNumbers0, BcNumbers0)
  <2>1. PICK a \in BcNumbers0, b \in BcNumbers0 : e.op = "<" /\ e.args = <<a, b>>
    BY <1>3 DEF BcApply, BcOp
  <2> QED BY <1>1, <2>1, LessSays
<1>4. CASE e \in {BcOp("not", <<b>>) : b \in BcTruths0}
  <2>1. PICK b \in BcTruths0 : e.op = "not" /\ e.args = <<b>>
    BY <1>4 DEF BcOp
  <2>2. (\E t \in BOOLEAN : Says(code, b, t)) /\ b \in BcExprs
    BY LiteralSays, TruthLiteral
  <2> QED BY <1>1, <2>1, <2>2, NotSays
<1>5. CASE \E op \in {"and", "or"} :
             e \in BcApply(op, BcTruths0 \cup BcNumbers0, BcTruths0 \cup BcNumbers0)
  <2>1. PICK a \in BcTruths0 \cup BcNumbers0, b \in BcTruths0 \cup BcNumbers0 :
          e.op \in {"and", "or"} /\ e.args = <<a, b>>
    BY <1>5 DEF BcApply, BcOp
  <2>2. a.value[1] = "bool" /\ b.value[1] = "bool"
    BY <1>1, <2>1, PlainTwo
  <2>3. \A d \in BcNumbers0 : d.value[1] # "bool"
    <3> SUFFICES ASSUME NEW d \in BcNumbers0 PROVE d.value[1] # "bool"
      OBVIOUS
    <3>1. PICK n \in Int : d.value = BcNum(n)
      BY NumberLiteral
    <3>2. d.value[1] = "num"
      BY <3>1, NumberValue
    <3> QED BY <3>2
  <2>4. a \in BcTruths0 /\ b \in BcTruths0
    BY <2>2, <2>3
  <2>5. /\ \E t \in BOOLEAN : Says(code, a, t)
        /\ \E t \in BOOLEAN : Says(code, b, t)
        /\ a \in BcExprs /\ b \in BcExprs
    BY <2>4, LiteralSays, TruthLiteral
  <2> QED BY <1>1, <2>1, <2>5, BothSay
<1>6. \/ e \in BcTruths0 \/ e \in BcApply("<", BcNumbers0, BcNumbers0)
      \/ e \in {BcOp("not", <<b>>) : b \in BcTruths0}
      \/ \E op \in {"and", "or"} :
           e \in BcApply(op, BcTruths0 \cup BcNumbers0, BcTruths0 \cup BcNumbers0)
  <2> DEFINE any == BcTruths0 \cup BcNumbers0
  <2>1. ASSUME NEW op, NEW A, NEW B, A \subseteq any, B \subseteq any, e \in BcApply(op, A, B)
        PROVE  e \in BcApply(op, any, any)
    <3>1. PICK a \in A, b \in B : e = BcOp(op, <<a, b>>)
      BY <2>1 DEF BcApply
    <3>2. a \in any /\ b \in any
      BY <2>1
    <3> HIDE DEF any
    <3> QED BY <3>1, <3>2 DEF BcApply
  <2>2. BcTruths0 \subseteq any /\ any \subseteq any
    OBVIOUS
  <2>3. e \in BcApply("and", any, BcTruths0) => e \in BcApply("and", any, any)
    BY <2>1, <2>2
  <2>4. e \in BcApply("or", BcTruths0, any) => e \in BcApply("or", any, any)
    BY <2>1, <2>2
  <2>5. \/ e \in BcTruths0 \/ e \in BcApply("<", BcNumbers0, BcNumbers0)
        \/ e \in {BcOp("not", <<b>>) : b \in BcTruths0}
        \/ e \in BcApply("and", any, BcTruths0) \/ e \in BcApply("or", BcTruths0, any)
    BY DEF BcTruths
  <2> QED BY <2>3, <2>4, <2>5
<1> QED BY <1>2, <1>3, <1>4, <1>5, <1>6

-----------------------------------------------------------------------------
(* Numbers: the same value whatever the variable is, or the machine throws  *)
(* for the lack of it.                                                     *)
Steady(code, e, v) == \A var \in BcScalars : \E y \in BcScalars : Same(code, e, var, v, y)

Decided(code, e) == (\E v : Steady(code, e, v)) \/ Throws(code, e, BcUnset)

LEMMA LiteralSteady ==
  ASSUME NEW code, CodeOK(code), NEW e \in BcNumbers0
  PROVE  /\ e \in BcExprs /\ Steady(code, e, e.value)
         /\ \A var \in BcScalars : Same(code, e, var, e.value, var)
<1>1. e \in BcExprs
  BY NumberLiteral
<1>2. \A var \in BcScalars : Same(code, e, var, e.value, var)
  BY SameNumber
<1> QED BY <1>1, <1>2 DEF Steady

LEMMA PairSteady ==
  ASSUME NEW code, CodeOK(code), NEW e \in BcExprs, NEW a \in BcNumbers0, NEW b \in BcNumbers0,
         e.op \in {"-", "*"}, e.args = <<a, b>>
  PROVE  \E v : Steady(code, e, v)
<1>0. PICK va, vb : va = a.value /\ vb = b.value
  OBVIOUS
<1>1. /\ a \in BcExprs /\ \A var \in BcScalars : Same(code, a, var, va, var)
      /\ b \in BcExprs /\ \A var \in BcScalars : Same(code, b, var, vb, var)
  BY <1>0, NumberLiteral, SameNumber
<1>2. ~Strange(va, vb)
  <2>1. PICK m \in Int, n \in Int : va = BcNum(m) /\ vb = BcNum(n)
    BY <1>0, NumberLiteral
  <2>2. va[1] = "num" /\ vb[1] = "num"
    BY <2>1, NumberValue
  <2> QED BY <2>2 DEF Strange
<1>3. PICK v : v = BcBuiltin(e.op, <<va, vb>>)
  OBVIOUS
<1>4. ASSUME NEW var \in BcScalars PROVE Same(code, e, var, v, var)
  <2>1. Same(code, a, var, va, var) /\ Same(code, b, var, vb, var)
    BY <1>1
  <2>2. e.op \in {"+", "-", "*", "<", "="}
    OBVIOUS
  <2>3. /\ BcEval[e][var] = [value |-> v, var |-> var]
        /\ \/ v = BcMismatch /\ e.op \in {"+", "-", "*"} /\ Strange(va, vb)
           \/ v = BcBinary(BcOpcode[e.op], va, vb) /\ Same(code, e, var, v, var)
    BY <1>1, <1>3, <2>1, <2>2, SameBinary
  <2> QED BY <1>2, <2>3
<1> QED BY <1>4 DEF Steady

LEMMA NegatedSteady ==
  ASSUME NEW code, CodeOK(code), NEW e \in BcExprs, NEW a \in BcNumbers0,
         e.op = "-", e.args = <<a>>
  PROVE  \E v : Steady(code, e, v)
<1>1. PICK n \in Int : a.value = BcNum(n)
  BY NumberLiteral
<1>2. ASSUME NEW var \in BcScalars PROVE Same(code, e, var, BcNum(-n), var)
  <2>1. a \in BcExprs /\ Same(code, a, var, BcNum(n), var)
    BY <1>1, SameNumber
  <2> QED BY <2>1, SameNegated
<1> QED BY <1>2 DEF Steady

(* A choice between literals, or between a literal and nothing.            *)
LEMMA ChoiceSteady ==
  ASSUME NEW code, CodeOK(code), NEW e \in BcExprs, BcPlain[e], e.op = "if",
         NEW p \in BcTruths, NEW a \in BcNumbers0,
         \/ e.args = <<p, a>>
         \/ \E b \in BcNumbers0 : e.args = <<p, a, b>>
  PROVE  \E v : \A var \in BcScalars : Same(code, e, var, v, var)
<1>1. p \in BcExprs /\ a \in BcExprs
  BY Inside, NumberLiteral DEF Simple
<1>2. PICK t \in BOOLEAN : Says(code, p, t)
  <2>1. BcPlain[p]
    BY PlainTwo, PlainThree
  <2> QED BY <2>1, TruthsSay
<1>3. \A var \in BcScalars : Same(code, a, var, a.value, var)
  BY SameNumber
<1>4. CASE e.args = <<p, a>>
  <2>1. PICK v : v = IF t THEN a.value ELSE BcNull
    OBVIOUS
  <2>2. ASSUME NEW var \in BcScalars PROVE Same(code, e, var, v, var)
    <3>1. Same(code, p, var, BcBool(t), var)
      BY <1>2 DEF Says
    <3>2. (t => Same(code, a, var, v, var)) /\ (~t => v = BcNull)
      BY <1>3, <2>1
    <3> QED BY <1>1, <1>4, <3>1, <3>2, SameIf
  <2> QED BY <2>2
<1>5. CASE \E b \in BcNumbers0 : e.args = <<p, a, b>>
  <2>1. PICK b \in BcNumbers0 : e.args = <<p, a, b>>
    BY <1>5
  <2>2. b \in BcExprs /\ \A var \in BcScalars : Same(code, b, var, b.value, var)
    BY NumberLiteral, SameNumber
  <2>3. PICK v : v = IF t THEN a.value ELSE b.value
    OBVIOUS
  <2>4. ASSUME NEW var \in BcScalars PROVE Same(code, e, var, v, var)
    <3>1. Same(code, p, var, BcBool(t), var)
      BY <1>2 DEF Says
    <3>2. (t => Same(code, a, var, v, var)) /\ (~t => Same(code, b, var, v, var))
      BY <1>3, <2>2, <2>3
    <3> QED BY <1>1, <2>1, <2>2, <3>1, <3>2, SameIf
  <2> QED BY <2>4
<1> QED BY <1>4, <1>5

LEMMA SameSteady ==
  ASSUME NEW code, NEW e, NEW v, \A var \in BcScalars : Same(code, e, var, v, var)
  PROVE  Steady(code, e, v)
BY DEF Steady

(* A define or a choice, and then a literal or the variable.               *)
LEMMA DoSettled ==
  ASSUME NEW code, CodeOK(code), NEW e \in BcExprs, BcPlain[e], e.op = "do",
         NEW d \in BcDefines \cup BcChoices, NEW b \in BcNumbers0 \cup {BcVar},
         e.args = <<d, b>>
  PROVE  Decided(code, e)
<1>1. b \in BcExprs /\ BcVar \in BcExprs
  BY NumberLiteral, Inside DEF Simple, Leaves
<1>2. CASE d \in BcDefines
  <2>1. PICK a \in BcNumbers0 : d.op = "define" /\ d.args = <<a>>
    BY <1>2 DEF BcDefines, BcOp
  <2>2. d \in BcExprs
    BY <1>2, Inside DEF Simple
  <2>3. PICK x : x = a.value
    OBVIOUS
  <2>4. ASSUME NEW var \in BcScalars PROVE x \in BcScalars /\ x \notin BcErrors /\ Same(code, d, var, BcNull, x)
    <3>1. a \in BcExprs /\ Same(code, a, var, x, var)
      BY <2>3, SameNumber
    <3>2. x \in BcScalars /\ x \notin BcErrors
      BY <3>1 DEF Same
    <3>3. Same(code, d, var, BcNull, x)
      BY <2>1, <2>2, <3>1, SameDefine
    <3> QED BY <3>2, <3>3
  <2>5. PICK v : v = IF b = BcVar THEN x ELSE b.value
    OBVIOUS
  <2>6. ASSUME NEW var \in BcScalars PROVE Same(code, e, var, v, x)
    <3>1. x \in BcScalars /\ x \notin BcErrors /\ Same(code, d, var, BcNull, x)
      BY <2>4
    <3>2. Same(code, b, x, v, x)
      <4>1. CASE b = BcVar
        BY <2>5, <3>1, <4>1, SameVariable
      <4>2. CASE b # BcVar
        BY <2>5, <3>1, <4>2, SameNumber
      <4> QED BY <4>1, <4>2
    <3> QED BY <1>1, <2>2, <3>1, <3>2, SameDo
  <2>7. x \in BcScalars
    BY <2>4, Scalars
  <2> QED BY <2>6, <2>7 DEF Steady, Decided
<1>3. CASE d \in BcChoices
  <2>1. PICK c \in BcTruths0, a \in BcNumbers0 : d = BcOp("if", <<c, a, a>>)
    BY <1>3 DEF BcChoices
  <2>2. d.op = "if" /\ d.args = <<c, a, a>> /\ c \in BcTruths
    BY <2>1 DEF BcOp, BcTruths
  <2>3. d \in BcExprs
    BY <1>3, Inside DEF Chosen
  <2>4. BcPlain[d]
    BY PlainTwo
  <2>5. PICK v : \A var \in BcScalars : Same(code, d, var, v, var)
    BY <2>2, <2>3, <2>4, ChoiceSteady
  <2>6. CASE b = BcVar
    <3>1. BcUnset \in BcScalars
      BY Scalars DEF BcUnset
    <3>2. Yields(code, d, BcUnset, v, BcUnset)
      BY <2>5, <3>1 DEF Same
    <3>3. Throws(code, b, BcUnset)
      BY <2>6, VariableThrows
    <3>4. Throws(code, e, BcUnset)
      BY <1>1, <2>3, <3>2, <3>3, DoThrows
    <3> QED BY <3>4 DEF Decided
  <2>7. CASE b # BcVar
    <3>1. ASSUME NEW var \in BcScalars PROVE Same(code, e, var, b.value, var)
      <4>1. Same(code, d, var, v, var) /\ Same(code, b, var, b.value, var)
        BY <2>5, <2>7, SameNumber
      <4> QED BY <1>1, <2>3, <4>1, SameDo
    <3> QED BY <3>1, SameSteady DEF Decided
  <2> QED BY <2>6, <2>7
<1> QED BY <1>2, <1>3

LEMMA ForkedForm ==
  ASSUME NEW e \in Forked0
  PROVE  \E c \in BcTruths, a \in BcNumbers0, b \in BcNumbers0 : e = BcOp("if", <<c, a, b>>)
BY DEF Forked0

LEMMA NumbersSettle ==
  ASSUME NEW code, CodeOK(code), NEW e \in BcNumbers, BcPlain[e]
  PROVE  e \in BcExprs /\ Decided(code, e)
<1>0. e \in BcExprs
  BY Inside DEF Operands
<1> SUFFICES Decided(code, e)
  BY <1>0
<1>1. CASE e \in BcNumbers0
  BY <1>1, LiteralSteady DEF Decided
<1>2. CASE e \in Paired0
  <2>1. PICK a \in BcNumbers0, b \in BcNumbers0 : e.op \in {"-", "*"} /\ e.args = <<a, b>>
    BY <1>2 DEF Paired0, BcApply, BcOp
  <2> QED BY <1>0, <2>1, PairSteady DEF Decided
<1>3. CASE e \in Negated0
  <2>1. PICK a \in BcNumbers0 : e = BcOp("-", <<a>>)
    BY <1>3 DEF Negated0
  <2>2. e.op = "-" /\ e.args = <<a>>
    BY <2>1 DEF BcOp
  <2> QED BY <1>0, <2>2, NegatedSteady DEF Decided
<1>4. CASE e \in Forked0
  <2>1. PICK c \in BcTruths, a \in BcNumbers0, b \in BcNumbers0 : e = BcOp("if", <<c, a, b>>)
    BY <1>4, ForkedForm
  <2>2. e.op = "if" /\ e.args = <<c, a, b>>
    BY <2>1 DEF BcOp
  <2>3. \E v : \A var \in BcScalars : Same(code, e, var, v, var)
    BY <1>0, <2>2, ChoiceSteady
  <2> QED BY <2>3, SameSteady DEF Decided
<1>5. CASE e \in Guarded0
  <2>1. PICK c \in BcTruths, a \in BcNumbers0 : e = BcOp("if", <<c, a>>)
    BY <1>5 DEF Guarded0
  <2>2. e.op = "if" /\ e.args = <<c, a>>
    BY <2>1 DEF BcOp
  <2>3. \E v : \A var \in BcScalars : Same(code, e, var, v, var)
    BY <1>0, <2>2, ChoiceSteady
  <2> QED BY <2>3, SameSteady DEF Decided
<1>6. CASE e \in Done0
  <2>1. PICK d \in BcDefines \cup BcChoices, b \in BcNumbers0 \cup {BcVar} :
          e = BcOp("do", <<d, b>>)
    BY <1>6 DEF Done0, BcApply
  <2>2. e.op = "do" /\ e.args = <<d, b>>
    BY <2>1 DEF BcOp
  <2> QED BY <1>0, <2>2, DoSettled
<1>7. CASE e \in Stopped0
  <2>1. PICK c \in BcTruths0, stop \in BcStops, a \in BcNumbers0 : e = BcOp("if", <<c, stop, a>>)
    BY <1>7 DEF Stopped0
  <2>2. e.op = "if" /\ e.args = <<c, stop, a>>
    BY <2>1 DEF BcOp
  <2> QED BY <1>0, <2>2, PlainThree, StopsNotPlain
<1>8. CASE e = BcVar
  BY <1>8, VariableThrows DEF Decided
<1> QED BY <1>1, <1>2, <1>3, <1>4, <1>5, <1>6, <1>7, <1>8, NumberForms

-----------------------------------------------------------------------------
(* Whole programs: the machine throws, or the interpreter does for a        *)
(* builtin that is given no number, or both come to the same value,         *)
(* whatever the interpreter's variable is.                                 *)
Alike(code, e) ==
  \/ Throws(code, e, BcUnset)
  \/ \A var \in BcScalars : BcEval[e][var].value = BcMismatch
  \/ \E v : /\ \A var \in BcScalars : BcEval[e][var].value = v
            /\ \E after : Yields(code, e, BcUnset, v, after)

(* Two operands that are steady, one after the other.                      *)
LEMMA SteadyPair ==
  ASSUME NEW code, CodeOK(code), NEW e \in BcExprs, NEW a \in BcExprs, NEW b \in BcExprs,
         e.op \in {"+", "-", "*", "<", "=", "list"}, e.args = <<a, b>>,
         NEW va, NEW vb, Steady(code, a, va), Steady(code, b, vb)
  PROVE  Alike(code, e)
<1>1. PICK v : v = BcBuiltin(e.op, <<va, vb>>)
  OBVIOUS
<1>2. ASSUME NEW var \in BcScalars
      PROVE  \E x \in BcScalars, y \in BcScalars : Same(code, a, var, va, x) /\ Same(code, b, x, vb, y)
  BY DEF Steady
<1>3. ASSUME NEW var \in BcScalars
      PROVE  \E y : /\ BcEval[e][var] = [value |-> v, var |-> y]
                    /\ v = BcMismatch \/ Yields(code, e, var, v, y)
  <2>1. PICK x \in BcScalars, y \in BcScalars : Same(code, a, var, va, x) /\ Same(code, b, x, vb, y)
    BY <1>2
  <2>2. CASE e.op = "list"
    <3>1. /\ va \notin BcErrors /\ Yields(code, a, var, va, x)
          /\ BcEval[a][var] = [value |-> va, var |-> x]
      BY <2>1 DEF Same
    <3>2. /\ vb \notin BcErrors /\ Yields(code, b, x, vb, y)
          /\ BcEval[b][x] = [value |-> vb, var |-> y]
      BY <2>1 DEF Same
    <3>3. BcEval[e][var] = [value |-> v, var |-> y]
      BY <1>1, <2>2, <3>1, <3>2, EvalPaired
    <3>4. v = <<"list", <<va, vb>> >>
      <4>1. PairRules(va, vb)
        BY <3>1, <3>2, BuiltinPaired
      <4> QED BY <1>1, <2>2, <4>1, Zenon DEF PairRules
    <3>5. Yields(code, e, var, <<"list", <<va, vb>> >>, y)
      BY <2>2, <3>1, <3>2, YieldsList
    <3> QED BY <3>3, <3>4, <3>5
  <2>3. CASE e.op # "list"
    <3>1. e.op \in {"+", "-", "*", "<", "="}
      BY <2>3
    <3>2. /\ BcEval[e][var] = [value |-> v, var |-> y]
          /\ \/ v = BcMismatch /\ e.op \in {"+", "-", "*"} /\ Strange(va, vb)
             \/ v = BcBinary(BcOpcode[e.op], va, vb) /\ Same(code, e, var, v, y)
      BY <1>1, <2>1, <3>1, SameBinary, SMTT(30)
    <3> QED BY <3>2 DEF Same
  <2> QED BY <2>2, <2>3
<1>4. ASSUME NEW var \in BcScalars PROVE BcEval[e][var].value = v
  <2>1. PICK y : BcEval[e][var] = [value |-> v, var |-> y]
    BY <1>3
  <2> QED BY <2>1
<1>5. BcUnset \in BcScalars
  BY Scalars DEF BcUnset
<1>6. v = BcMismatch \/ \E y : Yields(code, e, BcUnset, v, y)
  BY <1>3, <1>5
<1> QED BY <1>4, <1>6 DEF Alike

LEMMA FirstSettled ==
  ASSUME NEW code, CodeOK(code), NEW e \in BcExprs, NEW a \in BcExprs, NEW b \in BcNumbers0,
         e.op \in {"+", "-", "*", "<", "=", "list"}, e.args = <<a, b>>, Decided(code, a)
  PROVE  Alike(code, e)
<1>1. b \in BcExprs /\ Steady(code, b, b.value)
  BY LiteralSteady
<1>2. CASE \E v : Steady(code, a, v)
  BY <1>1, <1>2, SteadyPair
<1>3. CASE Throws(code, a, BcUnset)
  BY <1>1, <1>3, FirstThrows DEF Alike
<1> QED BY <1>2, <1>3 DEF Decided

LEMMA SecondSettled ==
  ASSUME NEW code, CodeOK(code), NEW e \in BcExprs, NEW a \in BcNumbers0, NEW b \in BcExprs,
         e.op \in {"+", "-", "*", "<", "=", "list"}, e.args = <<a, b>>, Decided(code, b)
  PROVE  Alike(code, e)
<1>1. a \in BcExprs /\ Steady(code, a, a.value)
  BY LiteralSteady
<1>2. CASE \E v : Steady(code, b, v)
  BY <1>1, <1>2, SteadyPair
<1>3. CASE Throws(code, b, BcUnset)
  <2>1. BcUnset \in BcScalars
    BY Scalars DEF BcUnset
  <2>2. Same(code, a, BcUnset, a.value, BcUnset)
    BY <2>1, LiteralSteady
  <2>3. Yields(code, a, BcUnset, a.value, BcUnset)
    BY <2>2 DEF Same
  <2> QED BY <1>1, <1>3, <2>3, SecondThrows DEF Alike
<1> QED BY <1>2, <1>3 DEF Decided

LEMMA ProgramsAlike ==
  ASSUME NEW code, CodeOK(code), NEW e \in BcPrograms, BcPlain[e]
  PROVE  Alike(code, e)
<1>0. e \in BcExprs
  BY Inside
<1>1. CASE \E op \in {"+", "<"} : e \in BcApply(op, BcNumbers, BcNumbers0)
  <2>1. PICK a \in BcNumbers, b \in BcNumbers0 : e.op \in {"+", "<"} /\ e.args = <<a, b>>
    BY <1>1 DEF BcApply, BcOp
  <2>2. a \in BcExprs /\ Decided(code, a)
    BY <1>0, <2>1, PlainTwo, NumbersSettle
  <2> QED BY <1>0, <2>1, <2>2, FirstSettled
<1>2. CASE \E op \in {"list", "-", "="} : e \in BcApply(op, BcNumbers0, BcNumbers)
  <2>1. PICK a \in BcNumbers0, b \in BcNumbers :
          e.op \in {"list", "-", "="} /\ e.args = <<a, b>>
    BY <1>2 DEF BcApply, BcOp
  <2>2. b \in BcExprs /\ Decided(code, b)
    BY <1>0, <2>1, PlainTwo, NumbersSettle
  <2> QED BY <1>0, <2>1, <2>2, SecondSettled
<1>3. CASE e \in {BcOp("not", <<b>>) : b \in BcTruths}
  <2>1. PICK b \in BcTruths : e = BcOp("not", <<b>>)
    BY <1>3
  <2>2. e.op = "not" /\ e.args = <<b>>
    BY <2>1 DEF BcOp
  <2>3. b \in BcExprs /\ \E t \in BOOLEAN : Says(code, b, t)
    <3>1. b \in BcExprs
      BY Inside DEF Simple
    <3> QED BY <1>0, <2>2, <3>1, PlainOne, TruthsSay
  <2>4. PICK t \in BOOLEAN : Says(code, e, t)
    BY <1>0, <2>2, <2>3, NotSays
  <2>5. PICK v : v = BcBool(t)
    OBVIOUS
  <2>6. ASSUME NEW var \in BcScalars
        PROVE  BcEval[e][var].value = v /\ Yields(code, e, var, v, var)
    <3>1. Same(code, e, var, v, var)
      BY <2>4, <2>5 DEF Says
    <3>2. BcEval[e][var] = [value |-> v, var |-> var] /\ Yields(code, e, var, v, var)
      BY <3>1 DEF Same
    <3> QED BY <3>2
  <2>7. BcUnset \in BcScalars
    BY Scalars DEF BcUnset
  <2> QED BY <2>6, <2>7 DEF Alike
<1>4. CASE e \in {BcOp("+", args) : args \in BcNumbers0 \X BcNumbers0 \X BcNumbers0}
  <2>1. PICK args \in BcNumbers0 \X BcNumbers0 \X BcNumbers0 : e = BcOp("+", args)
    BY <1>4
  <2>2. PICK a \in BcNumbers0, b \in BcNumbers0, c \in BcNumbers0 : args = <<a, b, c>>
    OBVIOUS
  <2>3. e.op = "+" /\ e.args = <<a, b, c>>
    BY <2>1, <2>2 DEF BcOp
  <2> QED BY <1>0, <2>3, PlainThree
<1>5. \/ \E op \in {"+", "<"} : e \in BcApply(op, BcNumbers, BcNumbers0)
      \/ \E op \in {"list", "-", "="} : e \in BcApply(op, BcNumbers0, BcNumbers)
      \/ e \in {BcOp("not", <<b>>) : b \in BcTruths}
      \/ e \in {BcOp("+", args) : args \in BcNumbers0 \X BcNumbers0 \X BcNumbers0}
  BY DEF BcPrograms
<1> QED BY <1>1, <1>2, <1>3, <1>4, <1>5

-----------------------------------------------------------------------------
(* The machine with the compiled code comes to its HALT with the value of   *)
(* the expression alone on the stack.                                      *)
LEMMA MachineComes ==
  ASSUME NEW e \in BcPrograms, NEW v, NEW after,
         Yields(BcCompile(e), e, BcUnset, v, after)
  PROVE  BcRun(BcCompile(e)).value = v
<1> DEFINE c == BcCode[e][1]
           h == <<BcNop("HALT")>>
           code == BcCompile(e)
<1>1. CodeOK(code) /\ Forward(code)
  BY Compiled
<1>2. PICK at \in Nat : at = 1
  OBVIOUS
<1>3. e \in BcExprs
  BY Inside
<1>4. c \in Seq(Instrs) /\ Len(c) \in Nat
  BY <1>2, <1>3, CodeTyped
<1>5. h \in Seq(Instrs) /\ Len(h) = 1 /\ h[1].op = "HALT"
  <2>1. h \in Seq(Instrs) /\ Len(h) = 1
    BY OneTyped DEF BareOpcodes
  <2>2. h[1].op = "HALT"
    BY DEF BcNop, BcInstr
  <2> QED BY <2>1, <2>2
<1>6. code = c \o h
  BY DEF BcCompile
<1>7. Yields(code, e, BcUnset, v, after)
  OBVIOUS
<1>8. c = BcCode[e][at]
  BY <1>2
<1> HIDE DEF c, h, code
<1>9. Held(code, code, at)
  BY <1>1, <1>2 DEF Held, CodeOK
<1>10. Held(code, c, at) /\ Held(code, h, at + Len(c))
  BY <1>4, <1>5, <1>6, <1>9, HeldJoined
<1>11. Gives(code, c, at, BcUnset, v, after)
  BY <1>7, <1>8, <1>10 DEF Yields
<1> DEFINE end == BcState(at + Len(c), Append(<< >>, v), after, "runs")
<1>12. Reach(code, BcMachine, end)
  <2>1. IsSeq(<< >>)
    <3>1. << >> \in Seq({})
      OBVIOUS
    <3> QED BY <3>1 DEF IsSeq
  <2>2. BcMachine = BcState(at, << >>, BcUnset, "runs")
    BY <1>2 DEF BcMachine
  <2> QED BY <1>11, <2>1, <2>2 DEF Gives
<1>13. BcTrace(code)[0] = BcMachine
  BY Trace
<1>14. PICK n \in Nat : BcTrace(code)[n] = end
  BY <1>12, <1>13 DEF Reach
<1>15. end.ip = at + Len(c) /\ end.stack = <<v>> /\ end.state = "runs"
  BY DEF BcState
<1>16. BcHalted(code, end)
  <2>1. code[at + Len(c)] = h[1]
    <3>1. 1 \in 1 .. Len(h) /\ at + Len(c) - 1 + 1 = at + Len(c)
      BY <1>4, <1>5
    <3> QED BY <1>10, <3>1 DEF Held
  <2> HIDE DEF end
  <2> QED BY <1>5, <1>15, <2>1 DEF BcHalted
<1> HIDE DEF end
<1>17. Len(code) \in Nat /\ BcHalted(code, BcTrace(code)[Len(code)])
  BY <1>1, TraceStops DEF CodeOK
<1>18. BcTrace(code)[Len(code)] = end
  BY <1>14, <1>16, <1>17, TraceEnds
<1>19. BcRun(code) = [value |-> v, stack |-> <<v>>]
  <2>1. Len(end.stack) = 1 /\ end.stack[1] = v /\ end.state # "thrown"
    BY <1>15
  <2> DEFINE st == end.stack
  <2>2. BcRun(code) = IF end.state = "thrown" THEN BcThrown
                      ELSE [value |-> IF Len(st) = 0 THEN BcNull ELSE st[Len(st)], stack |-> st]
    BY <1>18, Zenon DEF BcRun
  <2>3. Len(st) = 1 /\ st[1] = v /\ st = <<v>>
    BY <1>15
  <2> HIDE DEF st
  <2>4. (IF Len(st) = 0 THEN BcNull ELSE st[Len(st)]) = v
    BY <2>3
  <2> QED BY <2>1, <2>2, <2>3, <2>4
<1> QED BY <1>19 DEF code

(* And where it throws there, it throws.                                   *)
LEMMA MachineThrows ==
  ASSUME NEW e \in BcPrograms, Throws(BcCompile(e), e, BcUnset)
  PROVE  BcRun(BcCompile(e)) = BcThrown
<1> DEFINE c == BcCode[e][1]
           h == <<BcNop("HALT")>>
           code == BcCompile(e)
<1>1. CodeOK(code) /\ Forward(code)
  BY Compiled
<1>2. PICK at \in Nat : at = 1
  OBVIOUS
<1>3. e \in BcExprs
  BY Inside
<1>4. c \in Seq(Instrs)
  BY <1>2, <1>3, CodeTyped
<1>5. h \in Seq(Instrs)
  BY OneTyped DEF BareOpcodes
<1>6. code = c \o h /\ Throws(code, e, BcUnset)
  BY DEF BcCompile
<1>7. c = BcCode[e][at]
  BY <1>2
<1> HIDE DEF c, h, code
<1>8. Held(code, code, at)
  BY <1>1, <1>2 DEF Held, CodeOK
<1>9. Held(code, c, at)
  BY <1>4, <1>5, <1>6, <1>8, HeldJoined
<1>10. ThrowsAt(code, at, BcUnset)
  BY <1>6, <1>7, <1>9 DEF Throws
<1>11. PICK end : end.state = "thrown" /\ Reach(code, BcMachine, end)
  <2>1. IsSeq(<< >>)
    <3>1. << >> \in Seq({})
      OBVIOUS
    <3> QED BY <3>1 DEF IsSeq
  <2>2. BcMachine = BcState(at, << >>, BcUnset, "runs")
    BY <1>2 DEF BcMachine
  <2> QED BY <1>10, <2>1, <2>2 DEF ThrowsAt
<1>12. BcTrace(code)[0] = BcMachine
  BY Trace
<1>13. PICK n \in Nat : BcTrace(code)[n] = end
  BY <1>11, <1>12 DEF Reach
<1>14. BcHalted(code, end)
  BY <1>11 DEF BcHalted
<1>15. Len(code) \in Nat /\ BcHalted(code, BcTrace(code)[Len(code)])
  BY <1>1, TraceStops DEF CodeOK
<1>16. BcTrace(code)[Len(code)] = end
  BY <1>13, <1>14, <1>15, TraceEnds
<1>17. BcRun(code) = BcThrown
  BY <1>11, <1>16, Zenon DEF BcRun
<1> QED BY <1>17 DEF code

LEMMA BcInvAgrees == BcInv => BcAgreesElse
<1> SUFFICES ASSUME BcInv, bc_pass = 6, ~bc_entered, BcPlain[bc_program]
             PROVE  BcInterpreted(bc_program, bc_known) \in {bc_answer, BcMismatch}
  BY DEF BcAgreesElse
<1> DEFINE code == BcCompile(bc_program)
<1>1. /\ bc_program \in BcPrograms /\ bc_known \in BcScalars
      /\ bc_answer = CompiledAnswer(bc_program, bc_known)
  BY DEF BcInv
<1>2. Alike(code, bc_program)
  <2>1. CodeOK(code)
    BY <1>1, Compiled
  <2> HIDE DEF code
  <2> QED BY <1>1, <2>1, ProgramsAlike
<1>3. PICK w : w = BcInterpreted(bc_program, bc_known)
  OBVIOUS
<1>4. w = BcEval[bc_program][bc_known].value
  BY <1>3 DEF BcInterpreted
<1>5. bc_answer = IF BcRun(code) = BcThrown THEN w ELSE BcRun(code).value
  BY <1>1, <1>3 DEF CompiledAnswer
<1>6. CASE Throws(code, bc_program, BcUnset)
  <2>1. BcRun(code) = BcThrown
    BY <1>1, <1>6, MachineThrows
  <2> HIDE DEF code
  <2> QED BY <1>3, <1>5, <2>1
<1>7. CASE \A var \in BcScalars : BcEval[bc_program][var].value = BcMismatch
  BY <1>1, <1>3, <1>4, <1>7
<1>8. CASE \E v : /\ \A var \in BcScalars : BcEval[bc_program][var].value = v
                 /\ \E after : Yields(code, bc_program, BcUnset, v, after)
  <2>1. PICK v, after : /\ \A var \in BcScalars : BcEval[bc_program][var].value = v
                        /\ Yields(code, bc_program, BcUnset, v, after)
    BY <1>8
  <2>2. BcRun(code).value = v
    BY <1>1, <2>1, MachineComes
  <2>3. w = v
    BY <1>1, <1>4, <2>1
  <2> HIDE DEF code
  <2> QED BY <1>3, <1>5, <2>2, <2>3
<1> QED BY <1>2, <1>6, <1>7, <1>8 DEF Alike

(* A program of whole forms that no jump into rewritten code has touched is *)
(* answered as the interpreter answers it, with whatever variable that has, *)
(* by the machine or by falling back when the machine lacks the variable;   *)
(* only where the interpreter throws for a builtin given no number does the *)
(* machine answer otherwise (evalSExpr, compiler.ts, optimizer.ts, vm.ts).  *)
THEOREM AnswersAgree == BcSpec => []BcAgreesElse
<1>1. BcSpec => []BcInv
  BY BcInvInit, BcInvNext, PTL DEF BcSpec
<1> QED BY <1>1, BcInvAgrees, PTL
=============================================================================
