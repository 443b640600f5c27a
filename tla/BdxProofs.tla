------------------------------ MODULE BdxProofs -----------------------------
(***************************************************************************)
(* Proofs about the interpreter, for any program.  The recursion of        *)
(* interpret_bdx() goes forward in the code only, so it has a solution and *)
(* its value at an instruction is what the instruction says.               *)
(***************************************************************************)
EXTENDS Bdx, SequenceTheorems, WellFoundedInduction, TLAPS

\* A set of naturals that is not empty has a least element.
LEMMA LeastNat ==
  ASSUME NEW S \in SUBSET Nat, S # {}
  PROVE  \E n \in S : \A m \in S : n <= m
<1>1. IsWellFoundedOn(OpToRel(<, Nat), Nat)
  BY NatLessThanWellFounded
<1>2. PICK n \in S : \A m \in S : ~(<<m, n>> \in OpToRel(<, Nat))
  BY <1>1, WFMin
<1>3. \A m \in S : ~(m < n)
  BY <1>2 DEF OpToRel
<1> QED
  BY <1>3

\* What interpret_bdx() makes of the instruction at ip, when f tells what it
\* makes of those behind it.
Then(call, rest) == [rest EXCEPT !.calls = <<call>> \o @]
Opcode(code, ip) == IF ip < Len(code) THEN code[ip + 1] ELSE -1
DataEnd(code, arg) == DataAt(code, arg) + DataLength(code, arg)

PrintCall(code, arg) == [name |-> "print", text |-> StringAt(code, arg)]
WriteCall(code, arg) ==
  [name |-> "bdfs_write_file", path |-> StringAt(code, arg),
   data |-> SubSeq(code, DataAt(code, arg) + 1, DataEnd(code, arg))]

Instruction(f, code, ip) ==
  IF Opcode(code, ip) = OPCODE_SYSCALL_PRINT /\ Ends(code, ip + 1) # {}
  THEN Then(PrintCall(code, ip + 1), f[BehindString(code, ip + 1)])
  ELSE IF Opcode(code, ip) = OPCODE_SYSCALL_WRITE /\ Complete(code, ip + 1)
  THEN Then(WriteCall(code, ip + 1), f[DataEnd(code, ip + 1)])
  ELSE [calls |-> <<>>,
        end |-> IF Opcode(code, ip) \in {-1, OPCODE_SYSCALL_PRINT, OPCODE_SYSCALL_WRITE}
                THEN "astray" ELSE "returned"]

\* The string at p ends inside the program.
LEMMA StringEnds ==
  ASSUME NEW code \in Seq(Nat), NEW p \in Nat, NEW z \in Ends(code, p),
         \A i \in Ends(code, p) : z <= i
  PROVE  /\ z \in Nat /\ p <= z /\ z < Len(code)
         /\ StringAt(code, p) = SubSeq(code, p + 1, z)
         /\ BehindString(code, p) = z + 1
<1>1. Len(code) \in Nat /\ z \in p..(Len(code) - 1)
  BY DEF Ends
<1>2. z \in Nat /\ p <= z /\ z < Len(code)
  BY <1>1
<1>3. Min(Ends(code, p)) = z
  <2>1. \A i \in Ends(code, p) : i \in Int
    BY DEF Ends
  <2>2. \A i \in Ends(code, p) : (\A j \in Ends(code, p) : i <= j) => i = z
    BY <1>2, <2>1
  <2> QED
    BY <2>2 DEF Min
<1>4. StringAt(code, p) = SubSeq(code, p + 1, z)
  BY <1>3 DEF StringAt
<1>5. Len(SubSeq(code, p + 1, z)) = z - p
  <2>1. PICK a \in Nat : a = p + 1
    OBVIOUS
  <2>2. a \in 1..(Len(code) + 1) /\ z \in 0..Len(code) /\ a <= z + 1 /\ (z - a) + 1 = z - p
    BY <1>1, <1>2, <2>1
  <2>3. CASE a <= z
    BY <1>1, <2>1, <2>2, <2>3, SubSeqProperties
  <2>4. CASE a = z + 1
    <3>1. SubSeq(code, a, z) = <<>>
      BY <1>2, <2>1, <2>2, <2>4, SubSeqEmpty
    <3> QED
      BY <1>2, <2>1, <2>4, <3>1
  <2> QED
    BY <1>2, <2>2, <2>3, <2>4
<1>6. BehindString(code, p) = z + 1
  BY <1>2, <1>4, <1>5 DEF BehindString
<1> QED
  BY <1>2, <1>4, <1>6

\* Where an instruction goes on, lies behind it and inside the program.
LEMMA GoesOn ==
  ASSUME NEW code \in Seq(Nat), NEW ip \in Nat, ip <= Len(code), Ends(code, ip + 1) # {}
  PROVE  /\ BehindString(code, ip + 1) \in (ip + 1)..Len(code)
         /\ Complete(code, ip + 1) => DataEnd(code, ip + 1) \in (ip + 1)..Len(code)
<1>1. Len(code) \in Nat
  OBVIOUS
<1>2. PICK p \in Nat : p = ip + 1
  OBVIOUS
<1>3. PICK z \in Ends(code, p) : \A i \in Ends(code, p) : z <= i
  <2>1. Ends(code, p) \in SUBSET Nat /\ Ends(code, p) # {}
    BY <1>1, <1>2 DEF Ends
  <2> QED
    BY <2>1, LeastNat
<1>4. z \in Nat /\ p <= z /\ z < Len(code) /\ BehindString(code, p) = z + 1
  BY <1>3, StringEnds
<1>5. BehindString(code, p) \in (ip + 1)..Len(code)
  BY <1>1, <1>2, <1>4
<1>6. ASSUME Complete(code, p)
      PROVE  DataEnd(code, p) \in (ip + 1)..Len(code)
  <2>1. PICK q \in Nat : q = z + 1
    BY <1>4
  <2>2. DataAt(code, p) = q + 4 /\ DataLength(code, p) = Decode(code, q)
    BY <1>4, <2>1 DEF DataAt, DataLength, SizeofUint
  <2>3. q + 4 <= Len(code) /\ DataEnd(code, p) <= Len(code)
    BY <1>6, <2>2 DEF Complete, DataEnd
  <2>4. \A i \in 1..4 : q + i \in 1..Len(code)
    BY <1>1, <2>3
  <2>5. \A i \in 1..4 : code[q + i] \in Nat
    BY <2>4, ElementOfSeq
  <2>6. code[q + 1] \in Nat /\ code[q + 2] \in Nat /\ code[q + 3] \in Nat /\ code[q + 4] \in Nat
    BY <2>5
  <2>7. Decode(code, q) \in Nat
    <3>1. PICK c1 \in Nat : c1 = code[q + 1]
      BY <2>6
    <3>2. PICK c2 \in Nat : c2 = code[q + 2]
      BY <2>6
    <3>3. PICK c3 \in Nat : c3 = code[q + 3]
      BY <2>6
    <3>4. PICK c4 \in Nat : c4 = code[q + 4]
      BY <2>6
    <3>5. Decode(code, q) = c1 + 256 * (c2 + 256 * (c3 + 256 * c4))
      BY <3>1, <3>2, <3>3, <3>4 DEF Decode
    <3>6. c1 + 256 * (c2 + 256 * (c3 + 256 * c4)) \in Nat
      OBVIOUS
    <3> QED
      BY <3>5, <3>6
  <2>8. DataEnd(code, p) = (q + 4) + Decode(code, q)
    BY <2>2 DEF DataEnd
  <2>9. PICK l \in Nat : l = Decode(code, q)
    BY <2>7
  <2>10. DataEnd(code, p) = (q + 4) + l /\ (q + 4) + l <= Len(code)
    BY <2>3, <2>8, <2>9
  <2>11. (q + 4) + l \in (ip + 1)..Len(code)
    BY <1>1, <1>2, <1>4, <2>1, <2>10
  <2> QED
    BY <2>10, <2>11
<1> QED
  BY <1>2, <1>5, <1>6

\* So only what comes behind ip matters to it.
LEMMA InstructionDepends ==
  ASSUME NEW code \in Seq(Nat), NEW ip \in Nat, ip <= Len(code), NEW f, NEW g,
         \A j \in (ip + 1)..Len(code) : f[j] = g[j]
  PROVE  Instruction(f, code, ip) = Instruction(g, code, ip)
<1>1. CASE Opcode(code, ip) = OPCODE_SYSCALL_PRINT /\ Ends(code, ip + 1) # {}
  <2>1. f[BehindString(code, ip + 1)] = g[BehindString(code, ip + 1)]
    BY <1>1, GoesOn
  <2> QED
    BY <1>1, <2>1 DEF Instruction
<1>2. CASE Opcode(code, ip) = OPCODE_SYSCALL_WRITE /\ Complete(code, ip + 1)
  <2>1. Ends(code, ip + 1) # {}
    BY <1>2 DEF Complete
  <2>2. f[DataEnd(code, ip + 1)] = g[DataEnd(code, ip + 1)]
    BY <1>2, <2>1, GoesOn
  <2>3. Opcode(code, ip) # OPCODE_SYSCALL_PRINT
    BY <1>2 DEF OPCODE_SYSCALL_WRITE, OPCODE_SYSCALL_PRINT
  <2> QED
    BY <1>2, <2>2, <2>3 DEF Instruction
<1>3. CASE /\ ~(Opcode(code, ip) = OPCODE_SYSCALL_PRINT /\ Ends(code, ip + 1) # {})
           /\ ~(Opcode(code, ip) = OPCODE_SYSCALL_WRITE /\ Complete(code, ip + 1))
  BY <1>3 DEF Instruction
<1> QED
  BY <1>1, <1>2, <1>3

\* A write with all its operands.
LEMMA WriteInstruction ==
  ASSUME NEW code, NEW ip, NEW f, Opcode(code, ip) = OPCODE_SYSCALL_WRITE, Complete(code, ip + 1)
  PROVE  Instruction(f, code, ip) =
           Then(WriteCall(code, ip + 1), f[DataEnd(code, ip + 1)])
<1>1. Opcode(code, ip) # OPCODE_SYSCALL_PRINT
  BY DEF OPCODE_SYSCALL_WRITE, OPCODE_SYSCALL_PRINT
<1> QED
  BY <1>1 DEF Instruction

\* f is right from m on.
RunsFrom(f, code, m) ==
  /\ f = [ip \in 0..Len(code) |-> f[ip]]
  /\ \A ip \in m..Len(code) : f[ip] = Instruction(f, code, ip)

\* interpret_bdx() is the first value of a function that is right everywhere.
LEMMA InterpretIs ==
  ASSUME NEW code \in Seq(Nat)
  PROVE  \E f : RunsFrom(f, code, 0) /\ interpret_bdx(code) = f[0]
<1> DEFINE N == Len(code)
           Rec(f) == [ip \in 0..N |-> Instruction(f, code, ip)]
           S == {k \in 0..(N + 1) : ~\E f : RunsFrom(f, code, (N + 1) - k)}
<1>1. N \in Nat
  OBVIOUS
<1> HIDE DEF N
<1>2. S = {}
  <2> SUFFICES ASSUME S # {}
               PROVE  FALSE
    OBVIOUS
  <2>1. PICK k \in S : \A i \in S : k <= i
    <3> S \in SUBSET Nat
      BY <1>1
    <3> HIDE DEF S
    <3> QED
      BY LeastNat
  <2>2. CASE k = 0
    <3> DEFINE g == [ip \in 0..N |-> 0]
    <3>1. (N + 1)..N = {} /\ (N + 1) - 0 = N + 1
      BY <1>1
    <3>2. RunsFrom(g, code, N + 1)
      BY <3>1 DEF RunsFrom, N
    <3> QED
      BY <2>2, <3>1, <3>2
  <2>3. CASE k # 0
    <3>1. PICK j \in Nat : k = j + 1 /\ j \in 0..(N + 1) /\ k \in 0..(N + 1)
      <4>1. k \in Nat /\ k <= N + 1
        BY <1>1
      <4>2. k - 1 \in Nat /\ k = (k - 1) + 1 /\ k - 1 \in 0..(N + 1)
        BY <1>1, <2>3, <4>1
      <4> QED
        BY <4>2
    <3>2. j \notin S
      BY <2>1, <3>1
    <3>3. PICK m \in Nat : m = (N + 1) - k /\ (N + 1) - j = m + 1 /\ m \in 0..N
      BY <1>1, <3>1
    <3>4. PICK f : RunsFrom(f, code, m + 1)
      BY <3>1, <3>2, <3>3
    <3> HIDE DEF S
    <3> DEFINE g == [ip \in 0..N |-> IF ip = m THEN Instruction(f, code, m) ELSE f[ip]]
    <3>5. \A i \in (m + 1)..N : g[i] = f[i]
      BY <1>1, <3>3
    <3>6. g = [ip \in 0..N |-> g[ip]] /\ g[m] = Instruction(f, code, m)
      BY <3>3
    <3> HIDE DEF g
    <3>7. ASSUME NEW ip \in m..N
          PROVE  g[ip] = Instruction(g, code, ip)
      <4>1. ip \in Nat /\ ip <= Len(code)
        BY <1>1, <3>3 DEF N
      <4>2. \A i \in (ip + 1)..N : i \in (m + 1)..N
        BY <1>1, <3>3
      <4>3. \A i \in (ip + 1)..Len(code) : f[i] = g[i]
        BY <3>5, <4>2 DEF N
      <4>4. Instruction(f, code, ip) = Instruction(g, code, ip)
        BY <4>1, <4>3, InstructionDepends
      <4>5. CASE ip = m
        BY <3>6, <4>4, <4>5
      <4>6. CASE ip # m
        <5>1. ip \in (m + 1)..N
          BY <1>1, <3>3, <4>6
        <5>2. f[ip] = Instruction(f, code, ip)
          BY <3>4, <5>1 DEF RunsFrom, N
        <5> QED
          BY <3>5, <4>4, <5>1, <5>2
      <4> QED
        BY <4>5, <4>6
    <3>8. RunsFrom(g, code, m)
      BY <3>6, <3>7 DEF RunsFrom, N
    <3> QED
      BY <3>3, <3>8 DEF S
  <2> QED
    BY <2>2, <2>3
<1>3. PICK f : RunsFrom(f, code, 0)
  <2>1. N + 1 \in 0..(N + 1) /\ (N + 1) - (N + 1) = 0
    BY <1>1
  <2>2. N + 1 \notin S
    BY <1>2
  <2> QED
    BY <2>1, <2>2
<1>4. f = Rec(f)
  BY <1>3 DEF RunsFrom, N
<1> DEFINE g == CHOOSE h : h = Rec(h)
<1>5. interpret_bdx(code) = g[0]
  BY DEF interpret_bdx, Instruction, Then, PrintCall, WriteCall, Opcode, DataEnd, N
<1>6. g = Rec(g)
  <2> HIDE DEF Rec
  <2> QED
    BY <1>4
<1> HIDE DEF g
<1>7. RunsFrom(g, code, 0)
  <2>1. g = [ip \in 0..N |-> g[ip]]
    BY <1>6
  <2>2. \A ip \in 0..N : Rec(g)[ip] = Instruction(g, code, ip)
    OBVIOUS
  <2>3. \A ip \in 0..N : g[ip] = Instruction(g, code, ip)
    <3> HIDE DEF Rec
    <3> QED
      BY <1>6, <2>2
  <2> QED
    BY <2>1, <2>3 DEF RunsFrom, N
<1> QED
  BY <1>5, <1>7
=============================================================================
