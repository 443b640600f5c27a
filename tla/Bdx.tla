--------------------------------- MODULE Bdx --------------------------------
(***************************************************************************)
(* BDX programs: the interpreter of exec/exec.c, as an operator from the   *)
(* bytes of a program to the calls it makes, and the program that the      *)
(* editor assembles for a save.  code is a sequence of bytes; ip counts    *)
(* from 0 as in the code.  A program that makes the interpreter read       *)
(* behind its last byte ends "astray": nothing is known of what follows.   *)
(***************************************************************************)
EXTENDS Integers, SequencesExt

OPCODE_SYSCALL_PRINT == 1
OPCODE_SYSCALL_WRITE == 3
OPCODE_EXIT == 4

SizeofUint == 4

\* A uint32_t in memory, low byte first, and back.
Encode(n) ==
  LET Rest(m) == m \div 256
  IN  <<n % 256, Rest(n) % 256, Rest(Rest(n)) % 256, Rest(Rest(Rest(n))) % 256>>
Decode(code, ip) ==
  code[ip + 1] + 256 * (code[ip + 2] + 256 * (code[ip + 3] + 256 * code[ip + 4]))

\* The C string at ip.
Ends(code, ip) == {i \in ip..(Len(code) - 1) : code[i + 1] = 0}
StringAt(code, ip) == SubSeq(code, ip + 1, Min(Ends(code, ip)))

\* Fault: the terminator is not skipped.
BehindStringShort(code, ip) == ip + Len(StringAt(code, ip))

BehindString(code, ip) == ip + Len(StringAt(code, ip)) + 1

\* The operands of a write: path, length, data; they are all in the code.
DataAt(code, ip) == BehindString(code, ip) + SizeofUint
DataLength(code, ip) == Decode(code, BehindString(code, ip))
Complete(code, ip) ==
  /\ Ends(code, ip) # {}
  /\ DataAt(code, ip) <= Len(code)
  /\ DataAt(code, ip) + DataLength(code, ip) <= Len(code)

\* The calls a program makes, and whether its end was reached inside it.
interpret_bdx(code) ==
  LET Then(call, rest) == [rest EXCEPT !.calls = <<call>> \o @]
      run[ip \in 0..Len(code)] ==
        LET opcode == IF ip < Len(code) THEN code[ip + 1] ELSE -1
            arg == ip + 1
            data == DataAt(code, arg)
            end == data + DataLength(code, arg)
        IN  IF opcode = OPCODE_SYSCALL_PRINT /\ Ends(code, arg) # {}
            THEN Then([name |-> "print", text |-> StringAt(code, arg)],
                      run[BehindString(code, arg)])
            ELSE IF opcode = OPCODE_SYSCALL_WRITE /\ Complete(code, arg)
            THEN Then([name |-> "bdfs_write_file", path |-> StringAt(code, arg),
                       data |-> SubSeq(code, data + 1, end)],
                      run[end])
            ELSE [calls |-> <<>>,
                  end |-> IF opcode \in {-1, OPCODE_SYSCALL_PRINT, OPCODE_SYSCALL_WRITE}
                          THEN "astray" ELSE "returned"]
  IN  run[0]

\* What syscall_write() of the editor puts together.
WriteProgram(path, data) ==
  <<OPCODE_SYSCALL_WRITE>> \o path \o <<0>> \o Encode(Len(data)) \o data \o <<OPCODE_EXIT>>
=============================================================================
