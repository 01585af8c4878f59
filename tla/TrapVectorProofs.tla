-------------------------- MODULE TrapVectorProofs --------------------------
(***************************************************************************)
(* Theorems about TrapVector, for any number of tasks, any stack size and  *)
(* any contents of the registers.                                          *)
(*                                                                         *)
(* TaskKeepsRegisters speaks of the instants at which a task executes; to  *)
(* get from a trap to the next such instant the invariant says, before     *)
(* each of the 68 instructions, which registers and which words of the     *)
(* frame hold the values of the interrupted task (RegisterInv), that the   *)
(* frame lies clear of every TaskContext and of every live word of a stack *)
(* (FrameInv), and that the TaskContexts hold the values of the tasks that *)
(* do not execute (ContextInv).                                            *)
(***************************************************************************)
EXTENDS TrapVector, TLAPS

\* What the current task owns.
Mine == owned[current]

\* The shape of the machine and of what the tasks own.
Shape ==
  /\ pc \in 0..68 /\ current \in Task
  /\ DOMAIN reg = GPR /\ DOMAIN mem = Words
  /\ DOMAIN csr = {"mepc", "mstatus", "mscratch"}
  /\ DOMAIN owned = Task
  /\ \A t \in Task : DOMAIN owned[t] = GPR \cup {"mepc", "mstatus"}

\* sp is in the stack of its task.
StackInv ==
  \A t \in Task : /\ owned[t].sp \in Int /\ owned[t].sp % 8 = 0
                  /\ StackTop(t) - STACK_SIZE <= owned[t].sp /\ owned[t].sp <= StackTop(t)

\* The trap CSRs hold what the current task owns.
CsrInv == csr.mepc = Mine.mepc /\ csr.mstatus = Mine.mstatus

\* The TaskContext of a task that does not execute holds what it owns.
ContextInv ==
  \A t \in Task \ {current} : \A k \in 1..33 :
    mem[Context(t) + 8 * (k - 1)] = owned[t][ContextFields[k]]

\* A frame at a touches no TaskContext and no live word of a stack.
FrameSafe(a) ==
  /\ a \in Int /\ a % 8 = 0 /\ 0 <= a /\ a + 256 <= Context(0)
  /\ \A t \in Task : a + 256 <= owned[t].sp \/ StackTop(t) <= a

\* The frame is safe before it is made and as long as it is in use.
FrameInv ==
  /\ pc \in 1..2 => FrameSafe(Mine.sp - 256)
  /\ pc \in 3..67 => FrameSafe(reg["sp"])

\* Which registers still, or again, hold what the task owns, and which words
\* of the frame do, before each instruction.
RegisterInv ==
  /\ pc \in {0, 1, 2, 68} => \A k \in 1..31 : reg[GprFields[k]] = Mine[GprFields[k]]
  /\ pc \in 2..33 => csr.mscratch = Mine.sp
  /\ pc \in 3..33 =>
       \A k \in 1..30 : k >= pc - 2 => reg[GprFields[k]] = Mine[GprFields[k]]
  /\ pc \in 3..67 =>
       \A k \in 1..30 : k < pc - 2 => mem[reg["sp"] + 8 * (k - 1)] = Mine[GprFields[k]]
  /\ pc = 34 => reg["t0"] = Mine.sp
  /\ pc \in 35..67 => mem[reg["sp"] + 240] = Mine.sp
  /\ pc = 36 => reg["a0"] = reg["sp"]
  /\ pc \in 37..67 =>
       \A k \in 1..30 : k < pc - 36 => reg[GprFields[k]] = Mine[GprFields[k]]

\* The inductive invariant.
VectorInv ==
  /\ Shape /\ StackInv /\ CsrInv /\ ContextInv /\ FrameInv /\ RegisterInv
  /\ LiveStackKept
-----------------------------------------------------------------------------
\* The fields of a TaskContext by number.
Fld(k) == ContextFields[k]

\* ContextInv of the next state, field by field.
LEMMA ContextFrom ==
  ASSUME \A t \in Task \ {current'} : \A k \in 1..33 :
           mem'[Context(t) + 8 * (k - 1)] = owned'[t][ContextFields[k]]
  PROVE  ContextInv'
  BY DEF ContextInv, Task, Context

\* The 31 fields of a TrapFrame, and the places of the three that
\* trap_vector names.
LEMMA GprAt ==
  /\ DOMAIN GprFields = 1..31
  /\ GprFields[2] = "t0" /\ GprFields[9] = "a0" /\ GprFields[31] = "sp"
  BY DEF GprFields

\* s is a sequence of length n over Q.
IsSeq(s, n, Q) == s \in Seq(Q) /\ Len(s) = n

\* A function on 1..n is a sequence.
LEMMA TupleIsSeq ==
  ASSUME NEW Q, NEW n \in Nat, NEW s \in [1..n -> Q] PROVE IsSeq(s, n, Q)
  BY DEF IsSeq

\* c is s followed by t.
IsConcat(c, s, m, t, n, Q) ==
  /\ IsSeq(c, m + n, Q)
  /\ \A i \in 1..m : c[i] = s[i]
  /\ \A i \in 1..n : c[m + i] = t[i]

\* Where the elements of a concatenation come from.
LEMMA ConcatAt ==
  ASSUME NEW Q, NEW m, NEW n, NEW s, NEW t, IsSeq(s, m, Q), IsSeq(t, n, Q)
  PROVE  IsConcat(s \o t, s, m, t, n, Q)
  BY DEF IsSeq, IsConcat

\* A TaskContext is a TrapFrame followed by mepc and mstatus.
LEMMA FieldAt ==
  /\ DOMAIN ContextFields = 1..33 /\ Fld(32) = "mepc" /\ Fld(33) = "mstatus"
  /\ \A k \in 1..31 : Fld(k) = GprFields[k]
<1> DEFINE Q == {GprFields[k] : k \in 1..31} \cup {"mepc", "mstatus"}
           t == <<"mepc", "mstatus">>
<1>1. GprFields \in [1..31 -> Q]
  BY DEF GprFields
<1>2. t \in [1..2 -> Q]
  OBVIOUS
<1>3. t[1] = "mepc" /\ t[2] = "mstatus"
  OBVIOUS
<1>4. ContextFields = GprFields \o t
  BY DEF ContextFields
<1> HIDE DEF Q, t
<1>5. IsSeq(GprFields, 31, Q) /\ IsSeq(t, 2, Q)
  BY <1>1, <1>2, 31 \in Nat, 2 \in Nat, TupleIsSeq, Zenon
<1>6. IsConcat(GprFields \o t, GprFields, 31, t, 2, Q)
  BY <1>5, ConcatAt
<1>7. IsConcat(ContextFields, GprFields, 31, t, 2, Q)
  BY <1>4, <1>6, Zenon
<1>8. DOMAIN ContextFields = 1..33
  BY <1>7 DEF IsConcat, IsSeq
<1>9. ContextFields[32] = t[1] /\ ContextFields[33] = t[2]
  BY <1>7, 1 \in 1..2, 2 \in 1..2 DEF IsConcat
<1>10. QED
  BY <1>3, <1>7, <1>8, <1>9 DEF Fld, IsConcat

\* No register has two fields.
LEMMA GprDistinct ==
  ASSUME NEW j \in 1..31, NEW k \in 1..31, GprFields[j] = GprFields[k]
  PROVE  j = k
  BY DEF GprFields

\* mepc and mstatus are no registers.
LEMMA GprNoCsr ==
  ASSUME NEW k \in 1..31 PROVE GprFields[k] \notin {"mepc", "mstatus"}
  BY DEF GprFields

\* No two fields of a TaskContext have the same name.
LEMMA FieldDistinct ==
  ASSUME NEW j \in 1..33, NEW k \in 1..33, Fld(j) = Fld(k)
  PROVE  j = k
  BY FieldAt, GprDistinct, GprNoCsr

\* The offset of the k-th field.
LEMMA OffsetAt ==
  ASSUME NEW k \in 1..33 PROVE Offset(Fld(k)) = 8 * (k - 1)
<1>1. \E j \in DOMAIN ContextFields : ContextFields[j] = Fld(k)
  BY FieldAt DEF Fld
<1> DEFINE j == CHOOSE j \in DOMAIN ContextFields : ContextFields[j] = Fld(k)
<1>2. j \in 1..33 /\ Fld(j) = Fld(k)
  BY <1>1, FieldAt, Zenon DEF Fld
<1>3. j = k
  BY <1>2, FieldDistinct, Zenon
<1>4. QED
  BY <1>3, Zenon DEF Offset

\* The registers are the fields of a TrapFrame.
LEMMA GprIs ==
  /\ \A k \in 1..31 : GprFields[k] \in GPR
  /\ \A r \in GPR : \E k \in 1..31 : r = GprFields[k]
  /\ "sp" \in GPR /\ "t0" \in GPR /\ "a0" \in GPR
  /\ "mepc" \notin GPR /\ "mstatus" \notin GPR
<1>1. /\ \A k \in 1..31 : GprFields[k] \in GPR
      /\ \A r \in GPR : \E k \in 1..31 : r = GprFields[k]
  BY GprAt DEF GPR
<1>2. "sp" \in GPR /\ "t0" \in GPR /\ "a0" \in GPR
  BY <1>1, GprAt, 31 \in 1..31, 2 \in 1..31, 9 \in 1..31
<1>3. QED
  BY <1>1, <1>2, GprNoCsr, Zenon
-----------------------------------------------------------------------------
(* trap_vector, instruction by instruction *)

Prologue == <<<<"csrw", "sp", "mscratch">>, <<"addi", "sp", -256, "sp">>>>
Saves == Stores(SubSeq(GprFields, 1, 30), "sp")
Call == <<<<"csrr", "t0", "mscratch">>, <<"sd", "t0", 240, "sp">>,
          <<"addi", "a0", 0, "sp">>, <<"call">>>>
Restores == Loads(SubSeq(GprFields, 1, 30), "sp")
Epilogue == <<<<"ld", "sp", 240, "sp">>, <<"mret">>>>

\* The fields before sp.
LEMMA FirstGprs ==
  /\ DOMAIN SubSeq(GprFields, 1, 30) = 1..30
  /\ \A k \in 1..30 : SubSeq(GprFields, 1, 30)[k] = GprFields[k]
<1> DEFINE Q == {GprFields[k] : k \in 1..31}
<1>1. GprFields \in [1..31 -> Q]
  BY DEF GprFields
<1> HIDE DEF Q
<1>2. GprFields \in Seq(Q) /\ Len(GprFields) = 31
  BY <1>1, 31 \in Nat, TupleIsSeq, ZenonT(40) DEF IsSeq
<1>3. QED
  BY <1>2

\* The 30 stores and the 30 loads of trap_vector.
LEMMA BlockAt ==
  /\ DOMAIN Saves = 1..30 /\ DOMAIN Restores = 1..30
  /\ \A k \in 1..30 : /\ Saves[k] = <<"sd", GprFields[k], 8 * (k - 1), "sp">>
                      /\ Restores[k] = <<"ld", GprFields[k], 8 * (k - 1), "sp">>
<1>1. \A k \in 1..30 : Offset(GprFields[k]) = 8 * (k - 1)
  <2>1. \A k \in 1..30 : k \in 1..33 /\ k \in 1..31
    OBVIOUS
  <2>2. QED
    BY <2>1, FieldAt, OffsetAt
<1>2. PICK s : s = SubSeq(GprFields, 1, 30)
  BY Zenon
<1>3. DOMAIN s = 1..30 /\ \A k \in 1..30 : s[k] = GprFields[k]
  BY <1>2, FirstGprs, Zenon
<1>4. Saves = Stores(s, "sp") /\ Restores = Loads(s, "sp")
  BY <1>2, Zenon DEF Saves, Restores
<1>5. /\ DOMAIN Stores(s, "sp") = 1..30 /\ DOMAIN Loads(s, "sp") = 1..30
      /\ \A k \in 1..30 : /\ Stores(s, "sp")[k] = <<"sd", GprFields[k], 8 * (k - 1), "sp">>
                          /\ Loads(s, "sp")[k] = <<"ld", GprFields[k], 8 * (k - 1), "sp">>
  BY <1>1, <1>3 DEF Stores, Loads
<1>6. QED
  BY <1>4, <1>5, Zenon

\* The instruction at each place of trap_vector.
LEMMA VectorAt ==
  /\ trap_vector[1] = <<"csrw", "sp", "mscratch">>
  /\ trap_vector[2] = <<"addi", "sp", -256, "sp">>
  /\ \A k \in 1..30 : trap_vector[2 + k] = <<"sd", GprFields[k], 8 * (k - 1), "sp">>
  /\ trap_vector[33] = <<"csrr", "t0", "mscratch">>
  /\ trap_vector[34] = <<"sd", "t0", 240, "sp">>
  /\ trap_vector[35] = <<"addi", "a0", 0, "sp">>
  /\ trap_vector[36] = <<"call">>
  /\ \A k \in 1..30 : trap_vector[36 + k] = <<"ld", GprFields[k], 8 * (k - 1), "sp">>
  /\ trap_vector[67] = <<"ld", "sp", 240, "sp">>
  /\ trap_vector[68] = <<"mret">>
<1> DEFINE Q == {Prologue[i] : i \in 1..2} \cup {Saves[i] : i \in 1..30}
                \cup {Call[i] : i \in 1..4} \cup {Restores[i] : i \in 1..30}
                \cup {Epilogue[i] : i \in 1..2}
<1>1. Prologue \in [1..2 -> Q]
  BY DEF Prologue
<1>2. Call \in [1..4 -> Q]
  BY DEF Call
<1>3. Epilogue \in [1..2 -> Q]
  BY DEF Epilogue
<1>4. Saves \in [1..30 -> Q]
  BY BlockAt, Zenon DEF Saves, Stores
<1>5. Restores \in [1..30 -> Q]
  BY BlockAt, Zenon DEF Restores, Loads
<1> HIDE DEF Q
<1>6. /\ IsSeq(Prologue, 2, Q) /\ IsSeq(Saves, 30, Q) /\ IsSeq(Call, 4, Q)
      /\ IsSeq(Restores, 30, Q) /\ IsSeq(Epilogue, 2, Q)
  BY <1>1, <1>2, <1>3, <1>4, <1>5, 2 \in Nat, 4 \in Nat, 30 \in Nat, TupleIsSeq, Zenon
<1>7. PICK a : a = Prologue \o Saves
  BY Zenon
<1>8. PICK b : b = a \o Call
  BY Zenon
<1>9. PICK c : c = b \o Restores
  BY Zenon
<1>10. PICK v : v = c \o Epilogue
  BY Zenon
<1>11. trap_vector = v
  BY <1>7, <1>8, <1>9, <1>10, Zenon
     DEF trap_vector, Prologue, Saves, Call, Restores, Epilogue
<1>12. IsConcat(a, Prologue, 2, Saves, 30, Q)
  BY <1>6, <1>7, ConcatAt, Zenon
<1>13. IsConcat(b, a, 32, Call, 4, Q)
  <2>1. IsSeq(a, 32, Q)
    BY <1>12 DEF IsConcat, IsSeq
  <2>2. QED
    BY <1>6, <1>8, <2>1, ConcatAt, Zenon
<1>14. IsConcat(c, b, 36, Restores, 30, Q)
  <2>1. IsSeq(b, 36, Q)
    BY <1>13 DEF IsConcat, IsSeq
  <2>2. QED
    BY <1>6, <1>9, <2>1, ConcatAt, Zenon
<1>15. IsConcat(v, c, 66, Epilogue, 2, Q)
  <2>1. IsSeq(c, 66, Q)
    BY <1>14 DEF IsConcat, IsSeq
  <2>2. QED
    BY <1>6, <1>10, <2>1, ConcatAt, Zenon
<1>16. \A i \in 1..66 : v[i] = c[i]
  BY <1>15 DEF IsConcat
<1>17. \A i \in 1..36 : v[i] = b[i]
  BY <1>14, <1>16 DEF IsConcat
<1>18. \A i \in 1..32 : v[i] = a[i]
  BY <1>13, <1>17 DEF IsConcat
<1>19. v[1] = Prologue[1] /\ v[2] = Prologue[2] /\ \A k \in 1..30 : v[2 + k] = Saves[k]
  BY <1>12, <1>18 DEF IsConcat
<1>20. v[33] = Call[1] /\ v[34] = Call[2] /\ v[35] = Call[3] /\ v[36] = Call[4]
  BY <1>13, <1>17 DEF IsConcat
<1>21. \A k \in 1..30 : v[36 + k] = Restores[k]
  BY <1>14, <1>16 DEF IsConcat
<1>22. v[67] = Epilogue[1] /\ v[68] = Epilogue[2]
  BY <1>15 DEF IsConcat
<1>23. /\ v[1] = <<"csrw", "sp", "mscratch">> /\ v[2] = <<"addi", "sp", -256, "sp">>
  BY <1>19 DEF Prologue
<1>24. /\ v[33] = <<"csrr", "t0", "mscratch">> /\ v[34] = <<"sd", "t0", 240, "sp">>
       /\ v[35] = <<"addi", "a0", 0, "sp">> /\ v[36] = <<"call">>
  BY <1>20 DEF Call
<1>25. v[67] = <<"ld", "sp", 240, "sp">> /\ v[68] = <<"mret">>
  BY <1>22 DEF Epilogue
<1>26. \A k \in 1..30 : /\ v[2 + k] = <<"sd", GprFields[k], 8 * (k - 1), "sp">>
                        /\ v[36 + k] = <<"ld", GprFields[k], 8 * (k - 1), "sp">>
  BY <1>19, <1>21, BlockAt, Zenon
<1>27. QED
  BY <1>11, <1>23, <1>24, <1>25, <1>26, Zenon
-----------------------------------------------------------------------------
(* Structs *)

\* A store of a struct keeps the addresses of memory.
LEMMA PutDomain ==
  ASSUME NEW v, NEW m, NEW a PROVE DOMAIN Put(v, m, a) = DOMAIN m
  BY DEF Put

\* The fields of v are those with the numbers in K.
HasFields(v, K) == K \subseteq 1..33 /\ DOMAIN v = {Fld(k) : k \in K}

\* What a store of a struct leaves at one of its fields.
LEMMA PutAt ==
  ASSUME NEW K, NEW v, HasFields(v, K),
         NEW m, NEW a \in Int, NEW k \in K, a + 8 * (k - 1) \in DOMAIN m
  PROVE  Put(v, m, a)[a + 8 * (k - 1)] = v[Fld(k)]
<1> DEFINE w == a + 8 * (k - 1)
           f == CHOOSE f \in DOMAIN v : w = a + Offset(f)
<1>1. Fld(k) \in DOMAIN v /\ w = a + Offset(Fld(k))
  BY OffsetAt DEF HasFields
<1>2. f \in DOMAIN v /\ w = a + Offset(f)
  BY <1>1
<1>3. PICK j \in K : f = Fld(j)
  BY <1>2 DEF HasFields
<1>4. j = k
  BY <1>2, <1>3, OffsetAt DEF HasFields
<1>5. QED
  BY <1>1, <1>3, <1>4, Zenon DEF Put

\* A store of a struct changes only its own fields.
LEMMA PutElsewhere ==
  ASSUME NEW K, NEW v, HasFields(v, K),
         NEW m, NEW a \in Int, NEW w \in DOMAIN m, \A k \in K : w # a + 8 * (k - 1)
  PROVE  Put(v, m, a)[w] = m[w]
<1>1. \A f \in DOMAIN v : w # a + Offset(f)
  BY OffsetAt DEF HasFields
<1>2. QED
  BY <1>1 DEF Put

\* What is read as a TrapFrame.
LEMMA StructGpr ==
  ASSUME NEW m, NEW a
  PROVE  /\ DOMAIN Struct(GprFields, m, a) = {Fld(k) : k \in 1..31}
         /\ \A k \in 1..31 : Struct(GprFields, m, a)[Fld(k)] = m[a + 8 * (k - 1)]
<1>1. {GprFields[k] : k \in DOMAIN GprFields} = {Fld(k) : k \in 1..31}
  BY GprAt, FieldAt
<1>2. DOMAIN Struct(GprFields, m, a) = {Fld(k) : k \in 1..31}
  BY <1>1 DEF Struct
<1>3. \A k \in 1..31 : Struct(GprFields, m, a)[Fld(k)] = m[a + Offset(Fld(k))]
  BY <1>1 DEF Struct
<1>4. QED
  BY <1>2, <1>3, OffsetAt

\* What is read as a TaskContext.
LEMMA StructContext ==
  ASSUME NEW m, NEW a
  PROVE  \A k \in 1..33 : Struct(ContextFields, m, a)[Fld(k)] = m[a + 8 * (k - 1)]
<1> SUFFICES ASSUME NEW k \in 1..33
             PROVE  Struct(ContextFields, m, a)[Fld(k)] = m[a + 8 * (k - 1)]
  OBVIOUS
<1>1. Fld(k) \in {ContextFields[j] : j \in DOMAIN ContextFields}
  BY FieldAt DEF Fld
<1>2. Struct(ContextFields, m, a)[Fld(k)] = m[a + Offset(Fld(k))]
  BY <1>1 DEF Struct
<1>3. QED
  BY <1>2, OffsetAt
-----------------------------------------------------------------------------
\* A stack is a number of words.
LEMMA SizeWords == \E s \in Nat : STACK_SIZE = 8 * s
<1>1. STACK_SIZE = 8 * (STACK_SIZE \div 8)
  BY TrapVectorAssumption
<1>2. QED
  BY <1>1, TrapVectorAssumption

\* Which addresses are words of memory.
LEMMA WordIs ==
  /\ \A w \in Words : w \in Int /\ 0 <= w
  /\ \A w \in Int : w % 8 = 0 /\ 0 <= w /\ w < N * STACK_SIZE + N * 264 => w \in Words
<1>1. PICK s \in Nat : STACK_SIZE = 8 * s
  BY SizeWords
<1>2. N \in Nat
  BY TrapVectorAssumption
<1>3. PICK p \in Nat : p = N * s
  BY <1>2
<1>4. N * STACK_SIZE = 8 * p /\ N * (STACK_SIZE + 264) = 8 * (p + 33 * N)
  BY <1>1, <1>2, <1>3
<1>5. (N * (STACK_SIZE + 264)) \div 8 = p + 33 * N
  BY <1>2, <1>4
<1>6. Words = {8 * k : k \in 0..((p + 33 * N) - 1)}
  BY <1>5, Zenon DEF Words
<1>7. \A w \in Words : w \in Int /\ 0 <= w
  BY <1>2, <1>6
<1>8. ASSUME NEW w \in Int, w % 8 = 0, 0 <= w, w < N * STACK_SIZE + N * 264
      PROVE  w \in Words
  <2>1. w = 8 * (w \div 8) /\ w \div 8 \in Nat
    BY <1>8
  <2>2. w < 8 * (p + 33 * N)
    BY <1>2, <1>4, <1>8
  <2>3. w \div 8 \in 0..((p + 33 * N) - 1)
    BY <1>2, <2>1, <2>2
  <2>4. QED
    BY <1>6, <2>1, <2>3
<1>9. QED
  BY <1>7, <1>8

\* The stacks lie one above the other below the TaskContexts.
LEMMA StackIs ==
  ASSUME NEW t \in Task
  PROVE  /\ StackTop(t) \in Int /\ StackTop(t) % 8 = 0 /\ Context(0) \in Int
         /\ Context(0) % 8 = 0 /\ Context(0) = N * STACK_SIZE
         /\ 0 <= StackTop(t) - STACK_SIZE /\ StackTop(t) <= Context(0)
<1>1. PICK s \in Nat : STACK_SIZE = 8 * s
  BY SizeWords
<1>2. N \in Nat /\ STACK_SIZE \in Nat /\ t \in Nat /\ t + 1 <= N
  BY TrapVectorAssumption DEF Task
<1>3. (t + 1) * STACK_SIZE = 8 * ((t + 1) * s) /\ N * STACK_SIZE = 8 * (N * s)
  BY <1>1, <1>2
<1>4. (t + 1) * s \in Nat /\ N * s \in Nat
  BY <1>1, <1>2
<1>5. StackTop(t) \in Int /\ StackTop(t) % 8 = 0
  BY <1>3, <1>4 DEF StackTop
<1>6. Context(0) = N * STACK_SIZE /\ Context(0) \in Int /\ Context(0) % 8 = 0
  <2>1. PICK p \in Nat : p = N * s
    BY <1>4
  <2>2. N * STACK_SIZE = 8 * p
    BY <1>3, <2>1
  <2>3. Context(0) = N * STACK_SIZE
    BY <2>2 DEF Context
  <2>4. QED
    BY <2>2, <2>3
<1>7. (t + 1) * STACK_SIZE = t * STACK_SIZE + STACK_SIZE /\ 0 <= t * STACK_SIZE
  BY <1>2
<1>8. (t + 1) * STACK_SIZE <= N * STACK_SIZE
  <2>1. PICK e \in Nat : N = t + 1 + e
    BY <1>2
  <2>2. N * STACK_SIZE = (t + 1) * STACK_SIZE + e * STACK_SIZE /\ 0 <= e * STACK_SIZE
    BY <1>2, <2>1
  <2>3. QED
    BY <1>2, <2>2
<1>9. QED
  BY <1>2, <1>5, <1>6, <1>7, <1>8 DEF StackTop

\* The stack of a task ends where that of a later one begins, or before.
LEMMA StacksApart ==
  ASSUME NEW t \in Task, NEW u \in Task, t < u
  PROVE  StackTop(t) <= StackTop(u) - STACK_SIZE
<1>1. STACK_SIZE \in Nat /\ t \in Nat /\ u \in Nat
  BY TrapVectorAssumption DEF Task
<1>2. PICK e \in Nat : u = t + 1 + e
  BY <1>1
<1>3. (u + 1) * STACK_SIZE = (t + 1) * STACK_SIZE + e * STACK_SIZE + STACK_SIZE
      /\ 0 <= e * STACK_SIZE
  BY <1>1, <1>2
<1>4. (t + 1) * STACK_SIZE \in Int
  BY <1>1
<1>5. QED
  BY <1>1, <1>3, <1>4 DEF StackTop

\* The TaskContexts lie above the stacks, 264 bytes each.
LEMMA ContextIs ==
  ASSUME NEW t \in Task, NEW k \in 1..33
  PROVE  /\ Context(t) \in Int /\ Context(t) = Context(0) + 264 * t
         /\ Context(t) + 8 * (k - 1) \in Words
         /\ Context(0) <= Context(t) + 8 * (k - 1)
<1>1. N \in Nat /\ t \in Nat /\ t + 1 <= N
  BY TrapVectorAssumption DEF Task
<1>2. Context(0) \in Int /\ Context(0) % 8 = 0 /\ Context(0) = N * STACK_SIZE
      /\ 0 <= Context(0)
  BY StackIs, TrapVectorAssumption
<1>3. Context(t) = Context(0) + 264 * t
  BY <1>1, <1>2 DEF Context
<1>4. Context(t) + 8 * (k - 1) < N * STACK_SIZE + N * 264
  BY <1>1, <1>2, <1>3
<1>5. PICK w : w = Context(t) + 8 * (k - 1)
  OBVIOUS
<1>6. w \in Int /\ w % 8 = 0 /\ 0 <= w
  BY <1>1, <1>2, <1>3, <1>5
<1>7. w \in Words
  BY <1>4, <1>5, <1>6, WordIs
<1>8. QED
  BY <1>1, <1>2, <1>3, <1>5, <1>7

\* No two TaskContexts share a word.
LEMMA ContextsApart ==
  ASSUME NEW t \in Task, NEW u \in Task, NEW j \in 1..33, NEW k \in 1..33,
         Context(t) + 8 * (j - 1) = Context(u) + 8 * (k - 1)
  PROVE  t = u /\ j = k
<1>1. t \in Int /\ u \in Int
  BY DEF Task
<1>2. Context(0) \in Int /\ Context(t) = Context(0) + 264 * t
      /\ Context(u) = Context(0) + 264 * u
  BY StackIs, ContextIs
<1>3. QED
  BY <1>1, <1>2

\* The words of a safe frame.
LEMMA FrameWord ==
  ASSUME NEW a, FrameSafe(a), NEW k \in 1..31
  PROVE  /\ a \in Int /\ a + 8 * (k - 1) \in Words
         /\ a + 8 * (k - 1) < Context(0)
         /\ StackInv => \A t \in Task : ~(owned[t].sp <= a + 8 * (k - 1) /\ a + 8 * (k - 1) < StackTop(t))
<1>1. a \in Int /\ a % 8 = 0 /\ 0 <= a /\ a + 256 <= Context(0)
  BY DEF FrameSafe
<1>2. 0 \in Task
  BY TrapVectorAssumption DEF Task
<1>3. Context(0) \in Int /\ Context(0) = N * STACK_SIZE /\ N \in Nat
  BY <1>2, StackIs, TrapVectorAssumption
<1>4. PICK w : w = a + 8 * (k - 1)
  OBVIOUS
<1>5. w \in Int /\ w % 8 = 0 /\ 0 <= w /\ w < Context(0) /\ a <= w /\ w < a + 256
  BY <1>1, <1>3, <1>4
<1>6. w \in Words
  <2>1. w < N * STACK_SIZE + N * 264
    BY <1>3, <1>5
  <2>2. QED
    BY <1>5, <2>1, WordIs
<1>7. ASSUME StackInv, NEW t \in Task PROVE ~(owned[t].sp <= w /\ w < StackTop(t))
  <2>1. owned[t].sp \in Int /\ StackTop(t) \in Int
    BY <1>7, StackIs DEF StackInv
  <2>2. a + 256 <= owned[t].sp \/ StackTop(t) <= a
    BY DEF FrameSafe
  <2>3. QED
    BY <1>1, <1>5, <2>1, <2>2
<1>8. QED
  BY <1>1, <1>4, <1>5, <1>6, <1>7
-----------------------------------------------------------------------------
\* The k-th store and the k-th load.
StoresRegister(k) ==
  /\ pc = 2 + k /\ UNCHANGED <<reg, csr>>
  /\ mem' = [mem EXCEPT ![reg["sp"] + 8 * (k - 1)] = reg[GprFields[k]]]

LoadsRegister(k) ==
  /\ pc = 36 + k /\ UNCHANGED <<csr, mem>>
  /\ reg' = [reg EXCEPT ![GprFields[k]] = mem[reg["sp"] + 8 * (k - 1)]]

\* What the instruction at pc does.
LEMMA InstructionCases ==
  ASSUME pc \in 0..68, Instruction
  PROVE  \/ pc = 1 /\ csr' = [csr EXCEPT !["mscratch"] = reg["sp"]] /\ UNCHANGED <<reg, mem>>
         \/ pc = 2 /\ reg' = [reg EXCEPT !["sp"] = reg["sp"] + (-256)] /\ UNCHANGED <<csr, mem>>
         \/ \E k \in 1..30 : StoresRegister(k)
         \/ pc = 33 /\ reg' = [reg EXCEPT !["t0"] = csr["mscratch"]] /\ UNCHANGED <<csr, mem>>
         \/ pc = 34 /\ mem' = [mem EXCEPT ![reg["sp"] + 240] = reg["t0"]] /\ UNCHANGED <<reg, csr>>
         \/ pc = 35 /\ reg' = [reg EXCEPT !["a0"] = reg["sp"] + 0] /\ UNCHANGED <<csr, mem>>
         \/ \E k \in 1..30 : LoadsRegister(k)
         \/ pc = 67 /\ reg' = [reg EXCEPT !["sp"] = mem[reg["sp"] + 240]] /\ UNCHANGED <<csr, mem>>
<1>1. PICK m : m = Exec(trap_vector[pc], [reg |-> reg, csr |-> csr, mem |-> mem])
               /\ pc # 0 /\ trap_vector[pc][1] \notin {"call", "mret"}
               /\ reg' = m.reg /\ csr' = m.csr /\ mem' = m.mem
  BY DEF Instruction
<1>2. ASSUME pc = 1
      PROVE  csr' = [csr EXCEPT !["mscratch"] = reg["sp"]] /\ reg' = reg /\ mem' = mem
  <2>1. m = Exec(<<"csrw", "sp", "mscratch">>,
                 [reg |-> reg, csr |-> csr, mem |-> mem])
    BY <1>1, <1>2, VectorAt, Zenon
  <2>2. m.csr = [csr EXCEPT !["mscratch"] = reg["sp"]] /\ m.reg = reg /\ m.mem = mem
    BY <2>1, Zenon DEF Exec
  <2>3. QED
    BY <1>1, <2>2, Zenon
<1>3. ASSUME pc = 2
      PROVE  reg' = [reg EXCEPT !["sp"] = reg["sp"] + (-256)] /\ csr' = csr /\ mem' = mem
  <2>1. m = Exec(<<"addi", "sp", -256, "sp">>,
                 [reg |-> reg, csr |-> csr, mem |-> mem])
    BY <1>1, <1>3, VectorAt, Zenon
  <2>2. m.reg = [reg EXCEPT !["sp"] = reg["sp"] + (-256)] /\ m.csr = csr /\ m.mem = mem
    BY <2>1, Zenon DEF Exec
  <2>3. QED
    BY <1>1, <2>2, Zenon
<1>4. ASSUME NEW k \in 1..30, pc = 2 + k PROVE StoresRegister(k)
  <2>1. m = Exec(<<"sd", GprFields[k], 8 * (k - 1), "sp">>,
                 [reg |-> reg, csr |-> csr, mem |-> mem])
    BY <1>1, <1>4, VectorAt, Zenon
  <2>2. /\ m.mem = [mem EXCEPT ![reg["sp"] + 8 * (k - 1)] = reg[GprFields[k]]]
        /\ m.reg = reg /\ m.csr = csr
    BY <2>1, Zenon DEF Exec
  <2>3. QED
    BY <1>1, <1>4, <2>2, Zenon DEF StoresRegister
<1>5. ASSUME pc = 33
      PROVE  reg' = [reg EXCEPT !["t0"] = csr["mscratch"]] /\ csr' = csr /\ mem' = mem
  <2>1. m = Exec(<<"csrr", "t0", "mscratch">>,
                 [reg |-> reg, csr |-> csr, mem |-> mem])
    BY <1>1, <1>5, VectorAt, Zenon
  <2>2. m.reg = [reg EXCEPT !["t0"] = csr["mscratch"]] /\ m.csr = csr /\ m.mem = mem
    BY <2>1, Zenon DEF Exec
  <2>3. QED
    BY <1>1, <2>2, Zenon
<1>6. ASSUME pc = 34
      PROVE  mem' = [mem EXCEPT ![reg["sp"] + 240] = reg["t0"]] /\ reg' = reg /\ csr' = csr
  <2>1. m = Exec(<<"sd", "t0", 240, "sp">>,
                 [reg |-> reg, csr |-> csr, mem |-> mem])
    BY <1>1, <1>6, VectorAt, Zenon
  <2>2. m.mem = [mem EXCEPT ![reg["sp"] + 240] = reg["t0"]] /\ m.reg = reg /\ m.csr = csr
    BY <2>1, Zenon DEF Exec
  <2>3. QED
    BY <1>1, <2>2, Zenon
<1>7. ASSUME pc = 35
      PROVE  reg' = [reg EXCEPT !["a0"] = reg["sp"] + 0] /\ csr' = csr /\ mem' = mem
  <2>1. m = Exec(<<"addi", "a0", 0, "sp">>,
                 [reg |-> reg, csr |-> csr, mem |-> mem])
    BY <1>1, <1>7, VectorAt, Zenon
  <2>2. m.reg = [reg EXCEPT !["a0"] = reg["sp"] + 0] /\ m.csr = csr /\ m.mem = mem
    BY <2>1, Zenon DEF Exec
  <2>3. QED
    BY <1>1, <2>2, Zenon
<1>8. ASSUME NEW k \in 1..30, pc = 36 + k PROVE LoadsRegister(k)
  <2>1. m = Exec(<<"ld", GprFields[k], 8 * (k - 1), "sp">>,
                 [reg |-> reg, csr |-> csr, mem |-> mem])
    BY <1>1, <1>8, VectorAt, Zenon
  <2>2. /\ m.reg = [reg EXCEPT ![GprFields[k]] = mem[reg["sp"] + 8 * (k - 1)]]
        /\ m.csr = csr /\ m.mem = mem
    BY <2>1, Zenon DEF Exec
  <2>3. QED
    BY <1>1, <1>8, <2>2, Zenon DEF LoadsRegister
<1>9. ASSUME pc = 67
      PROVE  reg' = [reg EXCEPT !["sp"] = mem[reg["sp"] + 240]] /\ csr' = csr /\ mem' = mem
  <2>1. m = Exec(<<"ld", "sp", 240, "sp">>,
                 [reg |-> reg, csr |-> csr, mem |-> mem])
    BY <1>1, <1>9, VectorAt, Zenon
  <2>2. m.reg = [reg EXCEPT !["sp"] = mem[reg["sp"] + 240]] /\ m.csr = csr /\ m.mem = mem
    BY <2>1, Zenon DEF Exec
  <2>3. QED
    BY <1>1, <2>2, Zenon
<1>10. pc # 36 /\ pc # 68
  BY <1>1, VectorAt
<1>11. \/ pc \in {1, 2, 33, 34, 35, 67}
       \/ \E k \in 1..30 : pc = 2 + k
       \/ \E k \in 1..30 : pc = 36 + k
  <2>1. pc \in 3..32 => pc - 2 \in 1..30 /\ pc = 2 + (pc - 2)
    OBVIOUS
  <2>2. pc \in 37..66 => pc - 36 \in 1..30 /\ pc = 36 + (pc - 36)
    OBVIOUS
  <2>3. pc \in 1..68 /\ pc # 36 /\ pc # 68
    BY <1>1, <1>10
  <2>4. pc \in {1, 2, 33, 34, 35, 67} \/ pc \in 3..32 \/ pc \in 37..66
    BY <2>3
  <2>5. QED
    BY <2>1, <2>2, <2>4
<1>12. QED
  BY <1>2, <1>3, <1>4, <1>5, <1>6, <1>7, <1>8, <1>9, <1>11

\* A register is written; the others keep their values.
LEMMA RegWrite ==
  ASSUME DOMAIN reg = GPR, NEW k \in 1..31, NEW v, reg' = [reg EXCEPT ![GprFields[k]] = v]
  PROVE  /\ DOMAIN reg' = GPR /\ reg'[GprFields[k]] = v
         /\ \A j \in 1..31 : j # k => reg'[GprFields[j]] = reg[GprFields[j]]
  BY GprIs, GprDistinct

\* sp is written; the other registers keep their values.
LEMMA SpWrite ==
  ASSUME DOMAIN reg = GPR, NEW v, reg' = [reg EXCEPT !["sp"] = v]
  PROVE  /\ DOMAIN reg' = GPR /\ reg'["sp"] = v
         /\ \A j \in 1..30 : reg'[GprFields[j]] = reg[GprFields[j]]
<1>1. \A j \in 1..30 : GprFields[j] # "sp" /\ GprFields[j] \in GPR
  BY GprAt, GprDistinct, GprIs, 31 \in 1..31
<1>2. QED
  BY <1>1, GprIs

\* A word of the frame is written; the others keep their values.
OutsideFrame(a, w) == \A j \in 1..31 : w # a + 8 * (j - 1)

LEMMA FrameWrite ==
  ASSUME DOMAIN mem = Words, NEW a, FrameSafe(a), NEW k \in 1..31, NEW v,
         mem' = [mem EXCEPT ![a + 8 * (k - 1)] = v]
  PROVE  /\ DOMAIN mem' = Words /\ mem'[a + 8 * (k - 1)] = v
         /\ \A j \in 1..31 : j # k => mem'[a + 8 * (j - 1)] = mem[a + 8 * (j - 1)]
         /\ \A w \in Words : OutsideFrame(a, w) => mem'[w] = mem[w]
<1>1. a \in Int /\ \A j \in 1..31 : a + 8 * (j - 1) \in Words
  BY FrameWord, Zenon
<1>2. DOMAIN mem' = Words /\ mem'[a + 8 * (k - 1)] = v
  BY <1>1
<1>3. \A j \in 1..31 : j # k => mem'[a + 8 * (j - 1)] = mem[a + 8 * (j - 1)]
  <2> TAKE j \in 1..31
  <2> HAVE j # k
  <2>1. a + 8 * (j - 1) # a + 8 * (k - 1)
    BY <1>1
  <2>2. QED
    BY <1>1, <2>1
<1>4. \A w \in Words : OutsideFrame(a, w) => mem'[w] = mem[w]
  BY DEF OutsideFrame
<1>5. QED
  BY <1>2, <1>3, <1>4

\* Writing to a safe frame disturbs no context and no live word.
LEMMA OutsideStays ==
  ASSUME StackInv, NEW a, FrameSafe(a), ContextInv, LiveStackKept,
         \A w \in Words : OutsideFrame(a, w) => mem'[w] = mem[w],
         UNCHANGED current, \A t \in Task : owned'[t].sp = owned[t].sp,
         \A t \in Task \ {current} : owned'[t] = owned[t]
  PROVE  ContextInv' /\ LiveStackKept'
<1>1. ASSUME NEW w \in Int, Context(0) <= w PROVE OutsideFrame(a, w)
  <2>1. 0 \in Task
    BY TrapVectorAssumption DEF Task
  <2>2. Context(0) \in Int
    BY <2>1, StackIs
  <2>3. \A j \in 1..31 : a \in Int /\ a + 8 * (j - 1) < Context(0)
    BY FrameWord, Zenon
  <2>4. QED
    BY <1>1, <2>2, <2>3 DEF OutsideFrame
<1>2. ContextInv'
  <2> SUFFICES ASSUME NEW t \in Task \ {current}, NEW k \in 1..33
               PROVE  mem'[Context(t) + 8 * (k - 1)] = owned'[t][ContextFields[k]]
    BY ContextFrom, Zenon
  <2>1. PICK w \in Words : w = Context(t) + 8 * (k - 1) /\ Context(0) <= w
    BY ContextIs
  <2>2. OutsideFrame(a, w)
    BY <1>1, <2>1, WordIs
  <2>3. mem[w] = owned[t][ContextFields[k]]
    BY <2>1, Zenon DEF ContextInv
  <2>4. mem'[w] = mem[w] /\ owned'[t] = owned[t]
    BY <2>2
  <2>5. QED
    BY <2>1, <2>3, <2>4, Zenon
<1>3. LiveStackKept'
  <2> SUFFICES ASSUME NEW t \in Task, NEW w \in Words, owned'[t].sp <= w, w < StackTop(t)
               PROVE  mem'[w] = Live(t)
    BY DEF LiveStackKept, Task, Words, StackTop, Live
  <2>1. owned[t].sp <= w
    BY Zenon
  <2>2. OutsideFrame(a, w)
    BY <2>1, FrameWord, Zenon DEF OutsideFrame
  <2>3. QED
    BY <2>1, <2>2 DEF LiveStackKept
<1>4. QED
  BY <1>2, <1>3
-----------------------------------------------------------------------------
\* What holds of every instruction of trap_vector.
LEMMA InstructionFrame ==
  ASSUME VectorInv, Instruction
  PROVE  /\ pc' = pc + 1 /\ UNCHANGED <<current, owned>> /\ Mine' = Mine
         /\ pc \in 0..68 /\ current \in Task /\ DOMAIN reg = GPR /\ DOMAIN mem = Words
         /\ StackInv' /\ StackInv
  BY DEF VectorInv, Shape, Instruction, Mine, StackInv

\* The frame stays where it is.
LEMMA FrameStays ==
  ASSUME FrameSafe(reg["sp"]), pc' \in 3..67, reg'["sp"] = reg["sp"],
         \A t \in Task : owned'[t].sp = owned[t].sp
  PROVE  FrameInv'
<1>1. FrameSafe(reg["sp"])'
  BY DEF FrameSafe, Task, StackTop, Context
<1>2. pc' \notin 1..2
  OBVIOUS
<1>3. QED
  BY <1>1, <1>2 DEF FrameInv

\* csrw mscratch, sp
LEMMA SaveSp ==
  ASSUME VectorInv, Instruction, pc = 1,
         csr' = [csr EXCEPT !["mscratch"] = reg["sp"]], UNCHANGED <<reg, mem>>
  PROVE  VectorInv'
<1>1. /\ pc' = 2 /\ UNCHANGED <<current, owned>> /\ Mine' = Mine /\ StackInv'
  BY InstructionFrame
<1>2. DOMAIN csr = {"mepc", "mstatus", "mscratch"}
  BY DEF VectorInv, Shape
<1>3. /\ DOMAIN csr' = {"mepc", "mstatus", "mscratch"}
      /\ csr'.mepc = csr.mepc /\ csr'.mstatus = csr.mstatus /\ csr'.mscratch = reg["sp"]
  BY <1>2
<1>4. reg["sp"] = Mine.sp
  BY GprAt, 31 \in 1..31 DEF VectorInv, RegisterInv
<1>5. Shape'
  BY <1>1, <1>3 DEF VectorInv, Shape
<1>6. CsrInv'
  BY <1>1, <1>3 DEF VectorInv, CsrInv
<1>7. ContextInv' /\ LiveStackKept'
  BY <1>1 DEF VectorInv, ContextInv, LiveStackKept
<1>8. FrameInv'
  BY <1>1 DEF VectorInv, FrameInv, FrameSafe
<1>9. RegisterInv'
  BY <1>1, <1>3, <1>4 DEF VectorInv, RegisterInv
<1>10. QED
  BY <1>1, <1>5, <1>6, <1>7, <1>8, <1>9 DEF VectorInv

\* addi sp, sp, -256
LEMMA MoveSp ==
  ASSUME VectorInv, Instruction, pc = 2,
         reg' = [reg EXCEPT !["sp"] = reg["sp"] + (-256)], UNCHANGED <<csr, mem>>
  PROVE  VectorInv'
<1>1. /\ pc' = 3 /\ UNCHANGED <<current, owned>> /\ Mine' = Mine /\ StackInv'
      /\ current \in Task /\ DOMAIN reg = GPR
  BY InstructionFrame
<1>2. reg["sp"] = Mine.sp /\ Mine.sp \in Int
  BY <1>1, GprAt, 31 \in 1..31 DEF VectorInv, RegisterInv, StackInv, Mine
<1>3. /\ DOMAIN reg' = GPR /\ reg'["sp"] = Mine.sp - 256
      /\ \A j \in 1..30 : reg'[GprFields[j]] = reg[GprFields[j]]
  <2>1. /\ DOMAIN reg' = GPR /\ reg'["sp"] = reg["sp"] + (-256)
        /\ \A j \in 1..30 : reg'[GprFields[j]] = reg[GprFields[j]]
    BY <1>1, SpWrite, Zenon
  <2>2. QED
    BY <1>2, <2>1
<1>4. Shape'
  BY <1>1, <1>3 DEF VectorInv, Shape
<1>5. CsrInv' /\ ContextInv' /\ LiveStackKept'
  BY <1>1 DEF VectorInv, CsrInv, ContextInv, LiveStackKept
<1>6. FrameInv'
  BY <1>1, <1>3, SMTT(20) DEF VectorInv, FrameInv, FrameSafe
<1>7. RegisterInv'
  BY <1>1, <1>3 DEF VectorInv, RegisterInv
<1>8. QED
  BY <1>1, <1>4, <1>5, <1>6, <1>7 DEF VectorInv

\* The stores of the 30 registers other than sp.
LEMMA SaveRegister ==
  ASSUME VectorInv, Instruction, NEW k \in 1..30, StoresRegister(k)
  PROVE  VectorInv'
<1>1. pc = 2 + k /\ UNCHANGED <<reg, csr>>
  BY DEF StoresRegister
<1>2. pc \in 3..33 /\ pc \in 3..67 /\ k >= pc - 2
  BY <1>1
<1>3. /\ pc' = pc + 1 /\ UNCHANGED <<current, owned>> /\ Mine' = Mine /\ StackInv'
      /\ DOMAIN mem = Words /\ StackInv
  BY InstructionFrame, Zenon
<1>4. FrameSafe(reg["sp"])
  BY <1>2, Zenon DEF VectorInv, FrameInv
<1>5. /\ DOMAIN mem' = Words /\ mem'[reg["sp"] + 8 * (k - 1)] = reg[GprFields[k]]
      /\ \A j \in 1..31 : j # k =>
           mem'[reg["sp"] + 8 * (j - 1)] = mem[reg["sp"] + 8 * (j - 1)]
      /\ \A w \in Words : OutsideFrame(reg["sp"], w) => mem'[w] = mem[w]
  BY <1>3, <1>4, k \in 1..31, FrameWrite, Zenon DEF StoresRegister
<1>6. Shape'
  BY <1>1, <1>3, <1>5 DEF VectorInv, Shape
<1>7. CsrInv'
  BY <1>1, <1>3 DEF VectorInv, CsrInv
<1>8. ContextInv' /\ LiveStackKept'
  BY <1>3, <1>4, <1>5, OutsideStays DEF VectorInv
<1>9. FrameInv'
  BY <1>1, <1>3, <1>4, FrameStays, SMTT(20)
<1>10. RegisterInv'
  <2>1. reg[GprFields[k]] = Mine[GprFields[k]]
    BY <1>2, Zenon DEF VectorInv, RegisterInv
  <2>2. QED
    BY <1>1, <1>3, <1>5, <2>1 DEF VectorInv, RegisterInv
<1>11. QED
  BY <1>3, <1>6, <1>7, <1>8, <1>9, <1>10 DEF VectorInv

\* csrr t0, mscratch
LEMMA FetchSp ==
  ASSUME VectorInv, Instruction, pc = 33,
         reg' = [reg EXCEPT !["t0"] = csr["mscratch"]], UNCHANGED <<csr, mem>>
  PROVE  VectorInv'
<1>1. /\ pc' = 34 /\ UNCHANGED <<current, owned>> /\ Mine' = Mine /\ StackInv'
      /\ DOMAIN reg = GPR
  BY InstructionFrame
<1>2. csr["mscratch"] = Mine.sp
  BY DEF VectorInv, RegisterInv
<1>3. DOMAIN reg' = GPR /\ reg'["t0"] = Mine.sp /\ reg'["sp"] = reg["sp"]
  BY <1>1, <1>2, GprIs
<1>4. Shape'
  BY <1>1, <1>3 DEF VectorInv, Shape
<1>5. CsrInv' /\ ContextInv' /\ LiveStackKept'
  BY <1>1 DEF VectorInv, CsrInv, ContextInv, LiveStackKept
<1>6. FrameInv'
  BY <1>1, <1>3 DEF VectorInv, FrameInv, FrameSafe
<1>7. RegisterInv'
  BY <1>1, <1>3 DEF VectorInv, RegisterInv
<1>8. QED
  BY <1>1, <1>4, <1>5, <1>6, <1>7 DEF VectorInv

\* sd t0, 240(sp): the last field of the frame is the sp of the task.
LEMMA StoreSp ==
  ASSUME VectorInv, Instruction, pc = 34, UNCHANGED <<reg, csr>>,
         mem' = [mem EXCEPT ![reg["sp"] + 240] = reg["t0"]]
  PROVE  VectorInv'
<1>1. /\ pc' = 35 /\ UNCHANGED <<current, owned>> /\ Mine' = Mine /\ StackInv'
      /\ DOMAIN mem = Words /\ StackInv
  BY InstructionFrame
<1>2. FrameSafe(reg["sp"])
  BY DEF VectorInv, FrameInv
<1>3. /\ DOMAIN mem' = Words /\ mem'[reg["sp"] + 240] = reg["t0"]
      /\ \A j \in 1..30 : mem'[reg["sp"] + 8 * (j - 1)] = mem[reg["sp"] + 8 * (j - 1)]
      /\ \A w \in Words : OutsideFrame(reg["sp"], w) => mem'[w] = mem[w]
  <2>1. reg["sp"] \in Int /\ \A j \in 1..31 : reg["sp"] + 8 * (j - 1) \in Words
    BY <1>2, 1 \in 1..31, FrameWord, Zenon
  <2>2. reg["sp"] + 240 = reg["sp"] + 8 * (31 - 1) /\ 31 \in 1..31
    BY <2>1
  <2>3. reg["sp"] + 240 \in Words
    BY <2>1, <2>2, Zenon
  <2>4. DOMAIN mem' = Words /\ mem'[reg["sp"] + 240] = reg["t0"]
    BY <1>1, <2>3
  <2>5. ASSUME NEW j \in 1..30
        PROVE  mem'[reg["sp"] + 8 * (j - 1)] = mem[reg["sp"] + 8 * (j - 1)]
    <3>1. reg["sp"] + 8 * (j - 1) # reg["sp"] + 240
      BY <2>1
    <3>2. QED
      BY <1>1, <2>1, <3>1
  <2>6. ASSUME NEW w \in Words, OutsideFrame(reg["sp"], w) PROVE mem'[w] = mem[w]
    <3>1. w # reg["sp"] + 240
      BY <2>2, <2>6, Zenon DEF OutsideFrame
    <3>2. QED
      BY <1>1, <3>1
  <2>7. QED
    BY <2>4, <2>5, <2>6
<1>4. Shape'
  BY <1>1, <1>3 DEF VectorInv, Shape
<1>5. CsrInv'
  BY <1>1 DEF VectorInv, CsrInv
<1>6. ContextInv' /\ LiveStackKept'
  BY <1>1, <1>2, <1>3, OutsideStays DEF VectorInv
<1>7. FrameInv'
  BY <1>1, <1>2, FrameStays, SMTT(20)
<1>8. RegisterInv'
  BY <1>1, <1>3 DEF VectorInv, RegisterInv
<1>9. QED
  BY <1>1, <1>4, <1>5, <1>6, <1>7, <1>8 DEF VectorInv

\* mv a0, sp
LEMMA PassFrame ==
  ASSUME VectorInv, Instruction, pc = 35,
         reg' = [reg EXCEPT !["a0"] = reg["sp"] + 0], UNCHANGED <<csr, mem>>
  PROVE  VectorInv'
<1>1. /\ pc' = 36 /\ UNCHANGED <<current, owned>> /\ Mine' = Mine /\ StackInv'
      /\ DOMAIN reg = GPR
  BY InstructionFrame
<1>2. reg["sp"] \in Int
  BY DEF VectorInv, FrameInv, FrameSafe
<1>3. DOMAIN reg' = GPR /\ reg'["a0"] = reg["sp"] /\ reg'["sp"] = reg["sp"]
  BY <1>1, <1>2, GprIs
<1>4. Shape'
  BY <1>1, <1>3 DEF VectorInv, Shape
<1>5. CsrInv' /\ ContextInv' /\ LiveStackKept'
  BY <1>1 DEF VectorInv, CsrInv, ContextInv, LiveStackKept
<1>6. FrameInv'
  BY <1>1, <1>3 DEF VectorInv, FrameInv, FrameSafe
<1>7. RegisterInv'
  BY <1>1, <1>3 DEF VectorInv, RegisterInv
<1>8. QED
  BY <1>1, <1>4, <1>5, <1>6, <1>7 DEF VectorInv

\* The loads of the 30 registers other than sp.
LEMMA RestoreRegister ==
  ASSUME VectorInv, Instruction, NEW k \in 1..30, LoadsRegister(k)
  PROVE  VectorInv'
<1>1. pc = 36 + k /\ UNCHANGED <<csr, mem>>
  BY DEF LoadsRegister
<1>2. pc \in 37..67 /\ pc \in 35..67 /\ pc \in 3..67 /\ k < pc - 2
  BY <1>1
<1>3. /\ pc' = pc + 1 /\ UNCHANGED <<current, owned>> /\ Mine' = Mine /\ StackInv'
      /\ DOMAIN reg = GPR
  BY InstructionFrame, Zenon
<1>4. /\ DOMAIN reg' = GPR /\ reg'[GprFields[k]] = mem[reg["sp"] + 8 * (k - 1)]
      /\ \A j \in 1..31 : j # k => reg'[GprFields[j]] = reg[GprFields[j]]
  BY <1>3, k \in 1..31, RegWrite, Zenon DEF LoadsRegister
<1>5. reg'["sp"] = reg["sp"]
  BY <1>4, GprAt, 31 \in 1..31
<1>6. Shape'
  BY <1>1, <1>3, <1>4 DEF VectorInv, Shape
<1>7. CsrInv' /\ ContextInv' /\ LiveStackKept'
  BY <1>1, <1>3 DEF VectorInv, CsrInv, ContextInv, LiveStackKept
<1>8. FrameInv'
  <2>1. FrameSafe(reg["sp"]) /\ pc' \in 3..67
    BY <1>1, <1>2, <1>3 DEF VectorInv, FrameInv
  <2>2. QED
    BY <1>3, <1>5, <2>1, FrameStays
<1>9. RegisterInv'
  <2>1. /\ \A j \in 1..30 : j < pc - 36 => reg[GprFields[j]] = Mine[GprFields[j]]
        /\ \A j \in 1..30 : j < pc - 2 => mem[reg["sp"] + 8 * (j - 1)] = Mine[GprFields[j]]
        /\ mem[reg["sp"] + 240] = Mine.sp
    BY <1>2, Zenon DEF VectorInv, RegisterInv
  <2>2. \A j \in 1..30 : mem[reg["sp"] + 8 * (j - 1)] = Mine[GprFields[j]]
    BY <1>1, <2>1
  <2>3. \A j \in 1..30 : j < pc' - 36 => reg'[GprFields[j]] = Mine[GprFields[j]]
    BY <1>1, <1>3, <1>4, <2>1, <2>2
  <2>4. /\ \A j \in 1..30 : mem'[reg'["sp"] + 8 * (j - 1)] = Mine'[GprFields[j]]
        /\ \A j \in 1..30 : j < pc' - 36 => reg'[GprFields[j]] = Mine'[GprFields[j]]
        /\ mem'[reg'["sp"] + 240] = Mine'.sp
    BY <1>1, <1>3, <1>5, <2>1, <2>2, <2>3, ZenonT(40)
  <2>5. pc' \notin {0, 1, 2, 68} /\ pc' \notin 2..33 /\ pc' \notin 3..33
        /\ pc' # 34 /\ pc' # 36
    BY <1>1, <1>3
  <2>6. QED
    BY <2>4, <2>5, Zenon DEF RegisterInv
<1>10. QED
  BY <1>3, <1>6, <1>7, <1>8, <1>9 DEF VectorInv

\* ld sp, 240(sp)
LEMMA RestoreSp ==
  ASSUME VectorInv, Instruction, pc = 67,
         reg' = [reg EXCEPT !["sp"] = mem[reg["sp"] + 240]], UNCHANGED <<csr, mem>>
  PROVE  VectorInv'
<1>1. /\ pc' = 68 /\ UNCHANGED <<current, owned>> /\ Mine' = Mine /\ StackInv'
      /\ DOMAIN reg = GPR
  BY InstructionFrame
<1>2. mem[reg["sp"] + 240] = Mine.sp
  BY DEF VectorInv, RegisterInv
<1>3. /\ DOMAIN reg' = GPR /\ reg'["sp"] = Mine.sp
      /\ \A j \in 1..30 : reg'[GprFields[j]] = reg[GprFields[j]]
  BY <1>1, <1>2, SpWrite, Zenon
<1>4. Shape'
  BY <1>1, <1>3 DEF VectorInv, Shape
<1>5. CsrInv' /\ ContextInv' /\ LiveStackKept'
  BY <1>1 DEF VectorInv, CsrInv, ContextInv, LiveStackKept
<1>6. FrameInv'
  BY <1>1, SMTT(20) DEF FrameInv
<1>7. RegisterInv'
  <2>1. \A j \in 1..30 : reg[GprFields[j]] = Mine[GprFields[j]]
    BY DEF VectorInv, RegisterInv
  <2>2. \A j \in 1..31 : j = 31 \/ j \in 1..30
    OBVIOUS
  <2>3. \A j \in 1..31 : reg'[GprFields[j]] = Mine[GprFields[j]]
    BY <1>3, <2>1, <2>2, GprAt
  <2>4. QED
    BY <1>1, <2>3 DEF RegisterInv
<1>8. QED
  BY <1>1, <1>4, <1>5, <1>6, <1>7 DEF VectorInv

\* Every instruction keeps the invariant.
LEMMA InstructionKeeps ==
  ASSUME VectorInv, Instruction PROVE VectorInv'
<1>1. pc \in 0..68
  BY InstructionFrame
<1>2. QED
  BY <1>1, InstructionCases, SaveSp, MoveSp, SaveRegister, FetchSp, StoreSp, PassFrame,
     RestoreRegister, RestoreSp

\* call and mret occur once each.
LEMMA JumpAt ==
  ASSUME pc \in 0..68, pc # 0, trap_vector[pc][1] \in {"call", "mret"}
  PROVE  IF trap_vector[pc][1] = "call" THEN pc = 36 ELSE pc = 68
<1>1. \A k \in 1..30 : trap_vector[2 + k][1] = "sd" /\ trap_vector[36 + k][1] = "ld"
  BY VectorAt
<1>2. "sd" \notin {"call", "mret"} /\ "ld" \notin {"call", "mret"}
  OBVIOUS
<1>3. ASSUME pc \in 3..32 PROVE FALSE
  <2>1. PICK k \in 1..30 : pc = 2 + k
    BY <1>3
  <2>2. QED
    BY <1>1, <1>2, <2>1, Zenon
<1>4. ASSUME pc \in 37..66 PROVE FALSE
  <2>1. PICK k \in 1..30 : pc = 36 + k
    BY <1>4
  <2>2. QED
    BY <1>1, <1>2, <2>1, Zenon
<1>5. pc \in {1, 2, 33, 34, 35, 36, 67, 68}
  BY <1>3, <1>4
<1>6. QED
  BY <1>5, VectorAt

\* mret gives the task back its own registers.
LEMMA MretKeeps ==
  ASSUME VectorInv, Mret PROVE VectorInv'
<1>1. pc = 68
  BY JumpAt DEF VectorInv, Shape, Mret
<1>2. pc' = 0 /\ UNCHANGED <<reg, csr, mem, current, owned>>
  BY DEF Mret
<1>3. Shape' /\ StackInv' /\ CsrInv' /\ ContextInv' /\ LiveStackKept'
  BY <1>2 DEF VectorInv, Shape, StackInv, CsrInv, ContextInv, LiveStackKept, Mine
<1>4. FrameInv'
  BY <1>2 DEF FrameInv
<1>5. RegisterInv'
  <2>1. \A k \in 1..31 : reg[GprFields[k]] = Mine[GprFields[k]]
    BY <1>1 DEF VectorInv, RegisterInv
  <2>2. \A k \in 1..31 : reg'[GprFields[k]] = Mine'[GprFields[k]]
    BY <1>2, <2>1 DEF Mine
  <2>3. QED
    BY <1>2, <2>2 DEF RegisterInv
<1>6. QED
  BY <1>3, <1>4, <1>5 DEF VectorInv
-----------------------------------------------------------------------------
\* The frame at a holds what the current task owns.
FrameHolds(a) == \A k \in 1..31 : mem[a + 8 * (k - 1)] = Mine[Fld(k)]

\* The state in which trap_handler is called and returns.
LEMMA ReturnIs ==
  ASSUME VectorInv, Calling, Return
  PROVE  /\ pc' = 37 /\ DOMAIN reg' = GPR /\ reg'["sp"] = reg["sp"]
         /\ Frame = reg["sp"] /\ FrameSafe(reg["sp"]) /\ FrameHolds(reg["sp"])
<1>1. pc = 36
  BY JumpAt DEF VectorInv, Shape, Calling
<1>2. pc' = 37 /\ Frame = reg["sp"] /\ FrameSafe(reg["sp"])
  BY <1>1 DEF Return, Frame, VectorInv, RegisterInv, FrameInv
<1>3. DOMAIN reg' = GPR /\ reg'["sp"] = reg["sp"]
  BY GprIs DEF Return, CallerSaved
<1>4. FrameHolds(reg["sp"])
  <2>1. \A k \in 1..30 : mem[reg["sp"] + 8 * (k - 1)] = Mine[GprFields[k]]
    BY <1>1 DEF VectorInv, RegisterInv
  <2>2. mem[reg["sp"] + 240] = Mine["sp"]
    BY <1>1 DEF VectorInv, RegisterInv
  <2>3. reg["sp"] + 240 = reg["sp"] + 8 * (31 - 1)
    BY <1>2 DEF FrameSafe
  <2>4. ASSUME NEW k \in 1..31 PROVE mem[reg["sp"] + 8 * (k - 1)] = Mine[Fld(k)]
    <3>1. CASE k \in 1..30
      BY <2>1, <3>1, FieldAt
    <3>2. CASE k = 31
      BY <2>2, <2>3, <3>2, FieldAt, GprAt, Zenon
    <3>3. QED
      BY <3>1, <3>2
  <2>5. QED
    BY <2>4 DEF FrameHolds
<1>5. QED
  BY <1>2, <1>3, <1>4

\* When trap_handler returns with a frame that holds what the task that is
\* to be resumed owns, trap_vector can restore it.
LEMMA FrameFilled ==
  ASSUME pc' = 37, reg'["sp"] = reg["sp"], FrameSafe(reg["sp"]),
         \A k \in 1..31 : mem'[reg["sp"] + 8 * (k - 1)] = Mine'[Fld(k)]
  PROVE  RegisterInv'
<1>1. \A k \in 1..30 : mem'[reg'["sp"] + 8 * (k - 1)] = Mine'[GprFields[k]]
  BY FieldAt
<1>2. reg["sp"] + 240 = reg["sp"] + 8 * (31 - 1) /\ 31 \in 1..31
  BY DEF FrameSafe
<1>3. mem'[reg'["sp"] + 240] = Mine'.sp
  <2>1. mem'[reg["sp"] + 8 * (31 - 1)] = Mine'[Fld(31)]
    BY <1>2, Zenon
  <2>2. Fld(31) = "sp"
    BY <1>2, FieldAt, GprAt
  <2>3. mem'[reg["sp"] + 8 * (31 - 1)] = Mine'["sp"]
    BY <2>1, <2>2, Zenon
  <2>4. QED
    BY <1>2, <2>3, Zenon
<1>4. QED
  BY <1>1, <1>3 DEF RegisterInv

\* A trap that is only logged leaves the frame alone.
LEMMA LogsKeeps ==
  ASSUME VectorInv, HandlerLogs PROVE VectorInv'
<1>1. Calling /\ Return /\ UNCHANGED <<csr, mem, current, owned>> /\ Mine' = Mine
  BY DEF HandlerLogs, Mine
<1>2. /\ pc' = 37 /\ DOMAIN reg' = GPR /\ reg'["sp"] = reg["sp"]
      /\ FrameSafe(reg["sp"]) /\ FrameHolds(reg["sp"])
  BY <1>1, ReturnIs
<1>3. Shape'
  BY <1>1, <1>2 DEF VectorInv, Shape
<1>4. StackInv' /\ CsrInv' /\ ContextInv' /\ LiveStackKept'
  BY <1>1 DEF VectorInv, StackInv, CsrInv, ContextInv, LiveStackKept
<1>5. FrameInv'
  BY <1>1, <1>2 DEF FrameInv, FrameSafe
<1>6. RegisterInv'
  BY <1>1, <1>2, FrameFilled DEF FrameHolds
<1>7. QED
  BY <1>3, <1>4, <1>5, <1>6 DEF VectorInv

\* A system call is answered in the frame; the task owns the answer.
LEMMA AnswersKeeps ==
  ASSUME VectorInv, HandlerAnswers PROVE VectorInv'
<1>1. PICK byte \in Results :
        /\ mem' = Put([a0 |-> byte], mem, Frame)
        /\ owned' = [owned EXCEPT ![current].a0 = byte, ![current].mepc = @ + 4]
  BY Zenon DEF HandlerAnswers
<1>2. /\ Calling /\ Return /\ csr' = [csr EXCEPT !.mepc = @ + 4] /\ UNCHANGED current
  BY DEF HandlerAnswers
<1>3. /\ pc' = 37 /\ DOMAIN reg' = GPR /\ reg'["sp"] = reg["sp"] /\ Frame = reg["sp"]
      /\ FrameSafe(reg["sp"]) /\ FrameHolds(reg["sp"])
  BY <1>2, ReturnIs
<1>4. /\ current \in Task /\ DOMAIN owned = Task /\ DOMAIN mem = Words
      /\ DOMAIN csr = {"mepc", "mstatus", "mscratch"}
      /\ \A t \in Task : DOMAIN owned[t] = GPR \cup {"mepc", "mstatus"}
  BY DEF VectorInv, Shape
<1>5. /\ DOMAIN owned' = Task /\ \A t \in Task \ {current} : owned'[t] = owned[t]
      /\ owned'[current] = [owned[current] EXCEPT !.a0 = byte, !.mepc = @ + 4]
  BY <1>1, <1>4
<1>6. /\ DOMAIN owned'[current] = GPR \cup {"mepc", "mstatus"}
      /\ owned'[current].a0 = byte /\ owned'[current].mepc = Mine.mepc + 4
      /\ \A f \in GPR \cup {"mepc", "mstatus"} :
           f \notin {"a0", "mepc"} => owned'[current][f] = Mine[f]
  BY <1>4, <1>5, GprIs, Zenon DEF Mine
<1>7. /\ DOMAIN csr' = {"mepc", "mstatus", "mscratch"}
      /\ csr'.mepc = csr.mepc + 4 /\ csr'.mstatus = csr.mstatus
  BY <1>2, <1>4
<1>8. \A t \in Task : owned'[t].sp = owned[t].sp
  BY <1>5, <1>6, GprIs, Zenon DEF Mine
<1>9. Mine' = owned'[current]
  BY <1>2 DEF Mine
<1>10. Shape'
  <2>1. DOMAIN mem' = Words
    BY <1>1, <1>4, PutDomain
  <2>2. \A t \in Task : DOMAIN owned'[t] = GPR \cup {"mepc", "mstatus"}
    <3> TAKE t \in Task
    <3>1. CASE t = current
      BY <1>6, <3>1, Zenon
    <3>2. CASE t # current
      BY <1>4, <1>5, <3>2, Zenon
    <3>3. QED
      BY <3>1, <3>2
  <2>3. QED
    BY <1>2, <1>3, <1>4, <1>5, <1>7, <2>1, <2>2 DEF Shape
<1>11. StackInv'
  BY <1>8 DEF VectorInv, StackInv, Task, StackTop
<1>12. CsrInv'
  BY <1>6, <1>7, <1>9, GprIs DEF VectorInv, CsrInv
<1>13. PICK a : a = reg["sp"]
  OBVIOUS
<1>14. a \in Int /\ FrameSafe(a) /\ \A k \in 1..31 : a + 8 * (k - 1) \in Words
  BY <1>3, <1>13, 1 \in 1..31, FrameWord, Zenon
<1> DEFINE K == {9}
           v == [a0 |-> byte]
<1>15. 9 \in K /\ \A k \in K : k = 9
  OBVIOUS
<1>16. v[Fld(9)] = byte /\ HasFields(v, K)
  BY FieldAt, GprAt DEF HasFields
<1>17. mem' = Put(v, mem, a)
  BY <1>1, <1>3, <1>13, Zenon
<1> HIDE DEF K, v
<1>18. mem'[a + 8 * (9 - 1)] = byte
  <2>1. PICK k \in K : k = 9 /\ k \in 1..31
    BY <1>15
  <2>2. Put(v, mem, a)[a + 8 * (k - 1)] = v[Fld(k)]
    <3>1. a + 8 * (k - 1) \in DOMAIN mem
      BY <1>4, <1>14, <2>1
    <3>2. QED
      BY <1>14, <1>16, <3>1, PutAt
  <2>3. QED
    BY <1>16, <1>17, <2>1, <2>2, Zenon
<1>19. \A w \in Words : w # a + 8 * (9 - 1) => mem'[w] = mem[w]
  <2> TAKE w \in Words
  <2> HAVE w # a + 8 * (9 - 1)
  <2>1. \A k \in K : w # a + 8 * (k - 1)
    BY <1>15
  <2>2. Put(v, mem, a)[w] = mem[w]
    BY <1>4, <1>14, <1>15, <1>16, <2>1, PutElsewhere
  <2>3. QED
    BY <1>17, <2>2, Zenon
<1>20. ContextInv' /\ LiveStackKept'
  <2>1. \A w \in Words : OutsideFrame(a, w) => mem'[w] = mem[w]
    BY <1>19, 9 \in 1..31, Zenon DEF OutsideFrame
  <2>2. QED
    BY <1>2, <1>5, <1>8, <1>14, <2>1, OutsideStays DEF VectorInv
<1>21. FrameInv'
  BY <1>3, <1>8 DEF FrameInv, FrameSafe, Task, StackTop, Context
<1>22. RegisterInv'
  <2>1. ASSUME NEW k \in 1..31 PROVE mem'[a + 8 * (k - 1)] = Mine'[Fld(k)]
    <3>1. CASE k = 9
      BY <1>6, <1>9, <1>18, <3>1, FieldAt, GprAt
    <3>2. CASE k # 9
      <4>1. a + 8 * (k - 1) # a + 8 * (9 - 1)
        BY <1>14, <3>2
      <4>2. mem'[a + 8 * (k - 1)] = mem[a + 8 * (k - 1)]
        BY <1>14, <1>19, <4>1
      <4>3. mem[a + 8 * (k - 1)] = Mine[Fld(k)]
        BY <1>3, <1>13 DEF FrameHolds
      <4>4. Fld(k) \in GPR /\ Fld(k) \notin {"a0", "mepc"}
        BY <3>2, FieldAt, GprAt, GprIs, GprDistinct, GprNoCsr, 9 \in 1..31
      <4>5. QED
        BY <1>6, <1>9, <4>2, <4>3, <4>4
    <3>3. QED
      BY <3>1, <3>2
  <2>2. QED
    BY <1>3, <1>13, <2>1, FrameFilled, Zenon
<1>23. QED
  BY <1>10, <1>11, <1>12, <1>20, <1>21, <1>22 DEF VectorInv
-----------------------------------------------------------------------------
\* copy_gpr_fields!
LEMMA CopyIs ==
  ASSUME NEW m, DOMAIN m = Words, NEW from \in Int, NEW to \in Int,
         \A k \in 1..31 : to + 8 * (k - 1) \in Words
  PROVE  /\ DOMAIN CopyGprFields(from, to, m) = Words
         /\ \A k \in 1..31 : CopyGprFields(from, to, m)[to + 8 * (k - 1)] = m[from + 8 * (k - 1)]
         /\ \A w \in Words : OutsideFrame(to, w) => CopyGprFields(from, to, m)[w] = m[w]
<1>1. PICK v : v = Struct(GprFields, m, from)
  OBVIOUS
<1>2. CopyGprFields(from, to, m) = Put(v, m, to)
  BY <1>1, Zenon DEF CopyGprFields
<1>3. DOMAIN v = {Fld(k) : k \in 1..31} /\ \A k \in 1..31 : v[Fld(k)] = m[from + 8 * (k - 1)]
  BY <1>1, StructGpr, Zenon
<1> DEFINE K == 1..31
<1>4. HasFields(v, K) /\ \A k \in K : k \in Int /\ to + 8 * (k - 1) \in DOMAIN m
  BY <1>3 DEF HasFields
<1>5. DOMAIN Put(v, m, to) = Words
  BY PutDomain
<1>6. ASSUME NEW k \in K PROVE Put(v, m, to)[to + 8 * (k - 1)] = m[from + 8 * (k - 1)]
  <2>1. v[Fld(k)] = m[from + 8 * (k - 1)]
    BY <1>3
  <2> HIDE DEF K
  <2>2. Put(v, m, to)[to + 8 * (k - 1)] = v[Fld(k)]
    BY <1>4, PutAt
  <2>3. QED
    BY <2>1, <2>2, Zenon
<1>7. ASSUME NEW w \in Words, OutsideFrame(to, w) PROVE Put(v, m, to)[w] = m[w]
  BY <1>4, <1>7, PutElsewhere DEF OutsideFrame
<1>8. QED
  BY <1>2, <1>5, <1>6, <1>7, Zenon

\* A TaskContext can be at a; v is what is saved of the CSRs.
ContextAddress(a) == a \in Int /\ \A k \in 1..33 : a + 8 * (k - 1) \in Words
CsrFields(v) == DOMAIN v = {"mepc", "mstatus"}

\* Memory n is m but for the CSRs of v saved at a.
CsrsPut(v, m, n, a) ==
  /\ DOMAIN n = Words /\ n[a + 248] = v.mepc /\ n[a + 256] = v.mstatus
  /\ \A w \in Words : w # a + 248 /\ w # a + 256 => n[w] = m[w]

\* Saving mepc and mstatus.
LEMMA PutCsrs ==
  ASSUME NEW m, DOMAIN m = Words, NEW a, ContextAddress(a), NEW v, CsrFields(v),
         NEW n, n = Put(v, m, a)
  PROVE  CsrsPut(v, m, n, a)
<1> DEFINE K == {32, 33}
<1>1. v[Fld(32)] = v.mepc /\ v[Fld(33)] = v.mstatus
  BY FieldAt
<1>2. HasFields(v, K)
  BY FieldAt DEF HasFields, CsrFields
<1>3. 32 \in K /\ 33 \in K /\ \A k \in K : k \in 32..33
  OBVIOUS
<1> HIDE DEF K
<1>4. DOMAIN n = Words
  BY PutDomain
<1>5. ASSUME NEW k \in K PROVE n[a + 8 * (k - 1)] = v[Fld(k)]
  <2>1. a + 8 * (k - 1) \in DOMAIN m /\ a \in Int
    BY <1>3 DEF ContextAddress
  <2>2. QED
    BY <1>2, <2>1, PutAt
<1>6. a \in Int /\ a + 8 * (32 - 1) = a + 248 /\ a + 8 * (33 - 1) = a + 256
  BY DEF ContextAddress
<1>7. n[a + 248] = v.mepc /\ n[a + 256] = v.mstatus
  <2>1. n[a + 8 * (32 - 1)] = v[Fld(32)] /\ n[a + 8 * (33 - 1)] = v[Fld(33)]
    BY <1>3, <1>5, Zenon
  <2>2. QED
    BY <1>1, <1>6, <2>1, ZenonT(40)
<1>8. ASSUME NEW w \in Words, w # a + 248, w # a + 256 PROVE n[w] = m[w]
  <2>1. \A k \in K : w # a + 8 * (k - 1)
    BY <1>3, <1>6, <1>8
  <2>2. QED
    BY <1>2, <1>6, <2>1, PutElsewhere
<1>9. QED
  BY <1>4, <1>7, <1>8 DEF CsrsPut

\* A TaskContext at c is outside a safe frame, and outside another TaskContext.
LEMMA ContextOutside ==
  ASSUME NEW a, FrameSafe(a), NEW t \in Task, NEW k \in 1..33
  PROVE  /\ Context(t) + 8 * (k - 1) \in Words /\ OutsideFrame(a, Context(t) + 8 * (k - 1))
         /\ \A u \in Task \ {t} : \A j \in 1..33 :
              Context(t) + 8 * (k - 1) # Context(u) + 8 * (j - 1)
<1>1. 0 \in Task
  BY TrapVectorAssumption DEF Task
<1>2. Context(0) \in Int
  BY <1>1, StackIs
<1>3. \A j \in 1..31 : a \in Int /\ a + 8 * (j - 1) < Context(0)
  BY FrameWord, Zenon
<1>4. /\ Context(t) \in Int /\ Context(t) + 8 * (k - 1) \in Words
      /\ Context(0) <= Context(t) + 8 * (k - 1)
  BY ContextIs
<1>5. OutsideFrame(a, Context(t) + 8 * (k - 1))
  BY <1>2, <1>3, <1>4 DEF OutsideFrame
<1>6. QED
  BY <1>4, <1>5, ContextsApart

\* What schedule leaves in the TaskContext of the task it interrupts.
LEMMA ScheduleSaves ==
  ASSUME VectorInv, NEW a, FrameSafe(a), FrameHolds(a), NEW s,
         s = Put([mepc |-> csr.mepc, mstatus |-> csr.mstatus],
                 CopyGprFields(a, Context(current), mem), Context(current))
  PROVE  /\ DOMAIN s = Words
         /\ \A t \in Task : \A k \in 1..33 :
              s[Context(t) + 8 * (k - 1)] = owned[t][Fld(k)]
         /\ \A w \in Words : w < Context(0) => s[w] = mem[w]
<1>1. current \in Task /\ DOMAIN mem = Words /\ a \in Int
  BY DEF VectorInv, Shape, FrameSafe
<1>2. PICK c \in Int : c = Context(current) /\ \A k \in 1..33 :
        c + 8 * (k - 1) \in Words /\ Context(0) <= c + 8 * (k - 1)
  BY <1>1, ContextIs, 1 \in 1..33
<1>3. PICK m : m = CopyGprFields(a, c, mem)
  OBVIOUS
<1>4. /\ DOMAIN m = Words
      /\ \A k \in 1..31 : m[c + 8 * (k - 1)] = mem[a + 8 * (k - 1)]
      /\ \A w \in Words : OutsideFrame(c, w) => m[w] = mem[w]
  <2>1. \A k \in 1..31 : c + 8 * (k - 1) \in Words
    BY <1>2
  <2>2. QED
    BY <1>1, <1>3, <2>1, CopyIs, ZenonT(40)
<1>5. /\ DOMAIN s = Words /\ s[c + 248] = csr.mepc /\ s[c + 256] = csr.mstatus
      /\ \A w \in Words : w # c + 248 /\ w # c + 256 => s[w] = m[w]
  <2>1. PICK v : v = [mepc |-> csr.mepc, mstatus |-> csr.mstatus] /\ s = Put(v, m, c)
    BY <1>2, <1>3, Zenon
  <2>2. DOMAIN v = {"mepc", "mstatus"} /\ v.mepc = csr.mepc /\ v.mstatus = csr.mstatus
    BY <2>1
  <2>3. \A k \in 1..33 : c + 8 * (k - 1) \in Words
    BY <1>2
  <2>4. s = Put(v, m, c)
    BY <2>1
  <2>5. /\ DOMAIN s = Words /\ s[c + 248] = v.mepc /\ s[c + 256] = v.mstatus
        /\ \A w \in Words : w # c + 248 /\ w # c + 256 => s[w] = m[w]
    <3>1. DOMAIN m = Words /\ CsrFields(v) /\ ContextAddress(c)
      BY <1>4, <2>2, <2>3 DEF CsrFields, ContextAddress
    <3>2. CsrsPut(v, m, s, c)
      BY <2>4, <3>1, PutCsrs, Zenon
    <3>3. QED
      BY <3>2, Zenon DEF CsrsPut
  <2>6. QED
    BY <2>2, <2>5, Zenon
<1>6. ASSUME NEW k \in 1..33 PROVE s[c + 8 * (k - 1)] = Mine[Fld(k)]
  <2>1. CASE k \in 1..31
    <3>1. c + 8 * (k - 1) # c + 248 /\ c + 8 * (k - 1) # c + 256
      BY <2>1
    <3>2. s[c + 8 * (k - 1)] = m[c + 8 * (k - 1)]
      BY <1>2, <1>5, <3>1
    <3>3. QED
      BY <1>4, <2>1, <3>2 DEF FrameHolds
  <2>2. CASE k = 32
    <3>1. c + 8 * (k - 1) = c + 248 /\ Mine[Fld(k)] = csr.mepc
      BY <2>2, FieldAt DEF VectorInv, CsrInv
    <3>2. QED
      BY <1>5, <3>1, Zenon
  <2>3. CASE k = 33
    <3>1. c + 8 * (k - 1) = c + 256 /\ Mine[Fld(k)] = csr.mstatus
      BY <2>3, FieldAt DEF VectorInv, CsrInv
    <3>2. QED
      BY <1>5, <3>1, Zenon
  <2>4. QED
    BY <2>1, <2>2, <2>3
<1>7. ASSUME NEW w \in Words, \A k \in 1..33 : w # c + 8 * (k - 1) PROVE s[w] = mem[w]
  <2>1. w # c + 248 /\ w # c + 256
    <3>1. c + 8 * (32 - 1) = c + 248 /\ c + 8 * (33 - 1) = c + 256
      OBVIOUS
    <3>2. 32 \in 1..33 /\ 33 \in 1..33
      OBVIOUS
    <3>3. w # c + 8 * (32 - 1) /\ w # c + 8 * (33 - 1)
      BY <1>7, <3>2, Zenon
    <3>4. QED
      BY <3>1, <3>3, Zenon
  <2>2. OutsideFrame(c, w)
    BY <1>7 DEF OutsideFrame
  <2>3. QED
    BY <1>4, <1>5, <2>1, <2>2
<1>8. ASSUME NEW t \in Task, NEW k \in 1..33
      PROVE  s[Context(t) + 8 * (k - 1)] = owned[t][Fld(k)]
  <2>1. CASE t = current
    BY <1>2, <1>6, <2>1, Zenon DEF Mine
  <2>2. CASE t # current
    <3>1. PICK w \in Words : w = Context(t) + 8 * (k - 1)
      BY ContextIs, SMTT(20)
    <3>2. \A j \in 1..33 : w # c + 8 * (j - 1)
      BY <1>1, <1>2, <2>2, <3>1, ContextsApart
    <3>3. s[w] = mem[w]
      BY <1>7, <3>2
    <3>4. mem[w] = owned[t][Fld(k)]
      BY <2>2, <3>1, ZenonT(40) DEF VectorInv, ContextInv, Fld
    <3>5. QED
      BY <3>1, <3>3, <3>4, Zenon
  <2>3. QED
    BY <2>1, <2>2
<1>9. ASSUME NEW w \in Words, w < Context(0) PROVE s[w] = mem[w]
  <2>1. Context(0) \in Int /\ w \in Int
    BY <1>1, StackIs, WordIs
  <2>2. \A k \in 1..33 : w # c + 8 * (k - 1)
    BY <1>2, <1>9, <2>1
  <2>3. QED
    BY <1>7, <2>2
<1>10. QED
  BY <1>5, <1>8, <1>9

\* schedule exchanges the frame for the TaskContext of the next task.
LEMMA SchedulesKeeps ==
  ASSUME VectorInv, HandlerSchedules PROVE VectorInv'
<1>1. Calling /\ Return /\ UNCHANGED owned
  BY DEF HandlerSchedules
<1>2. /\ pc' = 37 /\ DOMAIN reg' = GPR /\ reg'["sp"] = reg["sp"] /\ Frame = reg["sp"]
      /\ FrameSafe(reg["sp"]) /\ FrameHolds(reg["sp"])
  BY <1>1, ReturnIs
<1>3. PICK a : a = reg["sp"]
  OBVIOUS
<1>4. a \in Int /\ FrameSafe(a) /\ FrameHolds(a) /\ Frame = a
      /\ \A k \in 1..31 : a + 8 * (k - 1) \in Words /\ a + 8 * (k - 1) < Context(0)
  BY <1>2, <1>3, 1 \in 1..31, FrameWord, Zenon
<1>5. PICK s : s = Put([mepc |-> csr.mepc, mstatus |-> csr.mstatus],
                       CopyGprFields(a, Context(current), mem), Context(current))
  OBVIOUS
<1>6. PICK next \in Task :
        /\ mem' = CopyGprFields(Context(next), a, s)
        /\ csr' = [csr EXCEPT !.mepc = Struct(ContextFields, s, Context(next)).mepc,
                              !.mstatus = Struct(ContextFields, s, Context(next)).mstatus]
        /\ current' = next
  BY <1>4, <1>5, Zenon DEF HandlerSchedules
<1>7. /\ DOMAIN s = Words
      /\ \A t \in Task : \A k \in 1..33 : s[Context(t) + 8 * (k - 1)] = owned[t][Fld(k)]
      /\ \A w \in Words : w < Context(0) => s[w] = mem[w]
  BY <1>4, <1>5, ScheduleSaves, Zenon
<1>8. /\ DOMAIN mem' = Words
      /\ \A k \in 1..31 : mem'[a + 8 * (k - 1)] = s[Context(next) + 8 * (k - 1)]
      /\ \A w \in Words : OutsideFrame(a, w) => mem'[w] = s[w]
  <2>1. Context(next) \in Int
    BY ContextIs, 1 \in 1..33
  <2>2. QED
    BY <1>4, <1>6, <1>7, <2>1, CopyIs, ZenonT(40)
<1>9. Mine' = owned[next]
  BY <1>1, <1>6 DEF Mine
<1>10. Shape' /\ StackInv'
  BY <1>1, <1>2, <1>6, <1>8 DEF VectorInv, Shape, StackInv
<1>11. CsrInv'
  <2>1. PICK c : c = Struct(ContextFields, s, Context(next))
    OBVIOUS
  <2>2. \A k \in 1..33 : c[Fld(k)] = owned[next][Fld(k)]
    BY <1>7, <2>1, StructContext, ZenonT(40)
  <2>3. csr' = [csr EXCEPT !.mepc = owned[next].mepc, !.mstatus = owned[next].mstatus]
    <3>1. c.mepc = owned[next].mepc /\ c.mstatus = owned[next].mstatus
      BY <2>2, FieldAt, 32 \in 1..33, 33 \in 1..33
    <3>2. QED
      BY <1>6, <2>1, <3>1, Zenon
  <2>4. DOMAIN csr = {"mepc", "mstatus", "mscratch"}
    BY DEF VectorInv, Shape
  <2>5. QED
    BY <1>9, <2>3, <2>4 DEF CsrInv
<1>12. ContextInv'
  <2> SUFFICES ASSUME NEW t \in Task, NEW k \in 1..33
               PROVE  mem'[Context(t) + 8 * (k - 1)] = owned[t][Fld(k)]
    BY <1>1, ContextFrom, Zenon DEF Fld
  <2>1. PICK w \in Words : w = Context(t) + 8 * (k - 1) /\ OutsideFrame(a, w)
    BY <1>4, ContextOutside
  <2>2. mem'[w] = s[w]
    BY <1>8, <2>1
  <2>3. QED
    BY <1>7, <2>1, <2>2, Zenon
<1>13. LiveStackKept'
  <2> SUFFICES ASSUME NEW t \in Task, NEW w \in Words, owned[t].sp <= w, w < StackTop(t)
               PROVE  mem'[w] = Live(t)
    BY <1>1 DEF LiveStackKept, Task, Words, StackTop, Live
  <2>1. OutsideFrame(a, w)
    BY <1>4, FrameWord DEF OutsideFrame, VectorInv
  <2>2. w < Context(0)
    BY StackIs, WordIs
  <2>3. mem'[w] = mem[w]
    BY <1>7, <1>8, <2>1, <2>2
  <2>4. QED
    BY <2>3 DEF VectorInv, LiveStackKept
<1>14. FrameInv'
  BY <1>1, <1>2 DEF FrameInv, FrameSafe
<1>15. RegisterInv'
  <2>1. ASSUME NEW k \in 1..31 PROVE mem'[reg["sp"] + 8 * (k - 1)] = Mine'[Fld(k)]
    <3>1. s[Context(next) + 8 * (k - 1)] = owned[next][Fld(k)]
      BY <1>7, k \in 1..33, Zenon
    <3>2. QED
      BY <1>3, <1>8, <1>9, <3>1, Zenon
  <2>2. QED
    BY <1>2, <2>1, FrameFilled, Zenon
<1>16. QED
  BY <1>10, <1>11, <1>12, <1>13, <1>14, <1>15 DEF VectorInv
-----------------------------------------------------------------------------
\* The part of its stack a task uses is in no other stack.
LEMMA TrapFrameSafe ==
  ASSUME StackInv, NEW t \in Task, NEW d \in Depths, NEW u \in Task, u # t
  PROVE  \/ StackTop(u) <= StackTop(t) - d - 256
         \/ StackTop(t) <= owned[u].sp
<1>1. /\ StackTop(t) \in Int /\ StackTop(u) \in Int /\ owned[u].sp \in Int
      /\ StackTop(u) - STACK_SIZE <= owned[u].sp /\ t \in Int /\ u \in Int
  BY StackIs DEF StackInv, Task
<1>2. d \in Nat /\ d + 256 <= STACK_SIZE /\ STACK_SIZE \in Nat
  BY TrapVectorAssumption
<1>3. CASE u < t
  <2>1. StackTop(u) <= StackTop(t) - STACK_SIZE
    BY <1>3, StacksApart
  <2>2. QED
    BY <1>1, <1>2, <2>1
<1>4. CASE t < u
  <2>1. StackTop(t) <= StackTop(u) - STACK_SIZE
    BY <1>4, StacksApart
  <2>2. QED
    BY <1>1, <1>2, <2>1
<1>5. QED
  BY <1>1, <1>3, <1>4

\* A trap finds room for a frame below sp.
LEMMA TrapKeeps ==
  ASSUME VectorInv, Trap PROVE VectorInv'
<1>1. PICK v \in 1..Versions, d \in Depths :
        LET has == [f \in DOMAIN Created(current) |->
                     CASE f = "sp" -> StackTop(current) - d
                       [] f = "mstatus" -> Created(current).mstatus
                       [] OTHER -> 1000 * current + 100 * v + Offset(f)]
        IN  /\ owned' = [owned EXCEPT ![current] = has]
            /\ reg' = [r \in GPR |-> has[r]]
            /\ csr' = [csr EXCEPT !.mepc = has.mepc, !.mstatus = has.mstatus]
            /\ mem' = [w \in Words |->
                 IF has.sp <= w /\ w < StackTop(current) THEN Live(current) ELSE mem[w]]
  BY Zenon DEF Trap
<1> DEFINE has == [f \in DOMAIN Created(current) |->
                     CASE f = "sp" -> StackTop(current) - d
                       [] f = "mstatus" -> Created(current).mstatus
                       [] OTHER -> 1000 * current + 100 * v + Offset(f)]
<1>2. DOMAIN Created(current) = GPR \cup {"mepc", "mstatus"}
  BY DEF Created
<1>3. DOMAIN has = GPR \cup {"mepc", "mstatus"} /\ has["sp"] = StackTop(current) - d
  BY <1>2, GprIs
<1>4. /\ owned' = [owned EXCEPT ![current] = has] /\ reg' = [r \in GPR |-> has[r]]
      /\ csr' = [csr EXCEPT !.mepc = has.mepc, !.mstatus = has.mstatus]
      /\ mem' = [w \in Words |->
           IF has.sp <= w /\ w < StackTop(current) THEN Live(current) ELSE mem[w]]
  BY <1>1, Zenon
<1> HIDE DEF has
<1>5. pc' = 1 /\ current' = current
  BY DEF Trap
<1>6. /\ current \in Task /\ DOMAIN owned = Task
      /\ DOMAIN csr = {"mepc", "mstatus", "mscratch"}
      /\ \A t \in Task : DOMAIN owned[t] = GPR \cup {"mepc", "mstatus"}
  BY DEF VectorInv, Shape
<1>7. /\ DOMAIN owned' = Task /\ owned'[current] = has
      /\ \A t \in Task \ {current} : owned'[t] = owned[t]
  BY <1>4, <1>6
<1>8. /\ d \in Nat /\ d % 8 = 0 /\ d + 256 <= STACK_SIZE /\ STACK_SIZE \in Nat
      /\ StackTop(current) \in Int /\ StackTop(current) % 8 = 0
      /\ 0 <= StackTop(current) - STACK_SIZE /\ StackTop(current) <= Context(0)
      /\ Context(0) \in Int
  BY <1>6, StackIs, TrapVectorAssumption
<1>9. Mine' = has
  BY <1>5, <1>7 DEF Mine
<1>10. Shape'
  <2>1. DOMAIN reg' = GPR /\ DOMAIN mem' = Words /\ DOMAIN csr' = DOMAIN csr
    BY <1>4
  <2>2. \A t \in Task : DOMAIN owned'[t] = GPR \cup {"mepc", "mstatus"}
    BY <1>3, <1>6, <1>7
  <2>3. QED
    BY <1>5, <1>6, <1>7, <2>1, <2>2 DEF Shape
<1>11. StackInv'
  <2>1. ASSUME NEW t \in Task
        PROVE  /\ owned'[t].sp \in Int /\ owned'[t].sp % 8 = 0
               /\ StackTop(t) - STACK_SIZE <= owned'[t].sp /\ owned'[t].sp <= StackTop(t)
    <3>1. CASE t = current
      BY <1>3, <1>7, <1>8, <3>1
    <3>2. CASE t # current
      BY <1>7, <3>2 DEF VectorInv, StackInv
    <3>3. QED
      BY <3>1, <3>2
  <2>2. QED
    BY <2>1 DEF StackInv, Task, StackTop
<1>12. CsrInv'
  BY <1>4, <1>6, <1>9 DEF CsrInv
<1>13. ContextInv'
  <2> SUFFICES ASSUME NEW t \in Task \ {current}, NEW k \in 1..33
               PROVE  mem'[Context(t) + 8 * (k - 1)] = owned'[t][ContextFields[k]]
    BY <1>5, ContextFrom, Zenon
  <2>1. PICK w \in Words : w = Context(t) + 8 * (k - 1) /\ Context(0) <= w /\ w \in Int
    BY ContextIs, WordIs
  <2>2. mem'[w] = mem[w]
    BY <1>4, <1>8, <2>1
  <2>3. mem[w] = owned[t][ContextFields[k]]
    BY <2>1, Zenon DEF VectorInv, ContextInv
  <2>4. QED
    BY <1>7, <2>1, <2>2, <2>3, Zenon
<1>14. LiveStackKept'
  <2> SUFFICES ASSUME NEW t \in Task, NEW w \in Words, owned'[t].sp <= w, w < StackTop(t)
               PROVE  mem'[w] = Live(t)
    BY DEF LiveStackKept, Task, Words, StackTop, Live
  <2>1. CASE t = current
    BY <1>4, <1>7, <2>1
  <2>2. CASE t # current
    <3>1. owned'[t] = owned[t] /\ w \in Int /\ StackTop(t) \in Int /\ owned[t].sp \in Int
      BY <1>7, <2>2, WordIs, StackIs DEF VectorInv, StackInv
    <3>2. StackTop(t) <= StackTop(current) - d - 256 \/ StackTop(current) <= owned[t].sp
      BY <1>6, <2>2, TrapFrameSafe DEF VectorInv
    <3>3. ~(has.sp <= w /\ w < StackTop(current))
      BY <1>3, <1>8, <3>1, <3>2
    <3>4. mem'[w] = mem[w]
      BY <1>4, <3>3
    <3>5. QED
      BY <3>1, <3>4 DEF VectorInv, LiveStackKept
  <2>3. QED
    BY <2>1, <2>2
<1>15. FrameInv'
  <2>1. PICK a \in Int : a = StackTop(current) - d - 256
    BY <1>8
  <2>2. a % 8 = 0 /\ 0 <= a /\ a + 256 <= Context(0) /\ has.sp - 256 = a
    BY <1>3, <1>8, <2>1
  <2>3. ASSUME NEW t \in Task PROVE a + 256 <= owned'[t].sp \/ StackTop(t) <= a
    <3>1. CASE t = current
      BY <1>3, <1>7, <1>8, <2>1, <3>1
    <3>2. CASE t # current
      <4>1. owned'[t] = owned[t] /\ StackTop(t) \in Int /\ owned[t].sp \in Int
        BY <1>7, <3>2, StackIs DEF VectorInv, StackInv
      <4>2. StackTop(t) <= StackTop(current) - d - 256 \/ StackTop(current) <= owned[t].sp
        BY <1>6, <3>2, TrapFrameSafe DEF VectorInv
      <4>3. QED
        BY <1>8, <2>1, <4>1, <4>2
    <3>3. QED
      BY <3>1, <3>2
  <2>4. FrameSafe(Mine.sp - 256)'
    BY <1>9, <2>2, <2>3 DEF FrameSafe, Task, StackTop, Context
  <2>5. QED
    BY <1>5, <2>4 DEF FrameInv
<1>16. RegisterInv'
  <2>1. \A k \in 1..31 : reg'[GprFields[k]] = Mine'[GprFields[k]]
    BY <1>4, <1>9, GprIs
  <2>2. QED
    BY <1>5, <2>1 DEF RegisterInv
<1>17. QED
  BY <1>10, <1>11, <1>12, <1>13, <1>14, <1>15, <1>16 DEF VectorInv

\* The invariant holds at reset.
LEMMA VectorStarts == Init => VectorInv
<1> SUFFICES ASSUME Init PROVE VectorInv
  OBVIOUS
<1>1. 0 \in Task
  BY TrapVectorAssumption DEF Task
<1>2. ASSUME NEW t \in Task
      PROVE  /\ DOMAIN Created(t) = GPR \cup {"mepc", "mstatus"}
             /\ Created(t).sp = StackTop(t)
  BY GprIs DEF Created
<1>3. /\ pc = 0 /\ current = 0 /\ owned = [t \in Task |-> Created(t)]
      /\ reg = [r \in GPR |-> Created(0)[r]]
      /\ csr = [mepc |-> 0, mstatus |-> Created(0).mstatus, mscratch |-> 0]
  BY DEF Init
<1>4. Shape
  <2>1. DOMAIN mem = Words
    BY DEF Init
  <2>2. /\ DOMAIN owned = Task
        /\ \A t \in Task : DOMAIN owned[t] = GPR \cup {"mepc", "mstatus"}
    BY <1>2, <1>3
  <2>3. DOMAIN csr = {"mepc", "mstatus", "mscratch"}
    BY <1>3
  <2>4. QED
    BY <1>1, <1>3, <2>1, <2>2, <2>3 DEF Shape
<1>5. StackInv
  <2>1. ASSUME NEW t \in Task
        PROVE  /\ owned[t].sp = StackTop(t) /\ StackTop(t) \in Int /\ StackTop(t) % 8 = 0
               /\ StackTop(t) - STACK_SIZE <= StackTop(t)
    BY <1>2, <1>3, StackIs, TrapVectorAssumption
  <2>2. QED
    BY <2>1 DEF StackInv
<1>6. CsrInv
  <2>1. Created(0).mepc = 0
    BY GprIs DEF Created
  <2>2. QED
    BY <1>1, <1>3, <2>1 DEF CsrInv, Mine
<1>7. ContextInv
  <2> SUFFICES ASSUME NEW t \in Task, NEW k \in 1..33
               PROVE  mem[Context(t) + 8 * (k - 1)] = owned[t][ContextFields[k]]
    BY DEF ContextInv
  <2>1. PICK w \in Words : w = Context(t) + 8 * (k - 1) /\ Context(0) <= w /\ w \in Int
    BY ContextIs, WordIs
  <2>2. mem[w] = IF w < Context(0) THEN 0
                 ELSE Created((w - Context(0)) \div 264)
                        [ContextFields[(w - Context((w - Context(0)) \div 264)) \div 8 + 1]]
    BY Zenon DEF Init
  <2>3. Context(0) \in Int /\ Context(t) = Context(0) + 264 * t /\ t \in Nat
    BY <1>1, StackIs, ContextIs DEF Task
  <2>4. (w - Context(0)) \div 264 = t
    BY <2>1, <2>3
  <2>5. (w - Context(t)) \div 8 + 1 = k
    BY <2>1, <2>3
  <2>6. ~(w < Context(0))
    BY <2>1, <2>3
  <2>7. mem[w] = Created(t)[ContextFields[k]]
    BY <2>2, <2>4, <2>5, <2>6, Zenon
  <2>8. QED
    BY <1>3, <2>1, <2>7, Zenon
<1>8. LiveStackKept
  <2> SUFFICES ASSUME NEW t \in Task, NEW w \in Words PROVE ~(owned[t].sp <= w /\ w < StackTop(t))
    BY DEF LiveStackKept
  <2>1. owned[t].sp = StackTop(t) /\ StackTop(t) \in Int /\ w \in Int
    BY <1>2, <1>3, StackIs, WordIs
  <2>2. QED
    BY <2>1
<1>9. FrameInv /\ RegisterInv
  BY <1>1, <1>3, GprIs DEF FrameInv, RegisterInv, Mine
<1>10. QED
  BY <1>4, <1>5, <1>6, <1>7, <1>8, <1>9 DEF VectorInv

\* Every step keeps the invariant.
LEMMA VectorStays == VectorInv /\ [Next]_vars => VectorInv'
<1> HAVE VectorInv /\ [Next]_vars
<1>1. CASE UNCHANGED vars
  <2>1. UNCHANGED <<reg, csr, mem, pc, current, owned>> /\ Mine' = Mine
    BY <1>1 DEF vars, Mine
  <2>2. Shape' /\ StackInv' /\ CsrInv'
    BY <2>1 DEF VectorInv, Shape, StackInv, CsrInv
  <2>3. ContextInv' /\ LiveStackKept'
    BY <2>1 DEF VectorInv, ContextInv, LiveStackKept
  <2>4. FrameInv'
    BY <2>1, SMTT(20) DEF VectorInv, FrameInv, FrameSafe
  <2>5. RegisterInv'
    BY <2>1 DEF VectorInv, RegisterInv
  <2>6. QED
    BY <2>2, <2>3, <2>4, <2>5 DEF VectorInv
<1>2. QED
  BY <1>1, TrapKeeps, InstructionKeeps, LogsKeeps, AnswersKeeps, SchedulesKeeps, MretKeeps
     DEF Next

\* The inductive invariant holds in every reachable state.
THEOREM VectorInvariant == Spec => []VectorInv
  BY VectorStarts, VectorStays, PTL DEF Spec

\* When a task executes it has in its registers, mepc and mstatus exactly what
\* it had when it last trapped, the answer of a system call and the 4 added to
\* mepc aside: trap_vector, trap_handler and schedule lose nothing and mix
\* nothing up.
THEOREM RegistersKept == Spec => []TaskKeepsRegisters
<1>1. VectorInv => TaskKeepsRegisters
  BY GprIs DEF VectorInv, RegisterInv, CsrInv, TaskKeepsRegisters, Mine
<1>2. QED
  BY <1>1, VectorInvariant, PTL

\* No frame and no TaskContext is written over the live part of a stack, that
\* of the interrupted task or that of another.
THEOREM StacksKept == Spec => []LiveStackKept
<1>1. VectorInv => LiveStackKept
  BY DEF VectorInv
<1>2. QED
  BY <1>1, VectorInvariant, PTL
=============================================================================
