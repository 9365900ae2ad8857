---------------------------- MODULE EngineProofs ----------------------------
(***************************************************************************)
(* What module Engine computes for a statement that is valid, for every    *)
(* schema: the programs that the compiler writes end, a SELECT answers     *)
(* what it denotes, and the other statements have their effect and no      *)
(* more.                                                                   *)
(***************************************************************************)
EXTENDS Engine, SequenceTheorems, FiniteSetTheorems, WellFoundedInduction, TLAPS

LEMMA LeastExists ==
  ASSUME NEW S \in SUBSET Nat, S # {}
  PROVE  \E m \in S : \A s \in S : m <= s
<1> DEFINE R == OpToRel(<, Nat)
<1>1. PICK m \in S : \A s \in S : ~ (<<s, m>> \in R)
  BY NatLessThanWellFounded, WFMin, Zenon
<1>2. ASSUME NEW s \in S, s < m
      PROVE  FALSE
  <2>1. <<s, m>> \in R
    BY <1>2, Zenon DEF OpToRel
  <2> QED
    BY <1>1, <2>1
<1> QED
  BY <1>2

\* induction up to a number, for a set in the place of a predicate
LEMMA UpTo ==
  ASSUME NEW n \in Nat, NEW S, 0 \in S, \A k \in 1 .. n : k - 1 \in S => k \in S
  PROVE  \A k \in 0 .. n : k \in S
<1> DEFINE F == {k \in 0 .. n : k \notin S}
<1> SUFFICES ASSUME F # {}
             PROVE  FALSE
  OBVIOUS
<1>1. PICK k \in F : \A j \in F : k <= j
  <2>1. F \in SUBSET Nat
    OBVIOUS
  <2> HIDE DEF F
  <2> QED
    BY <2>1, LeastExists
<1>2. k \in 1 .. n /\ k - 1 \in 0 .. n /\ k - 1 \notin F
  BY <1>1
<1> QED
  BY <1>2

-----------------------------------------------------------------------------
(* The programs.  Each has one opcode, then one for each register, then the *)
(* rest.                                                                    *)

LEMMA ThreeParts ==
  ASSUME NEW E, NEW a \in E, NEW B \in Seq(E), NEW D \in Seq(E)
  PROVE  /\ DOMAIN (<<a>> \o B \o D) = 1 .. Len(B) + 1 + Len(D)
         /\ Len(<<a>> \o B \o D) = Len(B) + 1 + Len(D)
         /\ (<<a>> \o B \o D)[1] = a
         /\ \A j \in 1 .. Len(B) : (<<a>> \o B \o D)[j + 1] = B[j]
         /\ \A j \in 1 .. Len(D) : (<<a>> \o B \o D)[Len(B) + 1 + j] = D[j]
<1> DEFINE K == Len(B)
           L == Len(D)
           A == <<a>>
           AB == A \o B
           prog == AB \o D
<1>1. K \in Nat /\ L \in Nat
  BY LenProperties
<1>2. A \in Seq(E) /\ Len(A) = 1 /\ A[1] = a
  OBVIOUS
<1> HIDE DEF A
<1>3. /\ AB \in Seq(E) /\ Len(AB) = Len(A) + K
      /\ \A i \in 1 .. Len(A) + K : AB[i] = IF i <= Len(A) THEN A[i] ELSE B[i - Len(A)]
  BY <1>2, ConcatProperties, Zenon
<1> HIDE DEF AB
<1>4. /\ prog \in Seq(E) /\ Len(prog) = Len(AB) + L
      /\ \A i \in 1 .. Len(AB) + L : prog[i] = IF i <= Len(AB) THEN AB[i] ELSE D[i - Len(AB)]
  <2>1. AB \in Seq(E)
    BY <1>3
  <2> QED
    BY <2>1, ConcatProperties, Zenon
<1> HIDE DEF K, L, prog
<1>5. Len(AB) = K + 1 /\ Len(prog) = K + 1 + L
  BY <1>1, <1>2, <1>3, <1>4
<1>6. DOMAIN prog = 1 .. K + 1 + L
  BY <1>4, <1>5, LenProperties
<1>7. \A i \in 1 .. K + 1 : prog[i] = AB[i]
  BY <1>1, <1>4, <1>5
<1>8. \A j \in 1 .. K : AB[j + 1] = B[j]
  <2> TAKE j \in 1 .. K
  <2>1. j + 1 \in 1 .. 1 + K /\ ~(j + 1 <= 1) /\ (j + 1) - 1 = j
    BY <1>1
  <2> QED
    BY <1>2, <1>3, <2>1
<1>9. prog[1] = a
  <2>1. 1 \in 1 .. K + 1 /\ 1 \in 1 .. 1 + K
    BY <1>1
  <2>2. AB[1] = A[1]
    BY <1>1, <1>2, <1>3, <2>1
  <2> QED
    BY <1>1, <1>2, <1>7, <2>1, <2>2
<1>10. \A j \in 1 .. K : prog[j + 1] = B[j]
  <2> TAKE j \in 1 .. K
  <2>1. j + 1 \in 1 .. K + 1
    BY <1>1
  <2> QED
    BY <1>7, <1>8, <2>1
<1>11. \A j \in 1 .. L : prog[K + 1 + j] = D[j]
  <2> TAKE j \in 1 .. L
  <2>1. /\ K + 1 + j \in 1 .. K + 1 + L /\ ~(K + 1 + j <= K + 1)
        /\ (K + 1 + j) - (K + 1) = j
    BY <1>1
  <2> QED
    BY <1>4, <1>5, <2>1
<1> QED
  BY <1>5, <1>6, <1>9, <1>10, <1>11 DEF K, L, prog, AB, A

\* the loop's body starts at 2; Next leaves it for the Halt, Goto returns to it
IsScan(prog, from, C) ==
  LET K == Len(C) IN
  /\ DOMAIN prog = 1 .. K + 5 /\ Len(prog) = K + 5
  /\ prog[1] = [op |-> "OpenRead", table |-> from]
  /\ \A j \in 1 .. K : prog[j + 1] = [op |-> "Column", column |-> C[j], dest |-> j]
  /\ prog[K + 2] = [op |-> "ResultRow", count |-> K]
  /\ prog[K + 3] = [op |-> "Next", target |-> K + 5]
  /\ prog[K + 4] = [op |-> "Goto", target |-> 2]
  /\ prog[K + 5] = [op |-> "Halt"]

LEMMA ScanShape ==
  ASSUME NEW s, NEW sch, Len(Emitted(s, sch[s.from].columns)) \in Nat
  PROVE  IsScan(compile_select(s, sch), s.from, Emitted(s, sch[s.from].columns))
<1> DEFINE C == Emitted(s, sch[s.from].columns)
           K == Len(C)
           a == [op |-> "OpenRead", table |-> s.from]
           B == [i \in 1 .. K |-> [op |-> "Column", column |-> C[i], dest |-> i]]
           D == <<[op |-> "ResultRow", count |-> K],
                  [op |-> "Next", target |-> K + 5],
                  [op |-> "Goto", target |-> 2],
                  [op |-> "Halt"]>>
           E == {a, D[1], D[2], D[3], D[4]} \cup {B[i] : i \in 1 .. K}
           prog == <<a>> \o B \o D
<1>1. K \in Nat
  OBVIOUS
<1>2. compile_select(s, sch) = prog
  BY DEF compile_select
<1> HIDE DEF K, C
<1>3. a \in E /\ D \in Seq(E) /\ Len(D) = 4
  OBVIOUS
<1>4. B \in Seq(E) /\ Len(B) = K
  <2>1. B \in [1 .. K -> E]
    OBVIOUS
  <2> HIDE DEF B, E
  <2> QED
    BY <1>1, <2>1, SeqDef
<1>5. /\ a = [op |-> "OpenRead", table |-> s.from]
      /\ \A j \in 1 .. K : B[j] = [op |-> "Column", column |-> C[j], dest |-> j]
      /\ D[1] = [op |-> "ResultRow", count |-> K] /\ D[2] = [op |-> "Next", target |-> K + 5]
      /\ D[3] = [op |-> "Goto", target |-> 2] /\ D[4] = [op |-> "Halt"]
  OBVIOUS
<1> HIDE DEF a, B, D, E
<1>6. /\ DOMAIN prog = 1 .. Len(B) + 1 + Len(D) /\ Len(prog) = Len(B) + 1 + Len(D)
      /\ prog[1] = a
      /\ \A j \in 1 .. Len(B) : prog[j + 1] = B[j]
      /\ \A j \in 1 .. Len(D) : prog[Len(B) + 1 + j] = D[j]
  <2>1. a \in E /\ B \in Seq(E) /\ D \in Seq(E)
    BY <1>3, <1>4
  <2> QED
    BY <2>1, ThreeParts, SMTT(30)
<1> HIDE DEF prog
<1>7. K + 1 + 4 = K + 5 /\ K + 1 + 1 = K + 2 /\ K + 1 + 2 = K + 3 /\ K + 1 + 3 = K + 4
  BY <1>1
<1>8. \A j \in 1 .. 4 : prog[K + 1 + j] = D[j]
  BY <1>3, <1>4, <1>6
<1>9. prog[K + 2] = D[1] /\ prog[K + 3] = D[2] /\ prog[K + 4] = D[3] /\ prog[K + 5] = D[4]
  BY <1>7, <1>8
<1>10. /\ DOMAIN prog = 1 .. K + 5 /\ Len(prog) = K + 5 /\ prog[1] = a
       /\ \A j \in 1 .. K : prog[j + 1] = B[j]
  BY <1>3, <1>4, <1>6, <1>7
<1>11. IsScan(prog, s.from, C)
  BY <1>5, <1>9, <1>10 DEF IsScan, K
<1> QED
  BY <1>2, <1>11 DEF C

IsInsert(prog, table, V) ==
  LET K == Len(V) IN
  /\ DOMAIN prog = 1 .. K + 3 /\ Len(prog) = K + 3
  /\ prog[1] = [op |-> "OpenWrite", table |-> table]
  /\ \A j \in 1 .. K : prog[j + 1] = [op |-> "Load", value |-> V[j], dest |-> j]
  /\ prog[K + 2] = [op |-> "Insert", count |-> K]
  /\ prog[K + 3] = [op |-> "Halt"]

LEMMA InsertShape ==
  ASSUME NEW s, Len(s.values) \in Nat
  PROVE  IsInsert(compile_insert(s), s.table, s.values)
<1> DEFINE V == s.values
           K == Len(V)
           a == [op |-> "OpenWrite", table |-> s.table]
           B == [i \in 1 .. K |-> [op |-> "Load", value |-> V[i], dest |-> i]]
           D == <<[op |-> "Insert", count |-> K], [op |-> "Halt"]>>
           E == {a, D[1], D[2]} \cup {B[i] : i \in 1 .. K}
           prog == <<a>> \o B \o D
<1>1. K \in Nat
  OBVIOUS
<1>2. compile_insert(s) = prog
  BY DEF compile_insert
<1> HIDE DEF K, V
<1>3. a \in E /\ D \in Seq(E) /\ Len(D) = 2
  OBVIOUS
<1>4. B \in Seq(E) /\ Len(B) = K
  <2>1. B \in [1 .. K -> E]
    OBVIOUS
  <2> HIDE DEF B, E
  <2> QED
    BY <1>1, <2>1, SeqDef
<1>5. /\ a = [op |-> "OpenWrite", table |-> s.table]
      /\ \A j \in 1 .. K : B[j] = [op |-> "Load", value |-> V[j], dest |-> j]
      /\ D[1] = [op |-> "Insert", count |-> K] /\ D[2] = [op |-> "Halt"]
  OBVIOUS
<1> HIDE DEF a, B, D, E
<1>6. /\ DOMAIN prog = 1 .. Len(B) + 1 + Len(D) /\ Len(prog) = Len(B) + 1 + Len(D)
      /\ prog[1] = a
      /\ \A j \in 1 .. Len(B) : prog[j + 1] = B[j]
      /\ \A j \in 1 .. Len(D) : prog[Len(B) + 1 + j] = D[j]
  <2>1. a \in E /\ B \in Seq(E) /\ D \in Seq(E)
    BY <1>3, <1>4
  <2> QED
    BY <2>1, ThreeParts, SMTT(30)
<1> HIDE DEF prog
<1>7. K + 1 + 2 = K + 3 /\ K + 1 + 1 = K + 2
  BY <1>1
<1>8. \A j \in 1 .. 2 : prog[K + 1 + j] = D[j]
  BY <1>3, <1>4, <1>6
<1>9. prog[K + 2] = D[1] /\ prog[K + 3] = D[2]
  BY <1>7, <1>8
<1>10. /\ DOMAIN prog = 1 .. K + 3 /\ Len(prog) = K + 3 /\ prog[1] = a
       /\ \A j \in 1 .. K : prog[j + 1] = B[j]
  BY <1>3, <1>4, <1>6, <1>7
<1>11. IsInsert(prog, s.table, V)
  BY <1>5, <1>9, <1>10 DEF IsInsert, K
<1> QED
  BY <1>2, <1>11 DEF V

\* the places 2 to K + 1 fill the registers
LEMMA RegistersFilled ==
  ASSUME NEW prog, NEW K \in Nat, NEW L \in Nat, K + 1 <= L, DOMAIN prog = 1 .. L,
         \A i \in 1 .. L : prog[i].op \in {"Column", "Load"} <=> i \in 2 .. K + 1,
         \A j \in 1 .. K : prog[j + 1].dest = j
  PROVE  Registers(prog) = 1 .. K
<1>1. \A i \in 2 .. K + 1 : prog[i].dest = i - 1 /\ i - 1 \in 1 .. K
  <2> TAKE i \in 2 .. K + 1
  <2>1. i - 1 \in 1 .. K /\ prog[(i - 1) + 1] = prog[i]
    OBVIOUS
  <2> QED
    BY <2>1
<1>2. {j \in DOMAIN prog : prog[j].op \in {"Column", "Load"}} = 2 .. K + 1
  OBVIOUS
<1>3. Registers(prog) = {prog[i].dest : i \in 2 .. K + 1}
  BY <1>2 DEF Registers
<1>4. ASSUME NEW r \in Registers(prog)
      PROVE  r \in 1 .. K
  <2>1. PICK i \in 2 .. K + 1 : r = prog[i].dest
    BY <1>3
  <2> QED
    BY <1>1, <2>1
<1>5. ASSUME NEW r \in 1 .. K
      PROVE  r \in Registers(prog)
  <2>1. r + 1 \in 2 .. K + 1
    OBVIOUS
  <2>2. r = prog[r + 1].dest
    OBVIOUS
  <2> QED
    BY <1>3, <2>1, <2>2
<1> QED
  BY <1>4, <1>5

LEMMA ScanRegisters ==
  ASSUME NEW prog, NEW from, NEW C, Len(C) \in Nat, IsScan(prog, from, C)
  PROVE  Registers(prog) = 1 .. Len(C)
<1> DEFINE K == Len(C)
<1>1. K \in Nat
  OBVIOUS
<1>2. ASSUME NEW i \in 1 .. K + 5
      PROVE  prog[i].op \in {"Column", "Load"} <=> i \in 2 .. K + 1
  <2> HIDE DEF K
  <2>1. CASE i \in 2 .. K + 1
    <3>1. i - 1 \in 1 .. K /\ (i - 1) + 1 = i
      BY <1>1, <2>1
    <3>2. prog[i] = [op |-> "Column", column |-> C[i - 1], dest |-> i - 1]
      BY <3>1 DEF IsScan, K
    <3> QED
      BY <2>1, <3>2
  <2>2. CASE i \in {1, K + 2, K + 3, K + 4, K + 5}
    <3>1. prog[i].op \in {"OpenRead", "ResultRow", "Next", "Goto", "Halt"}
      BY <2>2 DEF IsScan, K
    <3>2. i \notin 2 .. K + 1
      BY <1>1, <2>2
    <3> QED
      BY <3>1, <3>2
  <2> QED
    BY <1>1, <2>1, <2>2
<1>3. \A j \in 1 .. K : prog[j + 1].dest = j
  <2> TAKE j \in 1 .. K
  <2>1. prog[j + 1] = [op |-> "Column", column |-> C[j], dest |-> j]
    BY DEF IsScan
  <2> QED
    BY <2>1
<1>4. DOMAIN prog = 1 .. K + 5 /\ K + 5 \in Nat /\ K + 1 <= K + 5
  BY <1>1 DEF IsScan
<1> HIDE DEF K
<1>5. Registers(prog) = 1 .. K
  BY <1>1, <1>2, <1>3, <1>4, RegistersFilled
<1> QED
  BY <1>5 DEF K

LEMMA InsertRegisters ==
  ASSUME NEW prog, NEW table, NEW V, Len(V) \in Nat, IsInsert(prog, table, V)
  PROVE  Registers(prog) = 1 .. Len(V)
<1> DEFINE K == Len(V)
<1>1. K \in Nat
  OBVIOUS
<1>2. ASSUME NEW i \in 1 .. K + 3
      PROVE  prog[i].op \in {"Column", "Load"} <=> i \in 2 .. K + 1
  <2> HIDE DEF K
  <2>1. CASE i \in 2 .. K + 1
    <3>1. i - 1 \in 1 .. K /\ (i - 1) + 1 = i
      BY <1>1, <2>1
    <3>2. prog[i] = [op |-> "Load", value |-> V[i - 1], dest |-> i - 1]
      BY <3>1 DEF IsInsert, K
    <3> QED
      BY <2>1, <3>2
  <2>2. CASE i \in {1, K + 2, K + 3}
    <3>1. prog[i].op \in {"OpenWrite", "Insert", "Halt"}
      BY <2>2 DEF IsInsert, K
    <3>2. i \notin 2 .. K + 1
      BY <1>1, <2>2
    <3> QED
      BY <3>1, <3>2
  <2> QED
    BY <1>1, <2>1, <2>2
<1>3. \A j \in 1 .. K : prog[j + 1].dest = j
  <2> TAKE j \in 1 .. K
  <2>1. prog[j + 1] = [op |-> "Load", value |-> V[j], dest |-> j]
    BY DEF IsInsert
  <2> QED
    BY <2>1
<1>4. DOMAIN prog = 1 .. K + 3 /\ K + 3 \in Nat /\ K + 1 <= K + 3
  BY <1>1 DEF IsInsert
<1> HIDE DEF K
<1>5. Registers(prog) = 1 .. K
  BY <1>1, <1>2, <1>3, <1>4, RegistersFilled
<1> QED
  BY <1>5 DEF K
(* Which arm of the loop a turn takes, by the place in the program.         *)
ScanTurnIs(mn, mm, from, C) ==
  LET K == Len(C) IN
  /\ mm.pc = 1 => mn = DoOpen(mm, [op |-> "OpenRead", table |-> from])
  /\ mm.pc \in 2 .. K + 1 =>
       mn = DoColumn(mm, [op |-> "Column", column |-> C[mm.pc - 1], dest |-> mm.pc - 1])
  /\ mm.pc = K + 2 => mn = DoResultRow(mm, [op |-> "ResultRow", count |-> K])
  /\ mm.pc = K + 3 => mn = DoNext(mm, [op |-> "Next", target |-> K + 5])
  /\ mm.pc = K + 4 => mn = DoGoto(mm, [op |-> "Goto", target |-> 2])
  /\ mm.pc = K + 5 => mn = DoHalt(mm)

LEMMA ScanTurn ==
  ASSUME NEW prog, NEW from, NEW C, Len(C) \in Nat, IsScan(prog, from, C),
         NEW mm, mm.pc \in 1 .. Len(C) + 5
  PROVE  ScanTurnIs(Turn(prog, mm), mm, from, C)
<1> DEFINE K == Len(C)
<1> HIDE DEF K
<1>1. mm.pc \in DOMAIN prog
  BY DEF IsScan
<1>2. CASE mm.pc = 1
  BY <1>1, <1>2 DEF IsScan, Turn, ScanTurnIs, K
<1>3. CASE mm.pc \in 2 .. K + 1
  <2>1. mm.pc - 1 \in 1 .. K /\ (mm.pc - 1) + 1 = mm.pc
    BY <1>3 DEF K
  <2>2. prog[mm.pc] = [op |-> "Column", column |-> C[mm.pc - 1], dest |-> mm.pc - 1]
    BY <2>1 DEF IsScan, K
  <2>3. Turn(prog, mm) = DoColumn(mm, prog[mm.pc])
    BY <1>1, <2>2 DEF Turn
  <2> QED
    BY <1>3, <2>2, <2>3 DEF ScanTurnIs, K
<1>4. CASE mm.pc = K + 2
  <2>1. prog[mm.pc] = [op |-> "ResultRow", count |-> K]
    BY <1>4 DEF IsScan, K
  <2>2. Turn(prog, mm) = DoResultRow(mm, prog[mm.pc])
    BY <1>1, <2>1 DEF Turn
  <2> QED
    BY <1>4, <2>1, <2>2 DEF ScanTurnIs, K
<1>5. CASE mm.pc = K + 3
  <2>1. prog[mm.pc] = [op |-> "Next", target |-> K + 5]
    BY <1>5 DEF IsScan, K
  <2>2. Turn(prog, mm) = DoNext(mm, prog[mm.pc])
    BY <1>1, <2>1 DEF Turn
  <2> QED
    BY <1>5, <2>1, <2>2 DEF ScanTurnIs, K
<1>6. CASE mm.pc = K + 4
  <2>1. prog[mm.pc] = [op |-> "Goto", target |-> 2]
    BY <1>6 DEF IsScan, K
  <2>2. Turn(prog, mm) = DoGoto(mm, prog[mm.pc])
    BY <1>1, <2>1 DEF Turn
  <2> QED
    BY <1>6, <2>1, <2>2 DEF ScanTurnIs, K
<1>7. CASE mm.pc = K + 5
  <2>1. prog[mm.pc] = [op |-> "Halt"]
    BY <1>7 DEF IsScan, K
  <2>2. Turn(prog, mm) = DoHalt(mm)
    BY <1>1, <2>1 DEF Turn
  <2> QED
    BY <1>7, <2>2 DEF ScanTurnIs, K
<1> QED
  BY <1>2, <1>3, <1>4, <1>5, <1>6, <1>7 DEF ScanTurnIs, K

\* the same for an INSERT
InsertTurnIs(mn, mm, table, V) ==
  LET K == Len(V) IN
  /\ mm.pc = 1 => mn = DoOpen(mm, [op |-> "OpenWrite", table |-> table])
  /\ mm.pc \in 2 .. K + 1 =>
       mn = DoLoad(mm, [op |-> "Load", value |-> V[mm.pc - 1], dest |-> mm.pc - 1])
  /\ mm.pc = K + 2 => mn = DoInsert(mm, [op |-> "Insert", count |-> K])
  /\ mm.pc = K + 3 => mn = DoHalt(mm)

LEMMA InsertTurn ==
  ASSUME NEW prog, NEW table, NEW V, Len(V) \in Nat, IsInsert(prog, table, V),
         NEW mm, mm.pc \in 1 .. Len(V) + 3
  PROVE  InsertTurnIs(Turn(prog, mm), mm, table, V)
<1> DEFINE K == Len(V)
<1> HIDE DEF K
<1>1. mm.pc \in DOMAIN prog
  BY DEF IsInsert
<1>2. CASE mm.pc = 1
  BY <1>1, <1>2 DEF IsInsert, Turn, InsertTurnIs, K
<1>3. CASE mm.pc \in 2 .. K + 1
  <2>1. mm.pc - 1 \in 1 .. K /\ (mm.pc - 1) + 1 = mm.pc
    BY <1>3 DEF K
  <2>2. prog[mm.pc] = [op |-> "Load", value |-> V[mm.pc - 1], dest |-> mm.pc - 1]
    BY <2>1 DEF IsInsert, K
  <2>3. Turn(prog, mm) = DoLoad(mm, prog[mm.pc])
    BY <1>1, <2>2 DEF Turn
  <2> QED
    BY <1>3, <2>2, <2>3 DEF InsertTurnIs, K
<1>4. CASE mm.pc = K + 2
  <2>1. prog[mm.pc] = [op |-> "Insert", count |-> K]
    BY <1>4 DEF IsInsert, K
  <2>2. Turn(prog, mm) = DoInsert(mm, prog[mm.pc])
    BY <1>1, <2>1 DEF Turn
  <2> QED
    BY <1>4, <2>1, <2>2 DEF InsertTurnIs, K
<1>5. CASE mm.pc = K + 3
  <2>1. prog[mm.pc] = [op |-> "Halt"]
    BY <1>5 DEF IsInsert, K
  <2>2. Turn(prog, mm) = DoHalt(mm)
    BY <1>1, <2>1 DEF Turn
  <2> QED
    BY <1>5, <2>2 DEF InsertTurnIs, K
<1> QED
  BY <1>2, <1>3, <1>4, <1>5 DEF InsertTurnIs, K

-----------------------------------------------------------------------------
(* What a program has done, by its place, and how many turns it has left.   *)

IsMachine(mm) ==
  mm = [pc |-> mm.pc, regs |-> mm.regs, table |-> mm.table, pos |-> mm.pos,
        rows |-> mm.rows, schema |-> mm.schema, status |-> mm.status]

IsRegisters(regs, K) == regs = [r \in 1 .. K |-> regs[r]]

LEMMA StartedMachine ==
  ASSUME NEW prog, NEW sch, NEW K \in Nat, Registers(prog) = 1 .. K
  PROVE  LET mm == Started(prog, sch) IN
         /\ mm.pc = 1 /\ mm.rows = <<>> /\ mm.schema = sch /\ mm.status = "running"
         /\ IsRegisters(mm.regs, K) /\ IsMachine(mm)
<1> DEFINE mm == Started(prog, sch)
<1>1. /\ mm.pc = 1 /\ mm.rows = <<>> /\ mm.schema = sch /\ mm.status = "running"
      /\ IsMachine(mm)
  BY DEF Started, IsMachine
<1>2. mm.regs = [r \in 1 .. K |-> Null]
  BY DEF Started
<1> HIDE DEF mm
<1>3. IsRegisters(mm.regs, K)
  BY <1>2 DEF IsRegisters
<1> QED
  BY <1>1, <1>3 DEF mm

FilledTo(regs, want, n) == \A j \in 1 .. n : regs[j] = want[j]

LEMMA RegisterFilled ==
  ASSUME NEW K \in Nat, NEW regs, IsRegisters(regs, K), NEW r \in 1 .. K, NEW want,
         FilledTo(regs, want, r - 1)
  PROVE  /\ IsRegisters([regs EXCEPT ![r] = want[r]], K)
         /\ FilledTo([regs EXCEPT ![r] = want[r]], want, r)
<1> DEFINE new == [regs EXCEPT ![r] = want[r]]
<1>1. regs = [q \in 1 .. K |-> regs[q]]
  BY DEF IsRegisters
<1>2. DOMAIN regs = 1 .. K
  BY <1>1
<1>3. new = [q \in 1 .. K |-> new[q]]
  BY <1>1
<1>4. \A j \in 1 .. r : j \in 1 .. r - 1 \/ j = r
  OBVIOUS
<1>5. \A j \in 1 .. r - 1 : j \in 1 .. K /\ j # r
  OBVIOUS
<1>6. \A j \in 1 .. r - 1 : new[j] = regs[j]
  BY <1>2, <1>5
<1>7. new[r] = want[r]
  BY <1>2
<1> HIDE DEF new
<1>8. \A j \in 1 .. r : new[j] = want[j]
  BY <1>4, <1>6, <1>7 DEF FilledTo
<1> QED
  BY <1>3, <1>8 DEF IsRegisters, FilledTo, new

(* A scan emits the lines of its table: the wanted columns of each row, or  *)
(* one line of NULLs when there is none.                                    *)
Lines(rows) == IF rows = <<>> THEN 1 ELSE Len(rows)
Cell(rows, C, i, j) == IF i <= Len(rows) THEN rows[i][C[j]] ELSE Null
Line(rows, C, i) == [j \in 1 .. Len(C) |-> Cell(rows, C, i, j)]

ScanContext(from, C, sch) ==
  /\ Len(C) \in Nat
  /\ from \in DOMAIN sch
  /\ sch[from].rows \in Seq(Seq(Values))
  /\ \A i \in 1 .. Len(sch[from].rows) : \A j \in 1 .. Len(C) :
       C[j] \in 1 .. Len(sch[from].rows[i])

Emitting(mm, rows, C) ==
  /\ mm.rows \in Seq(Seq(Values))
  /\ \A i \in 1 .. Len(mm.rows) : mm.rows[i] = Line(rows, C, i)

ScanPlace(mm, rows, C) ==
  LET K == Len(C) IN
  /\ mm.pc = 1 => mm.rows = <<>>
  /\ mm.pc \in 2 .. K + 2 =>
       /\ mm.pos \in 1 .. Lines(rows) /\ Len(mm.rows) = mm.pos - 1
       /\ FilledTo(mm.regs, Line(rows, C, mm.pos), mm.pc - 2)
  /\ mm.pc = K + 3 => mm.pos \in 1 .. Lines(rows) /\ Len(mm.rows) = mm.pos
  /\ mm.pc = K + 4 => mm.pos \in 2 .. Lines(rows) /\ Len(mm.rows) = mm.pos - 1
  /\ mm.pc = K + 5 => Len(mm.rows) = Lines(rows)
  /\ mm.status = "done" => mm.pc = K + 5

ScanState(mm, from, C, sch) ==
  /\ IsMachine(mm)
  /\ mm.schema = sch
  /\ mm.status \in {"running", "done"}
  /\ mm.pc \in 1 .. Len(C) + 5
  /\ mm.pc # 1 => mm.table = from
  /\ IsRegisters(mm.regs, Len(C))
  /\ Emitting(mm, sch[from].rows, C)
  /\ ScanPlace(mm, sch[from].rows, C)

ScanLeft(mm, K, M) ==
  CASE mm.status = "done"     -> 0
    [] mm.status # "done" /\ mm.pc = 1          -> M * (K + 3) + 1
    [] mm.status # "done" /\ mm.pc \in 2 .. K + 3 -> (M - mm.pos) * (K + 3) + (K + 5 - mm.pc)
    [] mm.status # "done" /\ mm.pc = K + 4      -> (M - mm.pos + 1) * (K + 3) + 1
    [] mm.status # "done" /\ mm.pc = K + 5      -> 1

LEMMA ContextFacts ==
  ASSUME NEW from, NEW C, NEW sch, ScanContext(from, C, sch)
  PROVE  LET rows == sch[from].rows IN
         /\ Len(rows) \in Nat /\ Lines(rows) \in Nat /\ Lines(rows) >= 1
         /\ rows = <<>> <=> Len(rows) = 0
         /\ \A i \in 1 .. Lines(rows) : Line(rows, C, i) \in Seq(Values)
<1> DEFINE rows == sch[from].rows
           K == Len(C)
<1>1. rows \in Seq(Seq(Values)) /\ K \in Nat
  BY DEF ScanContext
<1>2. \A i \in 1 .. Len(rows) : \A j \in 1 .. K : C[j] \in 1 .. Len(rows[i])
  BY DEF ScanContext
<1> HIDE DEF rows
<1>3. Len(rows) \in Nat /\ (rows = <<>> <=> Len(rows) = 0)
  BY <1>1, LenProperties, EmptySeq
<1>4. Lines(rows) \in Nat /\ Lines(rows) >= 1
  BY <1>3 DEF Lines
<1>5. ASSUME NEW i \in 1 .. Lines(rows)
      PROVE  Line(rows, C, i) \in Seq(Values)
  <2>1. ASSUME NEW j \in 1 .. K
        PROVE  Cell(rows, C, i, j) \in Values
    <3>1. CASE i <= Len(rows)
      <4>1. i \in 1 .. Len(rows)
        BY <1>3, <1>4, <3>1
      <4>2. rows[i] \in Seq(Values)
        BY <1>1, <4>1, ElementOfSeq
      <4>3. C[j] \in 1 .. Len(rows[i])
        BY <1>2, <4>1
      <4>4. rows[i][C[j]] \in Values
        BY <4>2, <4>3, ElementOfSeq
      <4> QED
        BY <3>1, <4>4 DEF Cell
    <3>2. CASE ~(i <= Len(rows))
      BY <3>2 DEF Cell, Values
    <3> QED
      BY <3>1, <3>2
  <2>2. Line(rows, C, i) \in [1 .. K -> Values]
    BY <2>1 DEF Line
  <2> HIDE DEF K
  <2>3. K \in Nat
    BY <1>1
  <2> QED
    BY <2>2, <2>3, SeqDef
<1> QED
  BY <1>3, <1>4, <1>5 DEF rows

\* the numbers of ScanLeft
LEMMA LinesLeft ==
  ASSUME NEW M \in Nat, NEW K \in Nat, NEW p \in 1 .. M
  PROVE  /\ (M - p) * (K + 3) \in Nat
         /\ (M - p) * (K + 3) + (K + 3) = (M - p + 1) * (K + 3)
         /\ p = M => (M - p) * (K + 3) = 0
         /\ p = 1 => (M - p) * (K + 3) + (K + 3) = M * (K + 3)
<1>1. M - p \in Nat /\ K + 3 \in Nat
  OBVIOUS
<1>2. \A x, y \in Nat : x * y \in Nat /\ x * y + y = (x + 1) * y
  OBVIOUS
<1>3. p = M => (M - p) * (K + 3) = 0
  OBVIOUS
<1>4. p = 1 => (M - p) + 1 = M
  OBVIOUS
<1> QED
  BY <1>1, <1>2, <1>3, <1>4

LEMMA ScanStep ==
  ASSUME NEW prog, NEW from, NEW C, NEW sch, ScanContext(from, C, sch),
         IsScan(prog, from, C), NEW mm, ScanState(mm, from, C, sch), mm.status = "running"
  PROVE  LET mn == Turn(prog, mm)
             M == Lines(sch[from].rows)
         IN /\ ScanState(mn, from, C, sch)
            /\ ScanLeft(mn, Len(C), M) = ScanLeft(mm, Len(C), M) - 1
<1> DEFINE mn == Turn(prog, mm)
           K == Len(C)
           rows == sch[from].rows
           N == Len(rows)
           M == Lines(rows)
<1> SUFFICES /\ ScanState(mn, from, C, sch)
             /\ ScanLeft(mn, K, M) = ScanLeft(mm, K, M) - 1
  OBVIOUS
<1>1. /\ K \in Nat /\ from \in DOMAIN sch
      /\ \A i \in 1 .. N : \A j \in 1 .. K : C[j] \in 1 .. Len(rows[i])
  BY DEF ScanContext
<1>2. /\ N \in Nat /\ M \in Nat /\ M >= 1 /\ M = IF N = 0 THEN 1 ELSE N
      /\ \A i \in 1 .. M : Line(rows, C, i) \in Seq(Values)
  BY ContextFacts DEF Lines
<1>3. /\ mm.pc \in 1 .. K + 5 /\ mm.schema = sch /\ IsMachine(mm) /\ IsRegisters(mm.regs, K)
      /\ mm.pc # 1 => mm.table = from
      /\ Emitting(mm, rows, C) /\ ScanPlace(mm, rows, C)
  BY DEF ScanState
<1>4. mm.pc # 1 => CursorRows(mm) = rows
  BY <1>3 DEF CursorRows
<1>5. Len(mm.rows) \in Nat
  BY <1>3, LenProperties DEF Emitting
<1>6. ScanTurnIs(mn, mm, from, C)
  BY <1>1, <1>3, ScanTurn
<1>7. ASSUME mn.status \in {"running", "done"}, mn.schema = sch, mn.pc \in 1 .. K + 5,
             mn.table = from, IsMachine(mn), IsRegisters(mn.regs, K),
             Emitting(mn, rows, C), ScanPlace(mn, rows, C),
             ScanLeft(mn, K, M) = ScanLeft(mm, K, M) - 1
      PROVE  /\ ScanState(mn, from, C, sch)
             /\ ScanLeft(mn, K, M) = ScanLeft(mm, K, M) - 1
  BY <1>7 DEF ScanState
<1> HIDE DEF mn, K, N, M, rows
<1>8. \A p \in 1 .. M : /\ (M - p) * (K + 3) \in Nat
                        /\ (M - p) * (K + 3) + (K + 3) = (M - p + 1) * (K + 3)
                        /\ p = M => (M - p) * (K + 3) = 0
                        /\ p = 1 => (M - p) * (K + 3) + (K + 3) = M * (K + 3)
  BY <1>1, <1>2, LinesLeft
<1>9. CASE mm.pc = 1
  <2>1. mn = DoOpen(mm, [op |-> "OpenRead", table |-> from])
    BY <1>6, <1>9 DEF ScanTurnIs
  <2>2. mn = [mm EXCEPT !.table = from, !.pos = 1, !.pc = 2]
    BY <1>1, <1>3, <1>9, <2>1 DEF DoOpen
  <2>3. /\ mn.pc = 2 /\ mn.pos = 1 /\ mn.table = from /\ mn.regs = mm.regs
        /\ mn.rows = mm.rows /\ mn.schema = mm.schema /\ mn.status = "running"
        /\ IsMachine(mn)
    BY <1>3, <2>2 DEF IsMachine
  <2>4. Emitting(mn, rows, C)
    BY <1>3, <2>3 DEF Emitting
  <2>5. Len(mn.rows) = 0
    BY <1>3, <1>9, <2>3, EmptySeq DEF ScanPlace
  <2>6. ScanPlace(mn, rows, C)
    <3>1. mn.pc - 2 = 0 /\ FilledTo(mn.regs, Line(rows, C, mn.pos), 0)
      BY <2>3 DEF FilledTo
    <3> QED
      BY <1>1, <1>2, <2>3, <2>5, <3>1 DEF ScanPlace, K, M
  <2>7. ScanLeft(mn, K, M) = (M - 1) * (K + 3) + (K + 5 - 2)
    BY <1>1, <2>3 DEF ScanLeft
  <2>8. ScanLeft(mm, K, M) = M * (K + 3) + 1
    BY <1>1, <1>9 DEF ScanLeft
  <2>9. ScanLeft(mn, K, M) = ScanLeft(mm, K, M) - 1
    <3>1. 1 \in 1 .. M
      BY <1>2
    <3>2. (M - 1) * (K + 3) \in Nat /\ (M - 1) * (K + 3) + (K + 3) = M * (K + 3)
      BY <1>8, <3>1
    <3> QED
      BY <1>1, <2>7, <2>8, <3>2
  <2> QED
    BY <1>1, <1>3, <1>7, <2>3, <2>4, <2>6, <2>9
<1>10. CASE mm.pc \in 2 .. K + 1
  <2> DEFINE r == mm.pc - 1
             value == Line(rows, C, mm.pos)[r]
  <2>1. r \in 1 .. K /\ mm.pc + 1 = r + 2 /\ mm.pc - 2 = r - 1 /\ mm.pc \in 2 .. K + 2
    BY <1>1, <1>10
  <2>2. mn = DoColumn(mm, [op |-> "Column", column |-> C[r], dest |-> r])
    BY <1>6, <1>10 DEF ScanTurnIs, K
  <2>3. /\ mm.pos \in 1 .. M /\ Len(mm.rows) = mm.pos - 1
        /\ FilledTo(mm.regs, Line(rows, C, mm.pos), r - 1)
    BY <1>3, <2>1 DEF ScanPlace, K, M
  <2>4. /\ CursorRows(mm) = rows
        /\ value = IF mm.pos <= Len(rows) /\ C[r] <= Len(rows[mm.pos])
                   THEN rows[mm.pos][C[r]] ELSE Null
    <3>1. value = Cell(rows, C, mm.pos, r)
      BY <2>1 DEF Line, K
    <3>2. mm.pos <= N => C[r] \in 1 .. Len(rows[mm.pos])
      <4> SUFFICES ASSUME mm.pos <= N
                   PROVE  C[r] \in 1 .. Len(rows[mm.pos])
        OBVIOUS
      <4>1. mm.pos \in 1 .. N
        BY <1>2, <2>3
      <4> QED
        BY <1>1, <2>1, <4>1
    <3>3. mm.pos <= Len(rows) => C[r] <= Len(rows[mm.pos])
      BY <3>2 DEF N
    <3> QED
      BY <1>3, <1>4, <1>10, <3>1, <3>3 DEF Cell
  <2> HIDE DEF value
  <2>5. mn = [mm EXCEPT !.regs[r] = value, !.pc = r + 2]
    <3> DEFINE op == [op |-> "Column", column |-> C[r], dest |-> r]
    <3>1. op.column = C[r] /\ op.dest = r
      OBVIOUS
    <3>2. mn = DoColumn(mm, op)
      BY <2>2
    <3> HIDE DEF op
    <3> QED
      BY <2>1, <2>4, <3>1, <3>2 DEF DoColumn
  <2>6. /\ mn.pc = r + 2 /\ mn.pos = mm.pos /\ mn.table = mm.table /\ mn.rows = mm.rows
        /\ mn.schema = mm.schema /\ mn.status = mm.status
        /\ mn.regs = [mm.regs EXCEPT ![r] = value]
        /\ IsMachine(mn)
    BY <1>3, <2>5 DEF IsMachine
  <2> HIDE DEF r
  <2>7. /\ IsRegisters(mn.regs, K)
        /\ FilledTo(mn.regs, Line(rows, C, mm.pos), r)
    <3>1. value = Line(rows, C, mm.pos)[r]
      BY DEF value, r
    <3> QED
      <4>1. mn.regs = [mm.regs EXCEPT ![r] = Line(rows, C, mm.pos)[r]]
        BY <2>6, <3>1
      <4>2. K \in Nat /\ IsRegisters(mm.regs, K) /\ r \in 1 .. K
        BY <1>1, <1>3, <2>1
      <4> QED
        BY <2>3, <4>1, <4>2, RegisterFilled
  <2>8. Emitting(mn, rows, C)
    BY <1>3, <2>6 DEF Emitting
  <2>9. mn.pc \in 3 .. K + 2 /\ mn.pc - 2 = r
    BY <1>1, <2>1, <2>6
  <2>10. ScanPlace(mn, rows, C)
    BY <1>1, <2>3, <2>6, <2>7, <2>9 DEF ScanPlace, K, M
  <2>11. ScanLeft(mn, K, M) = ScanLeft(mm, K, M) - 1
    <3>1. ScanLeft(mm, K, M) = (M - mm.pos) * (K + 3) + (K + 5 - mm.pc)
      BY <1>1, <2>1, SMTT(30) DEF ScanLeft
    <3>2. ScanLeft(mn, K, M) = (M - mm.pos) * (K + 3) + (K + 5 - (mm.pc + 1))
      <4>1. mn.pc \in 2 .. K + 3 /\ mn.pc # 1 /\ mn.status # "done"
        BY <1>1, <2>6, <2>9
      <4>2. ScanLeft(mn, K, M) = (M - mn.pos) * (K + 3) + (K + 5 - mn.pc)
        BY <1>1, <4>1 DEF ScanLeft
      <4> QED
        BY <2>1, <2>6, <4>2
    <3>3. (M - mm.pos) * (K + 3) \in Nat
      BY <1>8, <2>3
    <3> QED
      BY <1>1, <1>3, <3>1, <3>2, <3>3
  <2> QED
    BY <1>1, <1>3, <1>7, <1>10, <2>6, <2>7, <2>8, <2>9, <2>10, <2>11
<1>11. CASE mm.pc = K + 2
  <2>1. mn = DoResultRow(mm, [op |-> "ResultRow", count |-> K])
    BY <1>6, <1>11 DEF ScanTurnIs, K
  <2>2. /\ mm.pos \in 1 .. M /\ Len(mm.rows) = mm.pos - 1
        /\ FilledTo(mm.regs, Line(rows, C, mm.pos), K)
    <3>1. mm.pc \in 2 .. K + 2 /\ mm.pc - 2 = K
      BY <1>1, <1>11
    <3> QED
      BY <1>3, <3>1 DEF ScanPlace, K, M
  <2>3. RowOf(mm, K) = Line(rows, C, mm.pos)
    BY <2>2 DEF RowOf, Line, K, FilledTo
  <2>4. mn = [mm EXCEPT !.rows = Append(@, Line(rows, C, mm.pos)), !.pc = K + 3]
    <3> DEFINE op == [op |-> "ResultRow", count |-> K]
    <3>1. op.count = K
      OBVIOUS
    <3>2. mn = DoResultRow(mm, op)
      BY <2>1
    <3> HIDE DEF op
    <3>3. mm.pc + 1 = K + 3
      BY <1>1, <1>11
    <3> QED
      BY <2>3, <3>1, <3>2, <3>3 DEF DoResultRow
  <2>5. /\ mn.pc = K + 3 /\ mn.pos = mm.pos /\ mn.table = mm.table /\ mn.regs = mm.regs
        /\ mn.schema = mm.schema /\ mn.status = mm.status
        /\ mn.rows = Append(mm.rows, Line(rows, C, mm.pos))
        /\ IsMachine(mn)
    BY <1>3, <2>4 DEF IsMachine
  <2>6. mm.rows \in Seq(Seq(Values)) /\ Line(rows, C, mm.pos) \in Seq(Values)
    BY <1>2, <1>3, <2>2 DEF Emitting
  <2>7. /\ mn.rows \in Seq(Seq(Values)) /\ Len(mn.rows) = Len(mm.rows) + 1
        /\ \A i \in 1 .. Len(mm.rows) : mn.rows[i] = mm.rows[i]
        /\ mn.rows[Len(mm.rows) + 1] = Line(rows, C, mm.pos)
    BY <2>5, <2>6, AppendProperties
  <2>8. Len(mn.rows) = mm.pos
    BY <1>2, <2>2, <2>7
  <2>9. Emitting(mn, rows, C)
    <3>1. \A i \in 1 .. Len(mn.rows) : i \in 1 .. Len(mm.rows) \/ i = mm.pos
      BY <1>2, <1>5, <2>2, <2>7, <2>8
    <3>2. mn.rows[mm.pos] = Line(rows, C, mm.pos)
      BY <1>5, <2>7, <2>8
    <3>3. \A i \in 1 .. Len(mn.rows) : mn.rows[i] = Line(rows, C, i)
      BY <1>3, <2>7, <3>1, <3>2 DEF Emitting
    <3> QED
      BY <2>7, <3>3 DEF Emitting
  <2>10. ScanPlace(mn, rows, C)
    BY <1>1, <2>2, <2>5, <2>8 DEF ScanPlace, K, M
  <2>11. ScanLeft(mn, K, M) = ScanLeft(mm, K, M) - 1
    <3>1. ScanLeft(mm, K, M) = (M - mm.pos) * (K + 3) + (K + 5 - (K + 2))
      BY <1>1, <1>11 DEF ScanLeft
    <3>2. ScanLeft(mn, K, M) = (M - mm.pos) * (K + 3) + (K + 5 - (K + 3))
      BY <1>1, <2>5 DEF ScanLeft
    <3>3. (M - mm.pos) * (K + 3) \in Nat
      BY <1>8, <2>2
    <3> QED
      BY <1>1, <3>1, <3>2, <3>3
  <2>12. mn.pc \in 1 .. K + 5 /\ mn.table = from /\ IsRegisters(mn.regs, K)
    BY <1>1, <1>3, <1>11, <2>5
  <2> QED
    BY <1>3, <1>7, <2>5, <2>9, <2>10, <2>11, <2>12
<1>12. CASE mm.pc = K + 3
  <2>1. mn = DoNext(mm, [op |-> "Next", target |-> K + 5])
    BY <1>6, <1>12 DEF ScanTurnIs, K
  <2>2. mm.pos \in 1 .. M /\ Len(mm.rows) = mm.pos
    BY <1>3, <1>12 DEF ScanPlace, K, M
  <2>3. mn = [mm EXCEPT !.pos = mm.pos + 1,
                        !.pc = IF mm.pos + 1 > N THEN K + 5 ELSE K + 4]
    <3> DEFINE op == [op |-> "Next", target |-> K + 5]
    <3>1. op.target = K + 5
      OBVIOUS
    <3>2. mn = DoNext(mm, op)
      BY <2>1
    <3> HIDE DEF op
    <3>3. mm.pc + 1 = K + 4 /\ CursorRows(mm) = rows
      BY <1>1, <1>4, <1>12
    <3> QED
      BY <3>1, <3>2, <3>3 DEF DoNext, N
  <2>4. /\ mn.pc = IF mm.pos + 1 > N THEN K + 5 ELSE K + 4
        /\ mn.pos = mm.pos + 1 /\ mn.table = mm.table /\ mn.regs = mm.regs
        /\ mn.schema = mm.schema /\ mn.status = mm.status /\ mn.rows = mm.rows
        /\ IsMachine(mn)
    BY <1>3, <2>3 DEF IsMachine
  <2>5. Emitting(mn, rows, C)
    BY <1>3, <2>4 DEF Emitting
  <2>6. mm.pos + 1 > N <=> mm.pos = M
    BY <1>2, <2>2
  <2>7. ScanLeft(mm, K, M) = (M - mm.pos) * (K + 3) + 2
    BY <1>1, <1>12 DEF ScanLeft
  <2>8. CASE mm.pos = M
    <3>1. mn.pc = K + 5
      BY <2>4, <2>6, <2>8
    <3>2. ScanPlace(mn, rows, C)
      BY <1>1, <2>2, <2>4, <2>8, <3>1 DEF ScanPlace, K, M
    <3>3. ScanLeft(mn, K, M) = 1
      BY <1>1, <2>4, <3>1 DEF ScanLeft
    <3>4. (M - mm.pos) * (K + 3) = 0
      BY <1>8, <2>2, <2>8
    <3>5. ScanLeft(mn, K, M) = ScanLeft(mm, K, M) - 1
      BY <2>7, <3>3, <3>4
    <3> QED
      BY <1>1, <1>3, <1>7, <1>12, <2>4, <2>5, <3>1, <3>2, <3>5
  <2>9. CASE mm.pos # M
    <3>1. mn.pc = K + 4 /\ mn.pos \in 2 .. M /\ Len(mn.rows) = mn.pos - 1
      BY <1>2, <2>2, <2>4, <2>6, <2>9
    <3>2. ScanPlace(mn, rows, C)
      BY <1>1, <2>4, <3>1 DEF ScanPlace, K, M
    <3>3. ScanLeft(mn, K, M) = (M - mn.pos + 1) * (K + 3) + 1
      BY <1>1, <2>4, <3>1 DEF ScanLeft
    <3>4. M - mn.pos + 1 = M - mm.pos
      BY <1>2, <2>2, <2>4
    <3>5. (M - mm.pos) * (K + 3) \in Nat
      BY <1>8, <2>2
    <3>6. ScanLeft(mn, K, M) = ScanLeft(mm, K, M) - 1
      BY <2>7, <3>3, <3>4, <3>5
    <3> QED
      BY <1>1, <1>3, <1>7, <1>12, <2>4, <2>5, <3>1, <3>2, <3>6
  <2> QED
    BY <2>8, <2>9
<1>13. CASE mm.pc = K + 4
  <2>1. mn = [mm EXCEPT !.pc = 2]
    BY <1>6, <1>13 DEF ScanTurnIs, K, DoGoto
  <2>2. mm.pos \in 2 .. M /\ Len(mm.rows) = mm.pos - 1
    BY <1>3, <1>13 DEF ScanPlace, K, M
  <2>3. /\ mn.pc = 2 /\ mn.pos = mm.pos /\ mn.table = mm.table /\ mn.regs = mm.regs
        /\ mn.schema = mm.schema /\ mn.status = mm.status /\ mn.rows = mm.rows
        /\ IsMachine(mn)
    BY <1>3, <2>1 DEF IsMachine
  <2>4. Emitting(mn, rows, C)
    BY <1>3, <2>3 DEF Emitting
  <2>5. ScanPlace(mn, rows, C)
    <3>1. mn.pc - 2 = 0 /\ FilledTo(mn.regs, Line(rows, C, mn.pos), 0)
      BY <2>3 DEF FilledTo
    <3> QED
      BY <1>1, <1>2, <2>2, <2>3, <3>1 DEF ScanPlace, K, M
  <2>6. ScanLeft(mn, K, M) = ScanLeft(mm, K, M) - 1
    <3>1. ScanLeft(mm, K, M) = (M - mm.pos + 1) * (K + 3) + 1
      BY <1>1, <1>13 DEF ScanLeft
    <3>2. ScanLeft(mn, K, M) = (M - mm.pos) * (K + 3) + (K + 5 - 2)
      BY <1>1, <2>3 DEF ScanLeft
    <3>3. mm.pos \in 1 .. M
      BY <1>2, <2>2
    <3>4. /\ (M - mm.pos) * (K + 3) \in Nat
          /\ (M - mm.pos) * (K + 3) + (K + 3) = (M - mm.pos + 1) * (K + 3)
      BY <1>8, <3>3
    <3> QED
      BY <1>1, <3>1, <3>2, <3>4
  <2> QED
    BY <1>1, <1>3, <1>7, <1>13, <2>3, <2>4, <2>5, <2>6
<1>14. CASE mm.pc = K + 5
  <2>1. mn = [mm EXCEPT !.status = "done"]
    BY <1>6, <1>14 DEF ScanTurnIs, K, DoHalt
  <2>2. Len(mm.rows) = M
    BY <1>3, <1>14 DEF ScanPlace, K, M
  <2>3. /\ mn.pc = K + 5 /\ mn.pos = mm.pos /\ mn.table = mm.table /\ mn.regs = mm.regs
        /\ mn.schema = mm.schema /\ mn.status = "done" /\ mn.rows = mm.rows
        /\ IsMachine(mn)
    BY <1>3, <1>14, <2>1 DEF IsMachine
  <2>4. Emitting(mn, rows, C)
    BY <1>3, <2>3 DEF Emitting
  <2>5. ScanPlace(mn, rows, C)
    BY <1>1, <2>2, <2>3 DEF ScanPlace, K, M
  <2>6. ScanLeft(mn, K, M) = ScanLeft(mm, K, M) - 1
    BY <1>1, <1>14, <2>3 DEF ScanLeft
  <2> QED
    BY <1>1, <1>3, <1>7, <1>14, <2>3, <2>4, <2>5, <2>6
<1>15. mm.pc = 1 \/ mm.pc \in 2 .. K + 1 \/ mm.pc \in {K + 2, K + 3, K + 4, K + 5}
  BY <1>1, <1>3
<1> QED
  BY <1>9, <1>10, <1>11, <1>12, <1>13, <1>14, <1>15

(* An INSERT fills the registers with its values, then appends them.        *)
Inserted(sch, table, V) == [sch EXCEPT ![table].rows = Append(@, V)]

InsertContext(table, V, sch) ==
  table \in DOMAIN sch /\ Len(V) \in Nat /\ V = [i \in 1 .. Len(V) |-> V[i]]

InsertState(mm, table, V, sch) ==
  LET K == Len(V) IN
  /\ IsMachine(mm)
  /\ mm.status \in {"running", "done"}
  /\ mm.pc \in 1 .. K + 3
  /\ mm.pc # 1 => mm.table = table
  /\ IsRegisters(mm.regs, K)
  /\ mm.rows = <<>>
  /\ mm.pc # K + 3 => mm.schema = sch
  /\ mm.pc \in 2 .. K + 2 => FilledTo(mm.regs, V, mm.pc - 2)
  /\ mm.pc = K + 3 => mm.schema = Inserted(sch, table, V)
  /\ mm.status = "done" => mm.pc = K + 3

InsertLeft(mm, K) == IF mm.status = "done" THEN 0 ELSE K + 4 - mm.pc

LEMMA InsertStep ==
  ASSUME NEW prog, NEW table, NEW V, NEW sch, InsertContext(table, V, sch),
         IsInsert(prog, table, V), NEW mm, InsertState(mm, table, V, sch),
         mm.status = "running"
  PROVE  LET mn == Turn(prog, mm)
         IN /\ InsertState(mn, table, V, sch)
            /\ InsertLeft(mn, Len(V)) = InsertLeft(mm, Len(V)) - 1
<1> DEFINE mn == Turn(prog, mm)
           K == Len(V)
<1> SUFFICES InsertState(mn, table, V, sch) /\ InsertLeft(mn, K) = InsertLeft(mm, K) - 1
  OBVIOUS
<1>1. K \in Nat /\ table \in DOMAIN sch /\ V = [i \in 1 .. K |-> V[i]]
  BY DEF InsertContext
<1>2. /\ mm.pc \in 1 .. K + 3 /\ IsMachine(mm) /\ IsRegisters(mm.regs, K)
      /\ mm.pc # 1 => mm.table = table
      /\ mm.rows = <<>>
      /\ mm.pc # K + 3 => mm.schema = sch
      /\ mm.pc \in 2 .. K + 2 => FilledTo(mm.regs, V, mm.pc - 2)
      /\ mm.pc = K + 3 => mm.schema = Inserted(sch, table, V)
  BY DEF InsertState
<1>3. InsertTurnIs(mn, mm, table, V)
  BY <1>1, <1>2, InsertTurn
<1> HIDE DEF mn, K
<1>4. CASE mm.pc = 1
  <2>1. mn = DoOpen(mm, [op |-> "OpenWrite", table |-> table])
    BY <1>3, <1>4 DEF InsertTurnIs
  <2>2. mn = [mm EXCEPT !.table = table, !.pos = 1, !.pc = 2]
    BY <1>1, <1>2, <1>4, <2>1 DEF DoOpen
  <2>3. /\ mn.pc = 2 /\ mn.table = table /\ mn.regs = mm.regs
        /\ mn.rows = mm.rows /\ mn.schema = mm.schema /\ mn.status = "running"
        /\ IsMachine(mn)
    BY <1>2, <2>2 DEF IsMachine
  <2>4. mn.pc - 2 = 0 /\ FilledTo(mn.regs, V, 0) /\ mn.schema = sch /\ mn.pc # K + 3
    BY <1>1, <1>2, <1>4, <2>3 DEF FilledTo
  <2> QED
    BY <1>1, <1>2, <1>4, <2>3, <2>4 DEF InsertState, InsertLeft, K
<1>5. CASE mm.pc \in 2 .. K + 1
  <2> DEFINE r == mm.pc - 1
  <2>1. r \in 1 .. K /\ mm.pc + 1 = r + 2 /\ mm.pc - 2 = r - 1 /\ mm.pc \in 2 .. K + 2
        /\ mm.pc # K + 3
    BY <1>1, <1>5
  <2>2. mn = DoLoad(mm, [op |-> "Load", value |-> V[r], dest |-> r])
    BY <1>3, <1>5 DEF InsertTurnIs, K
  <2>3. mn = [mm EXCEPT !.regs[r] = V[r], !.pc = r + 2]
    <3> DEFINE op == [op |-> "Load", value |-> V[r], dest |-> r]
    <3>1. op.value = V[r] /\ op.dest = r
      OBVIOUS
    <3>2. mn = DoLoad(mm, op)
      BY <2>2
    <3> HIDE DEF op
    <3> QED
      BY <2>1, <3>1, <3>2 DEF DoLoad
  <2>4. /\ mn.pc = r + 2 /\ mn.table = mm.table /\ mn.rows = mm.rows
        /\ mn.schema = mm.schema /\ mn.status = "running"
        /\ mn.regs = [mm.regs EXCEPT ![r] = V[r]]
        /\ IsMachine(mn)
    BY <1>2, <2>3 DEF IsMachine
  <2> HIDE DEF r
  <2>5. IsRegisters(mn.regs, K) /\ FilledTo(mn.regs, V, r)
    <3>1. K \in Nat /\ IsRegisters(mm.regs, K) /\ r \in 1 .. K
          /\ FilledTo(mm.regs, V, r - 1)
      BY <1>1, <1>2, <2>1
    <3> QED
      BY <2>4, <3>1, RegisterFilled
  <2>6. mn.pc \in 3 .. K + 2 /\ mn.pc - 2 = r /\ mn.pc # K + 3 /\ mn.schema = sch
        /\ mn.table = table
    BY <1>1, <1>2, <1>5, <2>1, <2>4
  <2>7. InsertState(mn, table, V, sch)
    BY <1>1, <1>2, <2>4, <2>5, <2>6 DEF InsertState, K
  <2> QED
    BY <1>1, <1>2, <2>1, <2>4, <2>7, SMTT(30) DEF InsertLeft
<1>6. CASE mm.pc = K + 2
  <2>1. mn = DoInsert(mm, [op |-> "Insert", count |-> K])
    BY <1>3, <1>6 DEF InsertTurnIs, K
  <2>2. FilledTo(mm.regs, V, K) /\ mm.schema = sch /\ mm.table = table
    <3>1. mm.pc \in 2 .. K + 2 /\ mm.pc - 2 = K /\ mm.pc # K + 3 /\ mm.pc # 1
      BY <1>1, <1>6
    <3> QED
      BY <1>2, <3>1
  <2>3. RowOf(mm, K) = V
    <3>1. RowOf(mm, K) = [i \in 1 .. K |-> V[i]]
      BY <2>2 DEF RowOf, FilledTo
    <3> QED
      BY <1>1, <3>1
  <2>4. mn = [mm EXCEPT !.schema[mm.table].rows = Append(@, V), !.pc = K + 3]
    <3> DEFINE op == [op |-> "Insert", count |-> K]
    <3>1. op.count = K
      OBVIOUS
    <3>2. mn = DoInsert(mm, op)
      BY <2>1
    <3> HIDE DEF op
    <3>3. mm.pc + 1 = K + 3
      BY <1>1, <1>6
    <3> QED
      BY <2>3, <3>1, <3>2, <3>3 DEF DoInsert
  <2>5. /\ mn.pc = K + 3 /\ mn.table = mm.table /\ mn.rows = mm.rows
        /\ mn.schema = [mm.schema EXCEPT ![mm.table].rows = Append(@, V)]
        /\ mn.status = "running" /\ mn.regs = mm.regs
        /\ IsMachine(mn)
    BY <1>2, <2>4 DEF IsMachine
  <2>6. mn.schema = Inserted(sch, table, V)
    BY <2>2, <2>5 DEF Inserted
  <2>7. mn.pc \in 1 .. K + 3 /\ ~(mn.pc \in 2 .. K + 2)
    BY <1>1, <2>5
  <2>8. InsertState(mn, table, V, sch)
    BY <1>2, <2>2, <2>5, <2>6, <2>7 DEF InsertState, K
  <2> QED
    BY <1>1, <1>6, <2>5, <2>8 DEF InsertLeft
<1>7. CASE mm.pc = K + 3
  <2>1. mn = [mm EXCEPT !.status = "done"]
    BY <1>3, <1>7 DEF InsertTurnIs, K, DoHalt
  <2>2. /\ mn.pc = mm.pc /\ mn.table = mm.table /\ mn.regs = mm.regs
        /\ mn.schema = mm.schema /\ mn.status = "done" /\ mn.rows = mm.rows
        /\ IsMachine(mn)
    BY <1>2, <2>1 DEF IsMachine
  <2>3. InsertState(mn, table, V, sch)
    BY <1>2, <1>7, <2>2 DEF InsertState, K
  <2> QED
    BY <1>1, <1>7, <2>2, <2>3 DEF InsertLeft
<1> QED
  BY <1>1, <1>2, <1>4, <1>5, <1>6, <1>7

(* CREATE and DROP are one opcode.                                          *)
Created(sch, table, columns) ==
  [t \in DOMAIN sch \cup {table} |->
     IF t = table THEN [columns |-> columns, rows |-> <<>>] ELSE sch[t]]

Dropped(sch, table) == [t \in DOMAIN sch \ {table} |-> sch[t]]

ChangeState(mm, sch, new) ==
  /\ IsMachine(mm)
  /\ mm.status \in {"running", "done"}
  /\ mm.pc \in {1, 2}
  /\ mm.rows = <<>>
  /\ mm.pc = 1 => mm.schema = sch
  /\ mm.pc = 2 => mm.schema = new
  /\ mm.status = "done" => mm.pc = 2

ChangeLeft(mm) == IF mm.status = "done" THEN 0 ELSE 3 - mm.pc

Changed(mm, new) == [mm EXCEPT !.schema = new, !.pc = mm.pc + 1]

LEMMA ChangeStep ==
  ASSUME NEW prog, NEW sch, NEW new, NEW mm, ChangeState(mm, sch, new),
         mm.status = "running", DOMAIN prog = 1 .. 2, prog[2] = [op |-> "Halt"],
         mm.pc = 1 => Turn(prog, mm) = Changed(mm, new)
  PROVE  LET mn == Turn(prog, mm)
         IN ChangeState(mn, sch, new) /\ ChangeLeft(mn) = ChangeLeft(mm) - 1
<1> DEFINE mn == Turn(prog, mm)
<1> SUFFICES ChangeState(mn, sch, new) /\ ChangeLeft(mn) = ChangeLeft(mm) - 1
  OBVIOUS
<1>1. CASE mm.pc = 1
  <2>1. mn = [mm EXCEPT !.schema = new, !.pc = 2]
    BY <1>1 DEF Changed
  <2> HIDE DEF mn
  <2>2. /\ mn.pc = 2 /\ mn.schema = new /\ mn.status = "running" /\ mn.rows = mm.rows
        /\ IsMachine(mn)
    BY <2>1 DEF ChangeState, IsMachine
  <2> QED
    BY <1>1, <2>2 DEF ChangeState, ChangeLeft
<1>2. CASE mm.pc = 2
  <2>1. mn = [mm EXCEPT !.status = "done"]
    BY <1>2 DEF Turn, DoHalt
  <2> HIDE DEF mn
  <2>2. /\ mn.pc = 2 /\ mn.schema = mm.schema /\ mn.status = "done" /\ mn.rows = mm.rows
        /\ IsMachine(mn)
    BY <1>2, <2>1 DEF ChangeState, IsMachine
  <2> QED
    BY <1>2, <2>2 DEF ChangeState, ChangeLeft
<1> QED
  BY <1>1, <1>2 DEF ChangeState

LEMMA CreateTurn ==
  ASSUME NEW s, NEW sch, NEW mm, mm.pc = 1, mm.schema = sch, IsMachine(mm)
  PROVE  Turn(compile_create(s), mm) = Changed(mm, Created(sch, s.table, s.columns))
<1> DEFINE op == [op |-> "CreateTable", table |-> s.table, columns |-> s.columns]
<1>1. /\ DOMAIN compile_create(s) = 1 .. 2 /\ compile_create(s)[1] = op
      /\ op.op = "CreateTable" /\ op.table = s.table /\ op.columns = s.columns
  BY DEF compile_create
<1> HIDE DEF op
<1>2. Turn(compile_create(s), mm) = DoCreateTable(mm, op)
  BY <1>1 DEF Turn
<1> QED
  BY <1>1, <1>2 DEF DoCreateTable, Created, Changed

LEMMA DropTurn ==
  ASSUME NEW s, NEW sch, NEW mm, mm.pc = 1, mm.schema = sch, IsMachine(mm)
  PROVE  Turn(compile_drop(s), mm) = Changed(mm, Dropped(sch, s.table))
<1> DEFINE op == [op |-> "DropTable", table |-> s.table]
<1>1. /\ DOMAIN compile_drop(s) = 1 .. 2 /\ compile_drop(s)[1] = op
      /\ op.op = "DropTable" /\ op.table = s.table
  BY DEF compile_drop
<1> HIDE DEF op
<1>2. Turn(compile_drop(s), mm) = DoDropTable(mm, op)
  BY <1>1 DEF Turn
<1> QED
  BY <1>1, <1>2 DEF DoDropTable, Dropped, Changed

-----------------------------------------------------------------------------
(* Any program of a valid statement.                                        *)

\* the columns that the program of a SELECT fetches
Wanted(s, sch) == Emitted(Fetching(s), sch[s.from].columns)

State(s, sch, mm) ==
  CASE s.kind = "select" -> ScanState(mm, s.from, Wanted(s, sch), sch)
    [] s.kind = "insert" -> InsertState(mm, s.table, s.values, sch)
    [] s.kind = "create" -> ChangeState(mm, sch, Created(sch, s.table, s.columns))
    [] s.kind = "drop"   -> ChangeState(mm, sch, Dropped(sch, s.table))

Left(s, sch, mm) ==
  CASE s.kind = "select" -> ScanLeft(mm, Len(Wanted(s, sch)), Lines(sch[s.from].rows))
    [] s.kind = "insert" -> InsertLeft(mm, Len(s.values))
    [] s.kind = "create" -> ChangeLeft(mm)
    [] s.kind = "drop"   -> ChangeLeft(mm)

Sound(s, sch) == IsStatement(s) /\ IsSchema(sch) /\ Rectangular(sch) /\ Valid(s, sch)

(* Position finds a column that has the name, if there is one.              *)
LEMMA PositionFinds ==
  ASSUME NEW columns \in Seq(Names), NEW name, HasColumn(columns, name)
  PROVE  /\ Position(columns, name) \in 1 .. Len(columns)
         /\ columns[Position(columns, name)] = name
<1> DEFINE S == {i \in 1 .. Len(columns) : columns[i] = name}
<1>1. Len(columns) \in Nat /\ DOMAIN columns = 1 .. Len(columns)
  BY LenProperties
<1>2. S \in SUBSET Nat /\ S # {}
  BY <1>1 DEF HasColumn
<1>3. PICK i \in S : \A j \in S : i <= j
  <2> HIDE DEF S
  <2> QED
    BY <1>2, LeastExists
<1>4. \A j \in 1 .. i - 1 : columns[j] # name
  BY <1>1, <1>3
<1>5. i \in DOMAIN columns /\ columns[i] = name
  BY <1>1
<1>6. \E k \in DOMAIN columns : columns[k] = name /\ \A j \in 1 .. k - 1 : columns[j] # name
  BY <1>4, <1>5
<1> QED
  BY <1>1, <1>6 DEF Position

(* What SELECT emits are positions of columns of the table.                 *)
LEMMA EmittedAreColumns ==
  ASSUME NEW s, NEW sch, IsSchema(sch), SelectCompiles(s, sch),
         s.all \/ s.columns \in Seq(Names)
  PROVE  LET columns == sch[s.from].columns
             C == Emitted(s, columns)
         IN /\ C \in Seq(1 .. Len(columns))
            /\ Len(C) \in Nat /\ DOMAIN C = 1 .. Len(C)
            /\ \A j \in 1 .. Len(C) : C[j] \in 1 .. Len(columns)
<1> DEFINE columns == sch[s.from].columns
           C == Emitted(s, columns)
<1>1. columns \in Seq(Names)
  BY DEF IsSchema, SelectCompiles
<1> HIDE DEF columns
<1>2. Len(columns) \in Nat /\ DOMAIN columns = 1 .. Len(columns)
  BY <1>1, LenProperties
<1>3. C \in Seq(1 .. Len(columns))
  <2>1. CASE s.all
    <3>1. C = [i \in 1 .. Len(columns) |-> i]
      BY <1>2, <2>1 DEF Emitted
    <3>2. C \in [1 .. Len(columns) -> 1 .. Len(columns)]
      BY <3>1
    <3> QED
      BY <1>2, <3>2, SeqDef
  <2>2. CASE ~s.all
    <3>1. Len(s.columns) \in Nat /\ DOMAIN s.columns = 1 .. Len(s.columns)
      BY <2>2, LenProperties
    <3>2. C = [i \in 1 .. Len(s.columns) |-> Position(columns, s.columns[i])]
      BY <2>2, <3>1 DEF Emitted
    <3>3. \A i \in 1 .. Len(s.columns) : Position(columns, s.columns[i]) \in 1 .. Len(columns)
      <4> TAKE i \in 1 .. Len(s.columns)
      <4>1. HasColumn(columns, s.columns[i])
        BY <2>2, <3>1 DEF SelectCompiles, columns
      <4> QED
        BY <1>1, <4>1, PositionFinds
    <3>4. C \in [1 .. Len(s.columns) -> 1 .. Len(columns)]
      BY <3>2, <3>3
    <3> QED
      BY <3>1, <3>4, SeqDef
  <2> QED
    BY <2>1, <2>2
<1> HIDE DEF C
<1>4. Len(C) \in Nat /\ DOMAIN C = 1 .. Len(C)
  BY <1>3, LenProperties
<1>5. \A j \in 1 .. Len(C) : C[j] \in 1 .. Len(columns)
  BY <1>3, <1>4, ElementOfSeq
<1> QED
  BY <1>3, <1>4, <1>5 DEF C, columns

(* What a valid SELECT fetches and what it emits.                           *)
LEMMA SelectContext ==
  ASSUME NEW s, NEW sch, Sound(s, sch), IsSelect(s)
  PROVE  /\ ScanContext(s.from, Wanted(s, sch), sch)
         /\ IsScan(Program(s, sch), s.from, Wanted(s, sch))
<1> DEFINE f == Fetching(s)
           columns == sch[s.from].columns
           rows == sch[s.from].rows
           C == Wanted(s, sch)
<1>1. /\ s.kind = "select" /\ DOMAIN s = {"kind", "all", "columns", "from", "where"}
      /\ s.columns \in Seq(Names)
  BY DEF Sound, IsStatement, IsSelect
<1>2. SelectCompiles(s, sch)
  BY <1>1 DEF Sound, Valid, Compiles
<1>3. f.from = s.from /\ f.kind = "select" /\ (f.all \/ f = s)
  BY <1>1 DEF Fetching
<1> HIDE DEF f
<1>4. SelectCompiles(f, sch) /\ (f.all \/ f.columns \in Seq(Names))
  BY <1>1, <1>2, <1>3 DEF SelectCompiles
<1>5. IsSchema(sch)
  BY DEF Sound
<1>6. C = Emitted(f, sch[f.from].columns)
  BY <1>3 DEF Wanted, f
<1>7. Len(C) \in Nat /\ \A j \in 1 .. Len(C) : C[j] \in 1 .. Len(columns)
  BY <1>3, <1>4, <1>5, <1>6, EmittedAreColumns
<1>8. IsScan(compile_select(f, sch), s.from, C)
  BY <1>3, <1>6, <1>7, ScanShape
<1>9. Program(s, sch) = compile_select(f, sch)
  BY <1>3 DEF Program, compile_stmt, f
<1>10. s.from \in DOMAIN sch /\ rows \in Seq(Seq(Values))
  BY <1>2, <1>5 DEF SelectCompiles, IsSchema
<1>11. \A i \in 1 .. Len(rows) : Len(rows[i]) = Len(columns)
  <2>1. DOMAIN rows = 1 .. Len(rows)
    BY <1>10, LenProperties
  <2> QED
    BY <1>10, <2>1 DEF Sound, Rectangular
<1>12. ScanContext(s.from, C, sch)
  BY <1>7, <1>10, <1>11 DEF ScanContext
<1> QED
  BY <1>8, <1>9, <1>12

LEMMA InsertContextHolds ==
  ASSUME NEW s, NEW sch, Sound(s, sch), s.kind = "insert"
  PROVE  /\ InsertContext(s.table, s.values, sch)
         /\ IsInsert(Program(s, sch), s.table, s.values)
         /\ s.values \in Seq(Values)
<1>1. s.values \in Seq(Values \cup {Identifier})
  BY DEF Sound, IsStatement
<1>2. InsertCompiles(s, sch)
  BY DEF Sound, Valid, Compiles
<1>3. Len(s.values) \in Nat /\ s.values \in [1 .. Len(s.values) -> Values \cup {Identifier}]
  BY <1>1, LenProperties
<1>4. s.values = [i \in 1 .. Len(s.values) |-> s.values[i]]
  BY <1>3
<1>5. s.values \in [1 .. Len(s.values) -> Values]
  BY <1>2, <1>3 DEF InsertCompiles
<1>6. s.values \in Seq(Values)
  BY <1>3, <1>5, SeqDef
<1>7. Program(s, sch) = compile_insert(s)
  BY DEF Program, compile_stmt, Fetching, Filtered, IsSelect
<1> QED
  BY <1>2, <1>3, <1>4, <1>6, <1>7, InsertShape DEF InsertContext, InsertCompiles

(* A machine on its way never leaves its program, and its rows and schema   *)
(* keep their types.                                                        *)
LEMMA StateFacts ==
  ASSUME NEW s, NEW sch, Sound(s, sch), NEW mm, State(s, sch, mm)
  PROVE  /\ mm.status \in {"running", "done"}
         /\ mm.pc \in DOMAIN Program(s, sch)
         /\ mm.rows \in Seq(Seq(Values))
<1>1. CASE s.kind = "select"
  <2>1. ScanState(mm, s.from, Wanted(s, sch), sch)
    BY <1>1 DEF State
  <2>2. IsScan(Program(s, sch), s.from, Wanted(s, sch))
    BY <1>1, SelectContext DEF IsSelect
  <2> QED
    BY <2>1, <2>2 DEF ScanState, IsScan, Emitting
<1>2. CASE s.kind = "insert"
  <2>1. InsertState(mm, s.table, s.values, sch)
    BY <1>2 DEF State
  <2>2. IsInsert(Program(s, sch), s.table, s.values)
    BY <1>2, InsertContextHolds
  <2> QED
    BY <2>1, <2>2 DEF InsertState, IsInsert
<1>3. CASE s.kind \in {"create", "drop"}
  <2>1. mm.status \in {"running", "done"} /\ mm.pc \in {1, 2} /\ mm.rows = <<>>
    BY <1>3 DEF State, ChangeState
  <2>2. DOMAIN Program(s, sch) = 1 .. 2
    BY <1>3 DEF Program, Fetching, Filtered, IsSelect, compile_stmt, compile_create,
                compile_drop
  <2> QED
    BY <2>1, <2>2
<1> QED
  BY <1>1, <1>2, <1>3 DEF Sound, IsStatement

LEMMA MachineStep ==
  ASSUME NEW s, NEW sch, Sound(s, sch), NEW mm, State(s, sch, mm), mm.status = "running"
  PROVE  /\ State(s, sch, Turn(Program(s, sch), mm))
         /\ Left(s, sch, Turn(Program(s, sch), mm)) = Left(s, sch, mm) - 1
<1> DEFINE mn == Turn(Program(s, sch), mm)
<1>1. CASE s.kind = "select"
  <2>1. ScanState(mm, s.from, Wanted(s, sch), sch)
    BY <1>1 DEF State
  <2>2. /\ IsScan(Program(s, sch), s.from, Wanted(s, sch))
        /\ ScanContext(s.from, Wanted(s, sch), sch)
    BY <1>1, SelectContext DEF IsSelect
  <2>3. /\ ScanState(mn, s.from, Wanted(s, sch), sch)
        /\ ScanLeft(mn, Len(Wanted(s, sch)), Lines(sch[s.from].rows))
             = ScanLeft(mm, Len(Wanted(s, sch)), Lines(sch[s.from].rows)) - 1
    BY <2>1, <2>2, ScanStep
  <2> QED
    BY <1>1, <2>3 DEF State, Left
<1>2. CASE s.kind = "insert"
  <2>1. InsertState(mm, s.table, s.values, sch)
    BY <1>2 DEF State
  <2>2. /\ IsInsert(Program(s, sch), s.table, s.values)
        /\ InsertContext(s.table, s.values, sch)
    BY <1>2, InsertContextHolds
  <2>3. /\ InsertState(mn, s.table, s.values, sch)
        /\ InsertLeft(mn, Len(s.values)) = InsertLeft(mm, Len(s.values)) - 1
    BY <2>1, <2>2, InsertStep
  <2> QED
    BY <1>2, <2>3 DEF State, Left
<1>3. CASE s.kind = "create"
  <2> DEFINE new == Created(sch, s.table, s.columns)
  <2>1. ChangeState(mm, sch, new)
    BY <1>3 DEF State
  <2>2. Program(s, sch) = compile_create(s)
    BY <1>3 DEF Program, Fetching, Filtered, IsSelect, compile_stmt
  <2>3. DOMAIN compile_create(s) = 1 .. 2 /\ compile_create(s)[2] = [op |-> "Halt"]
    BY DEF compile_create
  <2>4. mm.pc = 1 => Turn(compile_create(s), mm) = Changed(mm, new)
    <3>1. IsMachine(mm) /\ (mm.pc = 1 => mm.schema = sch)
      BY <2>1 DEF ChangeState
    <3> QED
      BY <3>1, CreateTurn
  <2> DEFINE prog == compile_create(s)
  <2> HIDE DEF new, prog
  <2>5. ChangeState(Turn(prog, mm), sch, new)
        /\ ChangeLeft(Turn(prog, mm)) = ChangeLeft(mm) - 1
    BY <2>1, <2>3, <2>4, ChangeStep DEF prog
  <2> QED
    BY <1>3, <2>2, <2>5 DEF State, Left, new, prog
<1>4. CASE s.kind = "drop"
  <2> DEFINE new == Dropped(sch, s.table)
  <2>1. ChangeState(mm, sch, new)
    BY <1>4 DEF State
  <2>2. Program(s, sch) = compile_drop(s)
    BY <1>4 DEF Program, Fetching, Filtered, IsSelect, compile_stmt
  <2>3. DOMAIN compile_drop(s) = 1 .. 2 /\ compile_drop(s)[2] = [op |-> "Halt"]
    BY DEF compile_drop
  <2>4. mm.pc = 1 => Turn(compile_drop(s), mm) = Changed(mm, new)
    <3>1. IsMachine(mm) /\ (mm.pc = 1 => mm.schema = sch)
      BY <2>1 DEF ChangeState
    <3> QED
      BY <3>1, DropTurn
  <2> DEFINE prog == compile_drop(s)
  <2> HIDE DEF new, prog
  <2>5. ChangeState(Turn(prog, mm), sch, new)
        /\ ChangeLeft(Turn(prog, mm)) = ChangeLeft(mm) - 1
    BY <2>1, <2>3, <2>4, ChangeStep DEF prog
  <2> QED
    BY <1>4, <2>2, <2>5 DEF State, Left, new, prog
<1> QED
  BY <1>1, <1>2, <1>3, <1>4 DEF Sound, IsStatement

(* A machine has no turns left exactly when it has halted.                  *)
LEMMA LeftIsCount ==
  ASSUME NEW s, NEW sch, Sound(s, sch), NEW mm, State(s, sch, mm)
  PROVE  /\ Left(s, sch, mm) \in Nat
         /\ Left(s, sch, mm) = 0 <=> mm.status = "done"
<1>1. CASE s.kind = "select"
  <2> DEFINE C == Wanted(s, sch)
             rows == sch[s.from].rows
             K == Len(C)
             M == Lines(rows)
             n == ScanLeft(mm, K, M)
  <2>1. ScanState(mm, s.from, C, sch)
    BY <1>1 DEF State
  <2>2. ScanContext(s.from, C, sch)
    BY <1>1, SelectContext DEF IsSelect
  <2> HIDE DEF C
  <2>3. K \in Nat
    BY <2>2 DEF ScanContext
  <2>4. M \in Nat /\ M >= 1
    BY <2>2, ContextFacts
  <2>5. mm.pc \in 1 .. K + 5 /\ mm.status \in {"running", "done"} /\ ScanPlace(mm, rows, C)
    BY <2>1 DEF ScanState
  <2> HIDE DEF rows, M, K
  <2>6. \A p \in 1 .. M : (M - p) * (K + 3) \in Nat
    BY <2>3, <2>4, LinesLeft
  <2>7. n \in Nat /\ (n = 0 <=> mm.status = "done")
    <3>1. CASE mm.status = "done"
      BY <3>1 DEF ScanLeft
    <3>2. CASE mm.status # "done" /\ mm.pc = 1
      <4>1. n = M * (K + 3) + 1
        BY <2>3, <3>2 DEF ScanLeft
      <4>2. M * (K + 3) \in Nat
        BY <2>3, <2>4
      <4> HIDE DEF n
      <4> QED
        BY <3>2, <4>1, <4>2
    <3>3. CASE mm.status # "done" /\ mm.pc \in 2 .. K + 3
      <4>1. n = (M - mm.pos) * (K + 3) + (K + 5 - mm.pc)
        BY <2>3, <3>3 DEF ScanLeft
      <4>2. mm.pos \in 1 .. M
        BY <2>3, <2>5, <3>3 DEF ScanPlace, K, M
      <4>3. (M - mm.pos) * (K + 3) \in Nat
        BY <2>6, <4>2
      <4> HIDE DEF n
      <4> QED
        BY <2>3, <3>3, <4>1, <4>3
    <3>4. CASE mm.status # "done" /\ mm.pc = K + 4
      <4>1. n = (M - mm.pos + 1) * (K + 3) + 1
        BY <2>3, <3>4 DEF ScanLeft
      <4>2. mm.pos \in 2 .. M
        BY <2>3, <2>5, <3>4 DEF ScanPlace, K, M
      <4>3. (M - mm.pos + 1) * (K + 3) \in Nat
        <5>1. M - (mm.pos - 1) = M - mm.pos + 1 /\ mm.pos - 1 \in 1 .. M
          BY <2>4, <4>2
        <5> QED
          BY <2>6, <5>1
      <4> HIDE DEF n
      <4> QED
        BY <3>4, <4>1, <4>3
    <3>5. CASE mm.status # "done" /\ mm.pc = K + 5
      <4>1. n = 1
        BY <2>3, <3>5 DEF ScanLeft
      <4> QED
        BY <3>5, <4>1
    <3>6. mm.pc = 1 \/ mm.pc \in 2 .. K + 3 \/ mm.pc = K + 4 \/ mm.pc = K + 5
      BY <2>3, <2>5
    <3> QED
      BY <3>1, <3>2, <3>3, <3>4, <3>5, <3>6
  <2> QED
    BY <1>1, <2>7 DEF Left, C, K, M, rows
<1>2. CASE s.kind = "insert"
  <2>1. InsertState(mm, s.table, s.values, sch)
    BY <1>2 DEF State
  <2>2. Len(s.values) \in Nat
    BY <1>2, InsertContextHolds DEF InsertContext
  <2>3. InsertLeft(mm, Len(s.values)) \in Nat
        /\ (InsertLeft(mm, Len(s.values)) = 0 <=> mm.status = "done")
    BY <2>1, <2>2 DEF InsertState, InsertLeft
  <2> QED
    BY <1>2, <2>3 DEF Left
<1>3. CASE s.kind \in {"create", "drop"}
  <2>1. mm.status \in {"running", "done"} /\ mm.pc \in {1, 2}
    BY <1>3 DEF State, ChangeState
  <2>2. ChangeLeft(mm) \in Nat /\ (ChangeLeft(mm) = 0 <=> mm.status = "done")
    BY <2>1 DEF ChangeLeft
  <2> QED
    BY <1>3, <2>2 DEF Left
<1> QED
  BY <1>1, <1>2, <1>3 DEF Sound, IsStatement

(* How it starts.                                                           *)
LEMMA Starts ==
  ASSUME NEW s, NEW sch, Sound(s, sch)
  PROVE  /\ State(s, sch, Started(Program(s, sch), sch))
         /\ Turns(s, sch) \in Nat
         /\ Left(s, sch, Started(Program(s, sch), sch)) <= Turns(s, sch)
<1> DEFINE prog == Program(s, sch)
           mm == Started(prog, sch)
<1>1. CASE s.kind = "select"
  <2> DEFINE C == Wanted(s, sch)
             rows == sch[s.from].rows
             K == Len(C)
             N == Len(rows)
             M == Lines(rows)
  <2>1. ScanContext(s.from, C, sch) /\ IsScan(prog, s.from, C)
    BY <1>1, SelectContext DEF IsSelect
  <2> HIDE DEF C, prog
  <2>2. K \in Nat
    BY <2>1 DEF ScanContext
  <2>3. Registers(prog) = 1 .. K
    BY <2>1, <2>2, ScanRegisters
  <2>4. /\ mm.pc = 1 /\ mm.rows = <<>> /\ mm.schema = sch /\ mm.status = "running"
        /\ IsRegisters(mm.regs, K) /\ IsMachine(mm)
    BY <2>2, <2>3, StartedMachine
  <2> HIDE DEF mm
  <2>5. ScanState(mm, s.from, C, sch)
    <3>1. Emitting(mm, rows, C)
      BY <2>4 DEF Emitting
    <3>2. ScanPlace(mm, rows, C)
      BY <2>2, <2>4 DEF ScanPlace
    <3> QED
      BY <2>2, <2>4, <3>1, <3>2 DEF ScanState
  <2>6. N \in Nat /\ M = IF N = 0 THEN 1 ELSE N
    BY <2>1, ContextFacts DEF Lines
  <2>7. ScanLeft(mm, K, M) = M * (K + 3) + 1
    BY <2>4 DEF ScanLeft
  <2>8. Turns(s, sch) = (K + 5) * (N + 1)
    BY <1>1, <2>1 DEF Turns, IsSelect, IsScan, prog
  <2> HIDE DEF K, N, M
  <2>9. (K + 5) * (N + 1) \in Nat /\ M * (K + 3) + 1 <= (K + 5) * (N + 1)
    <3>1. (K + 5) * (N + 1) = (K + 3) * (N + 1) + 2 * (N + 1)
      BY <2>2, <2>6
    <3>2. M \in Nat /\ M <= N + 1
      BY <2>6
    <3>3. \A x, y, z \in Nat : x <= y => x * z <= z * y
      OBVIOUS
    <3>4. M * (K + 3) <= (K + 3) * (N + 1)
      BY <2>2, <2>6, <3>2, <3>3
    <3>5. M * (K + 3) \in Nat /\ (K + 3) * (N + 1) \in Nat
      BY <2>2, <2>6, <3>2
    <3> QED
      BY <2>6, <3>1, <3>4, <3>5
  <2> QED
    BY <1>1, <2>5, <2>7, <2>8, <2>9 DEF State, Left, mm, prog, C, K, M, rows
<1>2. CASE s.kind = "insert"
  <2> DEFINE K == Len(s.values)
  <2>1. InsertContext(s.table, s.values, sch) /\ IsInsert(prog, s.table, s.values)
    BY <1>2, InsertContextHolds
  <2> HIDE DEF prog
  <2>2. K \in Nat
    BY <2>1 DEF InsertContext
  <2>3. Registers(prog) = 1 .. K
    BY <2>1, <2>2, InsertRegisters
  <2>4. /\ mm.pc = 1 /\ mm.rows = <<>> /\ mm.schema = sch /\ mm.status = "running"
        /\ IsRegisters(mm.regs, K) /\ IsMachine(mm)
    BY <2>2, <2>3, StartedMachine
  <2> HIDE DEF mm
  <2>5. InsertState(mm, s.table, s.values, sch)
    BY <2>2, <2>4 DEF InsertState
  <2>6. InsertLeft(mm, K) = K + 3
    BY <2>2, <2>4 DEF InsertLeft
  <2>7. Turns(s, sch) = (K + 3) * 1
    BY <1>2, <2>1 DEF Turns, IsSelect, IsInsert, prog
  <2> QED
    BY <1>2, <2>2, <2>5, <2>6, <2>7 DEF State, Left, mm, prog
<1>3. CASE s.kind \in {"create", "drop"}
  <2>1. mm.pc = 1 /\ mm.rows = <<>> /\ mm.schema = sch /\ mm.status = "running" /\ IsMachine(mm)
    BY DEF Started, IsMachine
  <2>2. prog = IF s.kind = "create" THEN compile_create(s) ELSE compile_drop(s)
    BY <1>3 DEF Program, Fetching, Filtered, IsSelect, compile_stmt
  <2>3. Len(prog) = 2
    BY <2>2 DEF compile_create, compile_drop
  <2>4. Turns(s, sch) = 2
    BY <1>3, <2>3 DEF Turns, IsSelect
  <2> HIDE DEF mm
  <2>5. \A new : ChangeState(mm, sch, new)
    BY <2>1 DEF ChangeState
  <2>6. ChangeLeft(mm) = 2
    BY <2>1 DEF ChangeLeft
  <2> QED
    <3>1. State(s, sch, mm)
      BY <1>3, <2>5 DEF State
    <3>2. Left(s, sch, mm) = 2
      BY <1>3, <2>6 DEF Left
    <3> QED
      BY <2>4, <3>1, <3>2 DEF mm
<1> QED
  BY <1>1, <1>2, <1>3 DEF Sound, IsStatement

-----------------------------------------------------------------------------
(* exec.  Its recursive function exists, and follows the machine from turn  *)
(* to turn until it halts.                                                  *)

Stepped(prog, m) == IF m.status = "running" THEN Turn(prog, m) ELSE m

IsRun(f, prog, sch, n) ==
  f = [i \in 0 .. n |-> IF i = 0 THEN Started(prog, sch) ELSE Stepped(prog, f[i - 1])]

LEMMA RunExists ==
  ASSUME NEW prog, NEW sch, NEW n \in Nat
  PROVE  \E f : IsRun(f, prog, sch, n)
<1> DEFINE S == {k \in Nat : \E f : IsRun(f, prog, sch, k)}
<1>1. 0 \in S
  <2> DEFINE g == [i \in 0 .. 0 |-> Started(prog, sch)]
  <2>1. g = [i \in 0 .. 0 |-> IF i = 0 THEN Started(prog, sch) ELSE Stepped(prog, g[i - 1])]
    OBVIOUS
  <2> HIDE DEF g
  <2>2. IsRun(g, prog, sch, 0)
    BY <2>1 DEF IsRun
  <2> QED
    BY <2>2
<1>2. ASSUME NEW k \in 1 .. n, k - 1 \in S
      PROVE  k \in S
  <2>1. PICK f : IsRun(f, prog, sch, k - 1)
    BY <1>2
  <2> DEFINE g == [i \in 0 .. k |-> IF i = 0 THEN Started(prog, sch)
                                             ELSE Stepped(prog, f[i - 1])]
  <2>2. ASSUME NEW i \in 0 .. k - 1
        PROVE  g[i] = f[i]
    <3>1. f = [q \in 0 .. k - 1 |-> IF q = 0 THEN Started(prog, sch)
                                            ELSE Stepped(prog, f[q - 1])]
      BY <2>1, Zenon DEF IsRun
    <3>2. f[i] = IF i = 0 THEN Started(prog, sch) ELSE Stepped(prog, f[i - 1])
      BY <3>1, Zenon
    <3>3. i \in 0 .. k
      OBVIOUS
    <3> QED
      BY <3>2, <3>3, Zenon
  <2>3. \A i \in 0 .. k : i # 0 => i - 1 \in 0 .. k - 1
    OBVIOUS
  <2>4. \A i \in 0 .. k : g[i] = IF i = 0 THEN Started(prog, sch) ELSE Stepped(prog, g[i - 1])
    <3> TAKE i \in 0 .. k
    <3>1. g[i] = IF i = 0 THEN Started(prog, sch) ELSE Stepped(prog, f[i - 1])
      BY Zenon
    <3>2. i # 0 => g[i - 1] = f[i - 1]
      BY <2>2, <2>3, Zenon
    <3> HIDE DEF g
    <3> QED
      BY <3>1, <3>2, Zenon
  <2>5. g = [i \in 0 .. k |-> g[i]]
    OBVIOUS
  <2> HIDE DEF g
  <2>6. IsRun(g, prog, sch, k)
    BY <2>4, <2>5, Zenon DEF IsRun
  <2> QED
    BY <2>6
<1> HIDE DEF S
<1>3. \A k \in 0 .. n : k \in S
  BY <1>1, <1>2, UpTo
<1> QED
  BY <1>3 DEF S

LEMMA ExecIsRun ==
  ASSUME NEW prog, NEW sch, NEW n \in Nat
  PROVE  \E f : IsRun(f, prog, sch, n) /\ exec(prog, sch, n) = f[n]
<1> DEFINE f == CHOOSE g : IsRun(g, prog, sch, n)
<1>1. IsRun(f, prog, sch, n)
  BY RunExists, Zenon
<1>2. exec(prog, sch, n) = f[n]
  BY Zenon DEF exec, IsRun, Stepped
<1> QED
  BY <1>1, <1>2

LEMMA ExecEnds ==
  ASSUME NEW s, NEW sch, Sound(s, sch)
  PROVE  LET mm == exec(Program(s, sch), sch, Turns(s, sch))
         IN State(s, sch, mm) /\ mm.status = "done"
<1> DEFINE prog == Program(s, sch)
           n == Turns(s, sch)
<1>1. n \in Nat /\ State(s, sch, Started(prog, sch)) /\ Left(s, sch, Started(prog, sch)) <= n
  BY Starts
<1>2. PICK f : IsRun(f, prog, sch, n) /\ exec(prog, sch, n) = f[n]
  BY <1>1, ExecIsRun
<1>3. /\ f[0] = Started(prog, sch)
      /\ \A i \in 1 .. n : f[i] = Stepped(prog, f[i - 1])
  BY <1>1, <1>2 DEF IsRun
<1> DEFINE S == {k \in Nat : State(s, sch, f[k]) /\ Left(s, sch, f[k]) <= n - k}
<1> HIDE DEF n, prog
<1>4. 0 \in S
  BY <1>1, <1>3
<1>5. ASSUME NEW k \in 1 .. n, k - 1 \in S
      PROVE  k \in S
  <2> DEFINE mm == f[k - 1]
  <2>1. State(s, sch, mm) /\ Left(s, sch, mm) <= n - (k - 1)
    BY <1>5
  <2>2. f[k] = Stepped(prog, mm)
    BY <1>3
  <2> HIDE DEF mm
  <2>3. Left(s, sch, mm) \in Nat /\ (Left(s, sch, mm) = 0 <=> mm.status = "done")
        /\ mm.status \in {"running", "done"}
    BY <2>1, LeftIsCount, StateFacts
  <2>4. CASE mm.status = "running"
    <3>1. /\ State(s, sch, Turn(prog, mm))
          /\ Left(s, sch, Turn(prog, mm)) = Left(s, sch, mm) - 1
      BY <2>1, <2>4, MachineStep DEF prog
    <3>2. f[k] = Turn(prog, mm)
      BY <2>2, <2>4 DEF Stepped
    <3>3. State(s, sch, f[k]) /\ Left(s, sch, f[k]) = Left(s, sch, mm) - 1
      BY <3>1, <3>2
    <3>4. Left(s, sch, f[k]) <= n - k
      BY <1>1, <2>1, <2>3, <3>3
    <3> QED
      BY <3>3, <3>4
  <2>5. CASE mm.status = "done"
    <3>1. f[k] = mm
      BY <2>2, <2>5 DEF Stepped
    <3>2. State(s, sch, f[k]) /\ Left(s, sch, f[k]) = 0
      BY <2>1, <2>3, <2>5, <3>1
    <3>3. Left(s, sch, f[k]) <= n - k
      BY <1>1, <3>2
    <3> QED
      BY <3>2, <3>3
  <2> QED
    BY <2>3, <2>4, <2>5
<1>6. n \in S
  <2> HIDE DEF S
  <2>1. \A k \in 0 .. n : k \in S
    BY <1>1, <1>4, <1>5, UpTo
  <2> QED
    BY <1>1, <2>1
<1>7. Left(s, sch, f[n]) = 0
  BY <1>1, <1>6, LeftIsCount
<1>8. State(s, sch, f[n]) /\ f[n].status = "done"
  BY <1>6, <1>7, LeftIsCount
<1> QED
  BY <1>2, <1>8 DEF n, prog

-----------------------------------------------------------------------------
(* The WHERE clause: a chain of AND or OR is a quantifier over its parts    *)
(* where it is true, whatever it makes of NULL.                             *)

Truth == {0, 1, Null}

IsChain(f, op, value, n) ==
  f = [i \in 1 .. n |-> IF i = 1 THEN value[1] ELSE eval_binary(op, f[i - 1], value[i])]

LEMMA ChainExists ==
  ASSUME NEW op, NEW value, NEW n \in Nat
  PROVE  \E f : IsChain(f, op, value, n)
<1> DEFINE S == {k \in Nat : \E f : IsChain(f, op, value, k)}
<1>1. 0 \in S
  <2> DEFINE g == [i \in 1 .. 0 |-> value[1]]
  <2>1. g = [i \in 1 .. 0 |-> IF i = 1 THEN value[1] ELSE eval_binary(op, g[i - 1], value[i])]
    OBVIOUS
  <2> HIDE DEF g
  <2>2. IsChain(g, op, value, 0)
    BY <2>1 DEF IsChain
  <2> QED
    BY <2>2
<1>2. ASSUME NEW k \in 1 .. n, k - 1 \in S
      PROVE  k \in S
  <2>1. PICK f : IsChain(f, op, value, k - 1)
    BY <1>2
  <2> DEFINE g == [i \in 1 .. k |-> IF i = 1 THEN value[1]
                                             ELSE eval_binary(op, f[i - 1], value[i])]
  <2>2. ASSUME NEW i \in 1 .. k - 1
        PROVE  g[i] = f[i]
    <3>1. f = [q \in 1 .. k - 1 |-> IF q = 1 THEN value[1]
                                            ELSE eval_binary(op, f[q - 1], value[q])]
      BY <2>1, Zenon DEF IsChain
    <3>2. f[i] = IF i = 1 THEN value[1] ELSE eval_binary(op, f[i - 1], value[i])
      BY <3>1, Zenon
    <3>3. i \in 1 .. k
      OBVIOUS
    <3> QED
      BY <3>2, <3>3, Zenon
  <2>3. \A i \in 1 .. k : i # 1 => i - 1 \in 1 .. k - 1
    OBVIOUS
  <2>4. \A i \in 1 .. k : g[i] = IF i = 1 THEN value[1]
                                          ELSE eval_binary(op, g[i - 1], value[i])
    <3> TAKE i \in 1 .. k
    <3>1. g[i] = IF i = 1 THEN value[1] ELSE eval_binary(op, f[i - 1], value[i])
      BY Zenon
    <3>2. i # 1 => g[i - 1] = f[i - 1]
      BY <2>2, <2>3, Zenon
    <3> HIDE DEF g
    <3> QED
      BY <3>1, <3>2, Zenon
  <2>5. g = [i \in 1 .. k |-> g[i]]
    OBVIOUS
  <2> HIDE DEF g
  <2>6. IsChain(g, op, value, k)
    BY <2>4, <2>5, Zenon DEF IsChain
  <2> QED
    BY <2>6
<1> HIDE DEF S
<1>3. \A k \in 0 .. n : k \in S
  BY <1>1, <1>2, UpTo
<1> QED
  BY <1>3 DEF S

LEMMA ChainIs ==
  ASSUME NEW op, NEW value, NEW n \in Nat, DOMAIN value = 1 .. n, Len(value) = n
  PROVE  \E f : IsChain(f, op, value, n) /\ Chain(op, value) = f[n]
<1> DEFINE f == CHOOSE g : IsChain(g, op, value, n)
<1>1. IsChain(f, op, value, n)
  BY ChainExists, Zenon
<1>2. Chain(op, value) = f[n]
  BY Zenon DEF Chain, IsChain
<1> QED
  BY <1>1, <1>2

LEMMA ChainMeaning ==
  ASSUME NEW value, NEW n \in Nat \ {0}, DOMAIN value = 1 .. n, Len(value) = n,
         \A i \in 1 .. n : value[i] \in Truth
  PROVE  /\ Chain("AND", value) \in Truth
         /\ Chain("AND", value) = 1 <=> \A i \in 1 .. n : value[i] = 1
         /\ Chain("OR", value) = 1 <=> \E i \in 1 .. n : value[i] = 1
<1>0. Null \notin {0, 1}
  BY MarkersAssumption
<1>1. /\ Chain("AND", value) \in Truth
      /\ Chain("AND", value) = 1 <=> \A i \in 1 .. n : value[i] = 1
  <2>1. PICK f : IsChain(f, "AND", value, n) /\ Chain("AND", value) = f[n]
    BY ChainIs
  <2>2. /\ f[1] = value[1]
        /\ \A i \in 2 .. n : f[i] = eval_and(f[i - 1], value[i])
    BY <2>1 DEF IsChain, eval_binary
  <2> DEFINE S == {k \in Nat : k # 0 => /\ f[k] \in Truth
                                        /\ f[k] = 1 <=> \A i \in 1 .. k : value[i] = 1}
  <2>3. 0 \in S
    OBVIOUS
  <2>4. ASSUME NEW k \in 1 .. n, k - 1 \in S
        PROVE  k \in S
    <3>1. CASE k = 1
      BY <2>2, <3>1
    <3>2. CASE k # 1
      <4>1. /\ f[k - 1] \in Truth
            /\ f[k - 1] = 1 <=> \A i \in 1 .. k - 1 : value[i] = 1
        BY <2>4, <3>2
      <4>2. f[k] = eval_and(f[k - 1], value[k])
        BY <2>2, <3>2
      <4>3. f[k] \in Truth /\ (f[k] = 1 <=> f[k - 1] = 1 /\ value[k] = 1)
        BY <1>0, <4>1, <4>2 DEF eval_and, Truth, Bit
      <4>4. \A i \in 1 .. k : i \in 1 .. k - 1 \/ i = k
        OBVIOUS
      <4>5. \A i \in 1 .. k - 1 : i \in 1 .. k
        OBVIOUS
      <4>6. k \in 1 .. k
        OBVIOUS
      <4>7. f[k] = 1 <=> \A i \in 1 .. k : value[i] = 1
        BY <4>1, <4>3, <4>4, <4>5, <4>6, Zenon
      <4> QED
        BY <4>3, <4>7
    <3> QED
      BY <3>1, <3>2
  <2> HIDE DEF S
  <2>5. \A k \in 0 .. n : k \in S
    BY <2>3, <2>4, UpTo
  <2>6. n \in S
    BY <2>5
  <2> QED
    BY <2>1, <2>6 DEF S
<1>2. Chain("OR", value) = 1 <=> \E i \in 1 .. n : value[i] = 1
  <2>1. PICK f : IsChain(f, "OR", value, n) /\ Chain("OR", value) = f[n]
    BY ChainIs
  <2>2. /\ f[1] = value[1]
        /\ \A i \in 2 .. n : f[i] = eval_or(f[i - 1], value[i])
    BY <2>1 DEF IsChain, eval_binary
  <2> DEFINE S == {k \in Nat : k # 0 => /\ f[k] \in Truth
                                        /\ f[k] = 1 <=> \E i \in 1 .. k : value[i] = 1}
  <2>3. 0 \in S
    OBVIOUS
  <2>4. ASSUME NEW k \in 1 .. n, k - 1 \in S
        PROVE  k \in S
    <3>1. CASE k = 1
      BY <2>2, <3>1
    <3>2. CASE k # 1
      <4>1. /\ f[k - 1] \in Truth
            /\ f[k - 1] = 1 <=> \E i \in 1 .. k - 1 : value[i] = 1
        BY <2>4, <3>2
      <4>2. f[k] = eval_or(f[k - 1], value[k])
        BY <2>2, <3>2
      <4>3. f[k] \in Truth /\ (f[k] = 1 <=> f[k - 1] = 1 \/ value[k] = 1)
        BY <1>0, <4>1, <4>2 DEF eval_or, Truth, Bit
      <4>4. \A i \in 1 .. k : i \in 1 .. k - 1 \/ i = k
        OBVIOUS
      <4>5. \A i \in 1 .. k - 1 : i \in 1 .. k
        OBVIOUS
      <4>6. k \in 1 .. k
        OBVIOUS
      <4>7. f[k] = 1 <=> \E i \in 1 .. k : value[i] = 1
        BY <4>1, <4>3, <4>4, <4>5, <4>6, Zenon
      <4> QED
        BY <4>3, <4>7
    <3> QED
      BY <3>1, <3>2
  <2> HIDE DEF S
  <2>5. \A k \in 0 .. n : k \in S
    BY <2>3, <2>4, UpTo
  <2>6. n \in S
    BY <2>5
  <2> QED
    BY <2>1, <2>6 DEF S
<1> QED
  BY <1>1, <1>2

(* A comparison is true of two values that are not NULL.                    *)
LEMMA CmpMeaning ==
  ASSUME NEW cmp, NEW columns, HasColumn(columns, cmp.column), NEW row
  PROVE  LET v == row[Position(columns, cmp.column)] IN
         /\ EvalCmp(cmp, columns, row) \in Truth
         /\ EvalCmp(cmp, columns, row) = 1
              <=> v # Null /\ cmp.value # Null /\ Holds(cmp.op, v, cmp.value)
<1> DEFINE v == row[Position(columns, cmp.column)]
<1>1. EvalCmp(cmp, columns, row) = eval_cmp(cmp.op, v, cmp.value)
  BY DEF EvalCmp, lookup
<1> HIDE DEF v
<1>2. Null \notin {0, 1}
  BY MarkersAssumption
<1>3. /\ eval_cmp(cmp.op, v, cmp.value) \in Truth
      /\ eval_cmp(cmp.op, v, cmp.value) = 1
           <=> v # Null /\ cmp.value # Null /\ Holds(cmp.op, v, cmp.value)
  <2> DEFINE h == Holds(cmp.op, v, cmp.value)
  <2>1. eval_cmp(cmp.op, v, cmp.value)
          = IF v = Null \/ cmp.value = Null THEN Null ELSE IF h THEN 1 ELSE 0
    BY DEF eval_cmp, Bit
  <2>2. 0 # 1 /\ Null # 1
    BY <1>2
  <2>3. h => eval_cmp(cmp.op, v, cmp.value) = IF v = Null \/ cmp.value = Null THEN Null ELSE 1
    BY <2>1, Zenon
  <2>4. ~h => eval_cmp(cmp.op, v, cmp.value) = IF v = Null \/ cmp.value = Null THEN Null ELSE 0
    BY <2>1, Zenon
  <2>5. eval_cmp(cmp.op, v, cmp.value) = 1 <=> v # Null /\ cmp.value # Null /\ h
    BY <2>2, <2>3, <2>4, Zenon
  <2> QED
    BY <2>3, <2>4, <2>5, Zenon DEF Truth
<1> QED
  BY <1>1, <1>3 DEF v

(* The rows that run_select keeps are those that satisfy the clause.        *)
LEMMA EvalIsSatisfies ==
  ASSUME NEW where \in Seq(Seq(Comparisons) \ {<<>>}), where # <<>>,
         NEW columns, validate_where_tree(where, columns), NEW row
  PROVE  eval(where, columns, row) = 1 <=> Satisfies(where, columns, row)
<1> DEFINE n == Len(where)
           ands == [i \in DOMAIN where |-> EvalAnds(where[i], columns, row)]
           Both(i) == \A j \in DOMAIN where[i] :
                        LET cmp == where[i][j]
                            v == row[Position(columns, cmp.column)]
                        IN v # Null /\ cmp.value # Null /\ Holds(cmp.op, v, cmp.value)
<1>1. n \in Nat \ {0} /\ DOMAIN where = 1 .. n
  BY LenProperties, EmptySeq
<1>2. ASSUME NEW i \in 1 .. n
      PROVE  /\ EvalAnds(where[i], columns, row) \in Truth
             /\ EvalAnds(where[i], columns, row) = 1 <=> Both(i)
  <2> DEFINE cmps == where[i]
             k == Len(cmps)
             value == [j \in DOMAIN cmps |-> EvalCmp(cmps[j], columns, row)]
  <2>1. cmps \in Seq(Comparisons) /\ cmps # <<>>
    BY <1>1
  <2>2. k \in Nat \ {0} /\ DOMAIN cmps = 1 .. k
    BY <2>1, LenProperties, EmptySeq
  <2>3. \A j \in 1 .. k : HasColumn(columns, cmps[j].column)
    BY <1>1, <2>2 DEF validate_where_tree
  <2>4. DOMAIN value = 1 .. k /\ Len(value) = k
    BY <2>2
  <2>5. \A j \in 1 .. k : value[j] = EvalCmp(cmps[j], columns, row)
    BY <2>2
  <2>6. EvalAnds(cmps, columns, row) = Chain("AND", value)
    BY DEF EvalAnds
  <2> HIDE DEF cmps, k, value
  <2>7. \A j \in 1 .. k :
          LET v == row[Position(columns, cmps[j].column)] IN
          /\ value[j] \in Truth
          /\ value[j] = 1
               <=> v # Null /\ cmps[j].value # Null /\ Holds(cmps[j].op, v, cmps[j].value)
    BY <2>3, <2>5, CmpMeaning
  <2>8. \A j \in 1 .. k : value[j] \in Truth
    BY <2>7
  <2>9. /\ Chain("AND", value) \in Truth
        /\ Chain("AND", value) = 1 <=> \A j \in 1 .. k : value[j] = 1
    BY <2>2, <2>4, <2>8, ChainMeaning
  <2>10. (\A j \in 1 .. k : value[j] = 1) <=> Both(i)
    BY <2>2, <2>7, Zenon DEF cmps
  <2> QED
    BY <2>6, <2>9, <2>10 DEF cmps
<1>3. DOMAIN ands = 1 .. n /\ Len(ands) = n
  BY <1>1
<1>4. \A i \in 1 .. n : ands[i] = EvalAnds(where[i], columns, row)
  BY <1>1
<1>5. eval(where, columns, row) = Chain("OR", ands)
  BY DEF eval
<1>6. Satisfies(where, columns, row) <=> \E i \in 1 .. n : Both(i)
  BY <1>1 DEF Satisfies
<1> HIDE DEF ands, n, Both
<1>7. \A i \in 1 .. n : ands[i] \in Truth
  BY <1>2, <1>4
<1>8. Chain("OR", ands) = 1 <=> \E i \in 1 .. n : ands[i] = 1
  BY <1>1, <1>3, <1>7, ChainMeaning
<1> QED
  BY <1>2, <1>4, <1>5, <1>6, <1>8

-----------------------------------------------------------------------------
(* The rows that are kept, by their places.                                 *)

\* how many of the places are not behind k
Rank(S, k) == Cardinality({j \in S : j <= k})

LEMMA RankCounts ==
  ASSUME NEW N \in Nat, NEW S \in SUBSET (1 .. N)
  PROVE  /\ Rank(S, 0) = 0
         /\ Rank(S, N) = Cardinality(S)
         /\ \A k \in 0 .. N : Rank(S, k) \in Nat
         /\ \A k \in 1 .. N : Rank(S, k) = Rank(S, k - 1) + (IF k \in S THEN 1 ELSE 0)
<1> DEFINE Below(k) == {j \in S : j <= k}
<1>0. \A j \in S : j \in Nat /\ 1 <= j /\ j <= N
  OBVIOUS
<1>1. IsFiniteSet(S)
  <2>1. IsFiniteSet(1 .. N)
    BY FS_Interval
  <2> QED
    BY <2>1, FS_Subset
<1>2. \A k \in 0 .. N : IsFiniteSet(Below(k)) /\ Rank(S, k) \in Nat
  <2> TAKE k \in 0 .. N
  <2>1. Below(k) \in SUBSET S
    OBVIOUS
  <2>2. IsFiniteSet(Below(k))
    BY <1>1, <2>1, FS_Subset
  <2> HIDE DEF Below
  <2>3. Cardinality(Below(k)) \in Nat
    BY <2>2, FS_CardinalityType
  <2> QED
    BY <2>2, <2>3 DEF Rank, Below
<1>3. Below(0) = {} /\ Below(N) = S
  <2>1. \A j \in S : ~(j <= 0) /\ j <= N
    BY <1>0
  <2> QED
    BY <2>1, Zenon
<1>4. ASSUME NEW k \in 1 .. N
      PROVE  Rank(S, k) = Rank(S, k - 1) + (IF k \in S THEN 1 ELSE 0)
  <2>1. k - 1 \in 0 .. N
    OBVIOUS
  <2>2. IsFiniteSet(Below(k - 1)) /\ Cardinality(Below(k - 1)) \in Nat
    BY <1>2, <2>1 DEF Rank
  <2>3. CASE k \in S
    <3>1. Below(k) = Below(k - 1) \cup {k} /\ k \notin Below(k - 1)
      <4>1. \A j \in S : j <= k <=> j <= k - 1 \/ j = k
        BY <1>0
      <4>2. ~(k <= k - 1)
        OBVIOUS
      <4> QED
        BY <2>3, <4>1, <4>2, Zenon
    <3> HIDE DEF Below
    <3>2. Cardinality(Below(k)) = Cardinality(Below(k - 1)) + 1
      BY <2>2, <3>1, FS_AddElement
    <3> QED
      BY <2>3, <3>2 DEF Rank, Below
  <2>4. CASE k \notin S
    <3>1. Below(k) = Below(k - 1)
      <4>1. \A j \in S : j <= k <=> j <= k - 1
        BY <1>0, <2>4
      <4> QED
        BY <4>1, Zenon
    <3> HIDE DEF Below
    <3>2. Cardinality(Below(k)) = Cardinality(Below(k - 1)) + 0
      BY <2>2, <3>1
    <3> QED
      BY <2>4, <3>2 DEF Rank, Below
  <2> QED
    BY <2>3, <2>4
<1>5. Rank(S, 0) = 0 /\ Rank(S, N) = Cardinality(S)
  BY <1>3, FS_EmptySet DEF Rank
<1> QED
  BY <1>2, <1>4, <1>5

(* Each number up to the size of the set is the rank of a member of it.     *)
LEMMA NthFinds ==
  ASSUME NEW N \in Nat, NEW S \in SUBSET (1 .. N), NEW q \in 1 .. Cardinality(S)
  PROVE  Nth(S, q) \in S /\ Rank(S, Nth(S, q)) = q
<1>1. /\ Rank(S, 0) = 0
      /\ Rank(S, N) = Cardinality(S)
      /\ \A k \in 0 .. N : Rank(S, k) \in Nat
      /\ \A k \in 1 .. N : Rank(S, k) = Rank(S, k - 1) + (IF k \in S THEN 1 ELSE 0)
  BY RankCounts
<1> DEFINE T == {k \in Nat : \A r \in 1 .. Rank(S, k) : \E i \in S : Rank(S, i) = r}
<1>2. 0 \in T
  BY <1>1
<1>3. ASSUME NEW k \in 1 .. N, k - 1 \in T
      PROVE  k \in T
  <2>1. \A r \in 1 .. Rank(S, k - 1) : \E i \in S : Rank(S, i) = r
    BY <1>3
  <2>2. CASE k \in S
    <3>1. Rank(S, k) = Rank(S, k - 1) + 1 /\ Rank(S, k - 1) \in Nat
      BY <1>1, <2>2
    <3>2. \A r \in 1 .. Rank(S, k) : r \in 1 .. Rank(S, k - 1) \/ r = Rank(S, k)
      BY <3>1
    <3>3. \A r \in 1 .. Rank(S, k) : \E i \in S : Rank(S, i) = r
      BY <2>1, <2>2, <3>2
    <3> QED
      BY <3>3
  <2>3. CASE k \notin S
    <3>1. Rank(S, k) = Rank(S, k - 1)
      BY <1>1, <2>3
    <3> QED
      BY <2>1, <3>1
  <2> QED
    BY <2>2, <2>3
<1> HIDE DEF T
<1>4. \A k \in 0 .. N : k \in T
  BY <1>2, <1>3, UpTo
<1>5. \E i \in S : Rank(S, i) = q
  BY <1>1, <1>4 DEF T
<1> QED
  BY <1>5 DEF Nth, Rank

IsKept(f, stmt, columns, raw, n) ==
  f = [i \in 0 .. n |->
         IF i = 0 THEN <<>>
         ELSE IF eval(stmt.where, columns, raw[i]) = 1
              THEN Append(f[i - 1], Projected(stmt, columns, raw[i]))
              ELSE f[i - 1]]

LEMMA KeptExists ==
  ASSUME NEW stmt, NEW columns, NEW raw, NEW n \in Nat
  PROVE  \E f : IsKept(f, stmt, columns, raw, n)
<1> DEFINE add(before, i) == IF eval(stmt.where, columns, raw[i]) = 1
                             THEN Append(before, Projected(stmt, columns, raw[i]))
                             ELSE before
           S == {k \in Nat : \E f : IsKept(f, stmt, columns, raw, k)}
<1>0. \A f, k : IsKept(f, stmt, columns, raw, k)
                  <=> f = [i \in 0 .. k |-> IF i = 0 THEN <<>> ELSE add(f[i - 1], i)]
  BY DEF IsKept
<1> HIDE DEF add
<1>1. 0 \in S
  <2> DEFINE g == [i \in 0 .. 0 |-> <<>>]
  <2>1. g = [i \in 0 .. 0 |-> IF i = 0 THEN <<>> ELSE add(g[i - 1], i)]
    OBVIOUS
  <2> HIDE DEF g
  <2>2. IsKept(g, stmt, columns, raw, 0)
    BY <1>0, <2>1
  <2> QED
    BY <2>2
<1>2. ASSUME NEW k \in 1 .. n, k - 1 \in S
      PROVE  k \in S
  <2>1. PICK f : IsKept(f, stmt, columns, raw, k - 1)
    BY <1>2
  <2> DEFINE g == [i \in 0 .. k |-> IF i = 0 THEN <<>> ELSE add(f[i - 1], i)]
  <2>2. ASSUME NEW i \in 0 .. k - 1
        PROVE  g[i] = f[i]
    <3>1. f = [q \in 0 .. k - 1 |-> IF q = 0 THEN <<>> ELSE add(f[q - 1], q)]
      BY <1>0, <2>1, Zenon
    <3>2. f[i] = IF i = 0 THEN <<>> ELSE add(f[i - 1], i)
      BY <3>1, Zenon
    <3>3. i \in 0 .. k
      OBVIOUS
    <3> QED
      BY <3>2, <3>3, Zenon
  <2>3. \A i \in 0 .. k : i # 0 => i - 1 \in 0 .. k - 1
    OBVIOUS
  <2>4. \A i \in 0 .. k : g[i] = IF i = 0 THEN <<>> ELSE add(g[i - 1], i)
    <3> TAKE i \in 0 .. k
    <3>1. g[i] = IF i = 0 THEN <<>> ELSE add(f[i - 1], i)
      BY Zenon
    <3>2. i # 0 => g[i - 1] = f[i - 1]
      BY <2>2, <2>3, Zenon
    <3> HIDE DEF g
    <3> QED
      BY <3>1, <3>2, Zenon
  <2>5. g = [i \in 0 .. k |-> g[i]]
    OBVIOUS
  <2> HIDE DEF g
  <2>6. IsKept(g, stmt, columns, raw, k)
    <3>1. g = [i \in 0 .. k |-> IF i = 0 THEN <<>> ELSE add(g[i - 1], i)]
      BY <2>4, <2>5, Zenon
    <3> QED
      BY <1>0, <3>1
  <2> QED
    BY <2>6
<1> HIDE DEF S
<1>3. \A k \in 0 .. n : k \in S
  BY <1>1, <1>2, UpTo
<1> QED
  BY <1>3 DEF S

LEMMA KeptIs ==
  ASSUME NEW stmt, NEW columns, NEW raw, Len(raw) \in Nat
  PROVE  \E f : IsKept(f, stmt, columns, raw, Len(raw)) /\ Kept(stmt, columns, raw) = f[Len(raw)]
<1> DEFINE f == CHOOSE g : IsKept(g, stmt, columns, raw, Len(raw))
<1>1. IsKept(f, stmt, columns, raw, Len(raw))
  BY KeptExists, Zenon
<1>2. Kept(stmt, columns, raw) = f[Len(raw)]
  BY Zenon DEF Kept, IsKept
<1> QED
  BY <1>1, <1>2

(* run_select's loop keeps the rows that satisfy the clause, in order.      *)
Passing(stmt, columns, raw) == {i \in 1 .. Len(raw) : Satisfies(stmt.where, columns, raw[i])}

LEMMA KeptArePassing ==
  ASSUME NEW stmt, stmt.where \in Seq(Seq(Comparisons) \ {<<>>}), stmt.where # <<>>,
         NEW columns, validate_where_tree(stmt.where, columns),
         NEW raw, Len(raw) \in Nat,
         \A i \in 1 .. Len(raw) : Projected(stmt, columns, raw[i]) \in Seq(Values)
  PROVE  /\ Kept(stmt, columns, raw) \in Seq(Seq(Values))
         /\ Kept(stmt, columns, raw)
              = [q \in 1 .. Cardinality(Passing(stmt, columns, raw)) |->
                   Projected(stmt, columns, raw[Nth(Passing(stmt, columns, raw), q)])]
<1> DEFINE N == Len(raw)
           S == Passing(stmt, columns, raw)
           P(i) == Projected(stmt, columns, raw[i])
<1>1. N \in Nat /\ S \in SUBSET (1 .. N)
  BY DEF Passing
<1>2. PICK f : IsKept(f, stmt, columns, raw, N) /\ Kept(stmt, columns, raw) = f[N]
  BY KeptIs
<1>3. ASSUME NEW i \in 1 .. N
      PROVE  eval(stmt.where, columns, raw[i]) = 1 <=> i \in S
  <2>1. eval(stmt.where, columns, raw[i]) = 1 <=> Satisfies(stmt.where, columns, raw[i])
    BY EvalIsSatisfies
  <2> QED
    BY <2>1 DEF Passing
<1>4. /\ f[0] = <<>>
      /\ \A i \in 1 .. N : f[i] = IF i \in S THEN Append(f[i - 1], P(i)) ELSE f[i - 1]
  <2>1. f = [i \in 0 .. N |-> IF i = 0 THEN <<>>
                              ELSE IF eval(stmt.where, columns, raw[i]) = 1
                                   THEN Append(f[i - 1], P(i)) ELSE f[i - 1]]
    BY <1>2, Zenon DEF IsKept
  <2> HIDE DEF P, S
  <2>2. \A i \in 0 .. N : f[i] = IF i = 0 THEN <<>>
                                 ELSE IF eval(stmt.where, columns, raw[i]) = 1
                                      THEN Append(f[i - 1], P(i)) ELSE f[i - 1]
    BY <2>1, Zenon
  <2>3. 0 \in 0 .. N /\ \A i \in 1 .. N : i \in 0 .. N /\ i # 0
    BY <1>1
  <2> QED
    BY <1>3, <2>2, <2>3, Zenon
<1>5. \A i \in 1 .. N : P(i) \in Seq(Values)
  OBVIOUS
<1> HIDE DEF P, S, N
<1>6. /\ Rank(S, 0) = 0
      /\ Rank(S, N) = Cardinality(S)
      /\ \A k \in 0 .. N : Rank(S, k) \in Nat
      /\ \A k \in 1 .. N : Rank(S, k) = Rank(S, k - 1) + (IF k \in S THEN 1 ELSE 0)
  BY <1>1, RankCounts
<1> DEFINE T == {k \in Nat :
                   /\ f[k] \in Seq(Seq(Values)) /\ Len(f[k]) = Rank(S, k)
                   /\ \A i \in S : i <= k => /\ Rank(S, i) \in 1 .. Rank(S, k)
                                             /\ f[k][Rank(S, i)] = P(i)}
<1>7. 0 \in T
  <2>1. \A i \in S : ~(i <= 0)
    BY <1>1
  <2>2. f[0] \in Seq(Seq(Values)) /\ Len(f[0]) = 0
    BY <1>4
  <2> QED
    BY <1>6, <2>1, <2>2
<1>8. ASSUME NEW k \in 1 .. N, k - 1 \in T
      PROVE  k \in T
  <2> DEFINE old == f[k - 1]
             new == f[k]
             r == Rank(S, k - 1)
  <2>1. /\ old \in Seq(Seq(Values)) /\ Len(old) = r
        /\ \A i \in S : i <= k - 1 => Rank(S, i) \in 1 .. r /\ old[Rank(S, i)] = P(i)
    BY <1>8
  <2>2. new = IF k \in S THEN Append(old, P(k)) ELSE old
    BY <1>4
  <2>3. r \in Nat /\ Rank(S, k) = r + (IF k \in S THEN 1 ELSE 0)
    BY <1>1, <1>6
  <2>4. \A i \in S : i <= k => i <= k - 1 \/ i = k
    BY <1>1
  <2>5. P(k) \in Seq(Values)
    BY <1>5
  <2> HIDE DEF old, new, r
  <2>6. CASE k \in S
    <3>1. /\ new \in Seq(Seq(Values)) /\ Len(new) = r + 1
          /\ \A q \in 1 .. r : new[q] = old[q]
          /\ new[r + 1] = P(k)
      <4>1. new = Append(old, P(k))
        BY <2>2, <2>6
      <4>2. /\ Append(old, P(k)) \in Seq(Seq(Values))
            /\ Len(Append(old, P(k))) = Len(old) + 1
            /\ \A q \in 1 .. Len(old) : Append(old, P(k))[q] = old[q]
            /\ Append(old, P(k))[Len(old) + 1] = P(k)
        BY <2>1, <2>5, AppendProperties
      <4> QED
        BY <2>1, <4>1, <4>2
    <3>2. Rank(S, k) = r + 1
      BY <2>3, <2>6
    <3>3. ASSUME NEW i \in S, i <= k
          PROVE  Rank(S, i) \in 1 .. r + 1 /\ new[Rank(S, i)] = P(i)
      <4>1. CASE i <= k - 1
        BY <2>1, <2>3, <3>1, <4>1
      <4>2. CASE i = k
        BY <2>3, <3>1, <3>2, <4>2
      <4> QED
        BY <2>4, <3>3, <4>1, <4>2
    <3> QED
      BY <3>1, <3>2, <3>3 DEF new
  <2>7. CASE k \notin S
    <3>1. new = old /\ Rank(S, k) = r
      BY <2>2, <2>3, <2>7
    <3>2. \A i \in S : i <= k => i <= k - 1
      BY <2>4, <2>7
    <3> QED
      BY <2>1, <3>1, <3>2 DEF new
  <2> QED
    BY <2>6, <2>7
<1>9. N \in T
  <2> HIDE DEF T
  <2>1. \A k \in 0 .. N : k \in T
    BY <1>1, <1>7, <1>8, UpTo
  <2> QED
    BY <1>1, <2>1
<1> DEFINE out == f[N]
           n == Cardinality(S)
<1>10. out \in Seq(Seq(Values)) /\ Len(out) = n
       /\ \A i \in S : out[Rank(S, i)] = P(i)
  BY <1>1, <1>6, <1>9
<1> HIDE DEF out, n
<1>11. \A q \in 1 .. n : Nth(S, q) \in S /\ Rank(S, Nth(S, q)) = q
  BY <1>1, NthFinds DEF n
<1>12. \A q \in 1 .. n : out[q] = P(Nth(S, q))
  BY <1>10, <1>11
<1>13. out = [q \in 1 .. n |-> out[q]]
  BY <1>10, LenProperties
<1>14. out = [q \in 1 .. n |-> P(Nth(S, q))]
  BY <1>12, <1>13, Zenon
<1> QED
  BY <1>2, <1>10, <1>14 DEF out, n, P, S

-----------------------------------------------------------------------------
(* What a SELECT answers is what it denotes.                                *)

\* without a clause, the places are all of them
LEMMA NthOfAll ==
  ASSUME NEW N \in Nat
  PROVE  Cardinality(1 .. N) = N /\ \A q \in 1 .. N : Nth(1 .. N, q) = q
<1>1. Cardinality(1 .. N) = N
  BY FS_Interval
<1>2. \A i \in 1 .. N : Rank(1 .. N, i) = i
  <2> TAKE i \in 1 .. N
  <2>1. {j \in 1 .. N : j <= i} = 1 .. i
    OBVIOUS
  <2>2. Cardinality(1 .. i) = i
    BY FS_Interval
  <2> QED
    BY <2>1, <2>2 DEF Rank
<1>3. ASSUME NEW q \in 1 .. N
      PROVE  Nth(1 .. N, q) = q
  <2> DEFINE S == 1 .. N
  <2>1. S \in SUBSET (1 .. N) /\ q \in 1 .. Cardinality(S)
    BY <1>1
  <2> HIDE DEF S
  <2>2. Nth(S, q) \in S /\ Rank(S, Nth(S, q)) = q
    BY <2>1, NthFinds
  <2> QED
    BY <1>2, <2>2 DEF S
<1> QED
  BY <1>1, <1>3

\* what the clause and the columns of a valid SELECT refer to
LEMMA SelectFacts ==
  ASSUME NEW s, NEW sch, Sound(s, sch), IsSelect(s)
  PROVE  LET columns == sch[s.from].columns
             rows == sch[s.from].rows
             E == Emitted(s, columns)
         IN /\ columns \in Seq(Names) /\ Len(columns) \in Nat /\ DOMAIN columns = 1 .. Len(columns)
            /\ rows \in Seq(Seq(Values)) /\ Len(rows) \in Nat /\ DOMAIN rows = 1 .. Len(rows)
            /\ \A i \in 1 .. Len(rows) : Len(rows[i]) = Len(columns)
            /\ Len(E) \in Nat /\ DOMAIN E = 1 .. Len(E)
            /\ \A j \in 1 .. Len(E) : E[j] \in 1 .. Len(columns)
            /\ s.where \in Seq(Seq(Comparisons) \ {<<>>})
            /\ s.where # <<>> => validate_where_tree(s.where, columns)
            /\ Wanted(s, sch) = IF s.where = <<>> THEN E ELSE [i \in 1 .. Len(columns) |-> i]
<1> DEFINE columns == sch[s.from].columns
           rows == sch[s.from].rows
           E == Emitted(s, columns)
<1>1. /\ s.kind = "select" /\ DOMAIN s = {"kind", "all", "columns", "from", "where"}
      /\ s.columns \in Seq(Names) /\ s.where \in Seq(Seq(Comparisons) \ {<<>>})
  BY DEF Sound, IsStatement, IsSelect
<1>2. SelectCompiles(s, sch) /\ IsSchema(sch)
  BY <1>1 DEF Sound, Valid, Compiles
<1>3. Len(E) \in Nat /\ DOMAIN E = 1 .. Len(E) /\ \A j \in 1 .. Len(E) : E[j] \in 1 .. Len(columns)
  BY <1>1, <1>2, EmittedAreColumns
<1>4. columns \in Seq(Names) /\ rows \in Seq(Seq(Values))
  BY <1>2 DEF SelectCompiles, IsSchema
<1>5. /\ Len(columns) \in Nat /\ DOMAIN columns = 1 .. Len(columns)
      /\ Len(rows) \in Nat /\ DOMAIN rows = 1 .. Len(rows)
  BY <1>4, LenProperties
<1>6. \A i \in 1 .. Len(rows) : Len(rows[i]) = Len(columns)
  BY <1>2, <1>5 DEF Sound, Rectangular, SelectCompiles
<1>7. s.where # <<>> => validate_where_tree(s.where, columns)
  BY DEF Sound, Valid, Filtered
<1>8. Wanted(s, sch) = IF s.where = <<>> THEN E ELSE [i \in 1 .. Len(columns) |-> i]
  <2>1. CASE s.where = <<>>
    BY <2>1 DEF Wanted, Fetching, Filtered
  <2>2. CASE s.where # <<>>
    <3>1. Fetching(s).all
      BY <1>1, <2>2 DEF Fetching, Filtered, IsSelect
    <3> QED
      BY <1>5, <2>2, <3>1 DEF Wanted, Emitted
  <2> QED
    BY <2>1, <2>2
<1> QED
  BY <1>1, <1>3, <1>4, <1>5, <1>6, <1>7, <1>8

\* a row of NULLs satisfies no clause
LEMMA NullsFail ==
  ASSUME NEW where \in Seq(Seq(Comparisons) \ {<<>>}), NEW columns \in Seq(Names),
         validate_where_tree(where, columns), NEW row,
         \A p \in 1 .. Len(columns) : row[p] = Null
  PROVE  ~Satisfies(where, columns, row)
<1> SUFFICES ASSUME NEW i \in DOMAIN where
             PROVE  \E j \in DOMAIN where[i] : row[Position(columns, where[i][j].column)] = Null
  BY DEF Satisfies
<1>1. where[i] \in Seq(Comparisons) /\ where[i] # <<>>
  OBVIOUS
<1>2. 1 \in DOMAIN where[i]
  BY <1>1, LenProperties, EmptySeq
<1>3. HasColumn(columns, where[i][1].column)
  BY <1>2 DEF validate_where_tree
<1>4. Position(columns, where[i][1].column) \in 1 .. Len(columns)
  BY <1>3, PositionFinds
<1> QED
  BY <1>2, <1>4

LEMMA SelectDenotes ==
  ASSUME NEW s, NEW sch, Sound(s, sch), IsSelect(s), NEW mm,
         ScanState(mm, s.from, Wanted(s, sch), sch), mm.status = "done"
  PROVE  LET out == ResultRows(s, sch, mm.rows) IN
         /\ out \in Seq(Seq(Values))
         /\ ~OverNothing(s, sch) => out = Denoted(s, sch)
         /\ \A i \in DOMAIN out : Len(out[i]) = Len(Emitted(s, sch[s.from].columns))
<1> DEFINE columns == sch[s.from].columns
           rows == sch[s.from].rows
           E == Emitted(s, columns)
           C == Wanted(s, sch)
           N == Len(rows)
           W == Len(columns)
           raw == mm.rows
           out == ResultRows(s, sch, raw)
<1> SUFFICES /\ out \in Seq(Seq(Values))
             /\ ~OverNothing(s, sch) => out = Denoted(s, sch)
             /\ \A i \in DOMAIN out : Len(out[i]) = Len(E)
  OBVIOUS
<1>1. /\ columns \in Seq(Names) /\ W \in Nat
      /\ rows \in Seq(Seq(Values)) /\ N \in Nat /\ DOMAIN rows = 1 .. N
      /\ \A i \in 1 .. N : Len(rows[i]) = W
      /\ Len(E) \in Nat /\ DOMAIN E = 1 .. Len(E)
      /\ \A j \in 1 .. Len(E) : E[j] \in 1 .. W
      /\ s.where \in Seq(Seq(Comparisons) \ {<<>>})
      /\ s.where # <<>> => validate_where_tree(s.where, columns)
      /\ C = IF s.where = <<>> THEN E ELSE [i \in 1 .. W |-> i]
  BY SelectFacts
<1>2. Emitting(mm, rows, C) /\ Len(raw) = Lines(rows)
  <2>1. ScanPlace(mm, rows, C) /\ Emitting(mm, rows, C)
    BY DEF ScanState
  <2> QED
    BY <2>1 DEF ScanPlace
<1>3. /\ raw \in Seq(Seq(Values)) /\ DOMAIN raw = 1 .. Lines(rows)
      /\ \A i \in 1 .. Lines(rows) : raw[i] = Line(rows, C, i)
  <2>1. raw \in Seq(Seq(Values)) /\ \A i \in 1 .. Len(raw) : raw[i] = Line(rows, C, i)
    BY <1>2 DEF Emitting
  <2>2. DOMAIN raw = 1 .. Len(raw)
    BY <2>1, LenProperties
  <2> QED
    BY <1>2, <2>1, <2>2
<1>4. Lines(rows) = IF N = 0 THEN 1 ELSE N
  BY <1>1, EmptySeq DEF Lines
<1>5. Denoted(s, sch)
        = [q \in 1 .. Cardinality(Matching(s, sch)) |->
             Projected(s, columns, rows[Nth(Matching(s, sch), q)])]
  BY DEF Denoted
<1>6. out = IF s.where = <<>> THEN raw ELSE Kept(s, columns, raw)
  BY DEF ResultRows, Filtered
<1>7. \A row : Projected(s, columns, row) = [j \in 1 .. Len(E) |-> row[E[j]]]
  BY <1>1 DEF Projected
<1>8. rows = <<>> <=> N = 0
  BY <1>1, EmptySeq
<1> HIDE DEF C, E, columns, raw, N, W, rows
<1>9. CASE s.where = <<>>
  <2>1. C = E /\ out = raw
    BY <1>1, <1>6, <1>9
  <2>2. ASSUME NEW i \in 1 .. Lines(rows)
        PROVE  Len(raw[i]) = Len(E)
    <3>1. raw[i] = [j \in 1 .. Len(E) |-> Cell(rows, E, i, j)]
      BY <1>3, <2>1 DEF Line
    <3> QED
      BY <1>1, <3>1
  <2>3. ASSUME ~OverNothing(s, sch)
        PROVE  raw = Denoted(s, sch)
    <3>1. N # 0 /\ Lines(rows) = N
      BY <1>4, <1>8, <1>9, <2>3 DEF OverNothing, rows
    <3>2. Matching(s, sch) = 1 .. N
      BY <1>1, <1>9 DEF Matching, rows
    <3>3. Cardinality(1 .. N) = N /\ \A q \in 1 .. N : Nth(1 .. N, q) = q
      BY <1>1, NthOfAll
    <3>4. Denoted(s, sch) = [q \in 1 .. N |-> Projected(s, columns, rows[q])]
      BY <1>5, <3>2, <3>3
    <3>5. ASSUME NEW q \in 1 .. N
          PROVE  raw[q] = Projected(s, columns, rows[q])
      <4>1. raw[q] = [j \in 1 .. Len(E) |-> Cell(rows, E, q, j)]
        BY <1>3, <2>1, <3>1 DEF Line
      <4>2. q <= Len(rows)
        BY DEF N
      <4>3. \A j \in 1 .. Len(E) : Cell(rows, E, q, j) = rows[q][E[j]]
        BY <4>2 DEF Cell
      <4> QED
        BY <1>7, <4>1, <4>3
    <3>6. raw = [q \in 1 .. N |-> raw[q]]
      BY <1>3, <3>1
    <3> QED
      BY <3>4, <3>5, <3>6
  <2> QED
    BY <1>3, <2>1, <2>2, <2>3
<1>10. CASE s.where # <<>>
  <2>1. C = [i \in 1 .. W |-> i] /\ out = Kept(s, columns, raw)
    BY <1>1, <1>6, <1>10
  <2>2. ASSUME NEW i \in 1 .. Lines(rows)
        PROVE  /\ raw[i] \in Seq(Values)
               /\ raw[i] = [j \in 1 .. W |-> IF i <= Len(rows) THEN rows[i][j] ELSE Null]
    <3>1. raw[i] \in Seq(Values)
      <4>1. i \in 1 .. Len(raw)
        BY <1>2 DEF raw
      <4> QED
        BY <1>3, <4>1, ElementOfSeq
    <3>2. Len(C) = W
      BY <1>1, <2>1
    <3>3. raw[i] = [j \in 1 .. W |-> Cell(rows, C, i, j)]
      BY <1>3, <3>2 DEF Line
    <3>4. \A j \in 1 .. W : Cell(rows, C, i, j) = IF i <= Len(rows) THEN rows[i][j] ELSE Null
      BY <2>1 DEF Cell
    <3> QED
      BY <3>1, <3>3, <3>4
  <2>3. ASSUME NEW i \in 1 .. Lines(rows)
        PROVE  Projected(s, columns, raw[i]) \in Seq(Values)
    <3>1. raw[i] \in Seq(Values) /\ DOMAIN raw[i] = 1 .. W
      BY <2>2
    <3>2. raw[i] \in [1 .. W -> Values]
      BY <3>1, LenProperties
    <3>3. \A j \in 1 .. Len(E) : raw[i][E[j]] \in Values
      BY <1>1, <3>2
    <3>4. Projected(s, columns, raw[i]) \in [1 .. Len(E) -> Values]
      BY <1>7, <3>3
    <3> DEFINE row == Projected(s, columns, raw[i])
    <3> HIDE DEF row
    <3>5. row \in [1 .. Len(E) -> Values] /\ Len(E) \in Nat
      BY <1>1, <3>4 DEF row
    <3>6. row \in Seq(Values)
      BY <3>5, SeqDef
    <3> QED
      BY <3>6 DEF row
  <2>4. validate_where_tree(s.where, columns)
    BY <1>1, <1>10
  <2>5. Len(raw) \in Nat /\ Len(raw) = Lines(rows)
    BY <1>2, <1>3, LenProperties DEF raw
  <2> DEFINE S == Passing(s, columns, raw)
  <2>6. /\ out \in Seq(Seq(Values))
        /\ out = [q \in 1 .. Cardinality(S) |-> Projected(s, columns, raw[Nth(S, q)])]
    <3>1. Len(raw) \in Nat
          /\ \A i \in 1 .. Len(raw) : Projected(s, columns, raw[i]) \in Seq(Values)
      BY <2>3, <2>5
    <3>2. s.where \in Seq(Seq(Comparisons) \ {<<>>})
      BY <1>1
    <3>3. /\ Kept(s, columns, raw) \in Seq(Seq(Values))
          /\ Kept(s, columns, raw)
               = [q \in 1 .. Cardinality(Passing(s, columns, raw)) |->
                    Projected(s, columns, raw[Nth(Passing(s, columns, raw), q)])]
      BY <1>10, <2>4, <3>1, <3>2, KeptArePassing
    <3> QED
      BY <2>1, <3>3
  <2>7. \A q \in DOMAIN out : Len(out[q]) = Len(E)
    BY <1>1, <1>7, <2>6
  <2>8. out = Denoted(s, sch)
    <3>1. CASE N = 0
      <4>1. Lines(rows) = 1 /\ Matching(s, sch) = {}
        BY <1>1, <1>4, <3>1 DEF Matching, rows
      <4>2. raw[1] = [j \in 1 .. W |-> Null]
        BY <2>2, <3>1, <4>1 DEF N
      <4>3. \A p \in 1 .. Len(columns) : raw[1][p] = Null
        BY <4>2 DEF W
      <4>4. ~Satisfies(s.where, columns, raw[1])
        BY <1>1, <2>4, <4>3, NullsFail
      <4>5. S = {}
        BY <2>5, <4>1, <4>4 DEF Passing
      <4> QED
        BY <1>5, <2>6, <4>1, <4>5, FS_EmptySet
    <3>2. CASE N # 0
      <4>1. Lines(rows) = N
        BY <1>4, <3>2
      <4>2. raw = rows
        <5>1. \A i \in 1 .. N : raw[i] = [j \in 1 .. W |-> rows[i][j]]
          BY <2>2, <4>1 DEF N
        <5>2. \A i \in 1 .. N : rows[i] = [j \in 1 .. W |-> rows[i][j]]
          <6> TAKE i \in 1 .. N
          <6>1. rows[i] \in Seq(Values) /\ Len(rows[i]) = W
            BY <1>1
          <6> QED
            BY <6>1, LenProperties
        <5>3. raw = [i \in 1 .. N |-> raw[i]] /\ rows = [i \in 1 .. N |-> rows[i]]
          BY <1>1, <1>3, <4>1
        <5>4. \A i \in 1 .. N : raw[i] = rows[i]
          BY <5>1, <5>2, Zenon
        <5>5. [i \in 1 .. N |-> raw[i]] = [i \in 1 .. N |-> rows[i]]
          BY <5>4, Zenon
        <5> QED
          BY <5>3, <5>5
      <4>3. Matching(s, sch) = S
        BY <1>1, <1>10, <4>2 DEF Matching, Passing, rows, columns, N
      <4> QED
        BY <1>5, <2>6, <4>2, <4>3
    <3> QED
      BY <3>1, <3>2
  <2> QED
    BY <2>6, <2>7, <2>8
<1> QED
  BY <1>9, <1>10 DEF E, raw

-----------------------------------------------------------------------------
(* What a statement changes.                                                *)

LEMMA InsertedSchema ==
  ASSUME NEW sch, IsSchema(sch), Rectangular(sch), NEW table \in DOMAIN sch,
         NEW V \in Seq(Values), Len(V) = Len(sch[table].columns)
  PROVE  IsSchema(Inserted(sch, table, V)) /\ Rectangular(Inserted(sch, table, V))
<1> DEFINE new == Inserted(sch, table, V)
           old == sch[table]
<1>1. /\ DOMAIN old = {"columns", "rows"} /\ old.columns \in Seq(Names)
      /\ old.rows \in Seq(Seq(Values))
      /\ \A i \in DOMAIN old.rows : Len(old.rows[i]) = Len(old.columns)
  BY DEF IsSchema, Rectangular
<1>2. DOMAIN new = DOMAIN sch /\ \A t \in DOMAIN sch \ {table} : new[t] = sch[t]
  BY DEF Inserted
<1>3. new[table] = [old EXCEPT !.rows = Append(@, V)]
  BY DEF Inserted
<1> HIDE DEF new, old
<1>4. /\ DOMAIN new[table] = {"columns", "rows"} /\ new[table].columns = old.columns
      /\ new[table].rows = Append(old.rows, V)
  BY <1>1, <1>3
<1>5. /\ new[table].rows \in Seq(Seq(Values))
      /\ \A i \in DOMAIN new[table].rows : Len(new[table].rows[i]) = Len(old.columns)
  <2> DEFINE rows == old.rows
             more == Append(rows, V)
  <2>1. /\ more \in Seq(Seq(Values)) /\ Len(more) = Len(rows) + 1
        /\ \A i \in 1 .. Len(rows) : more[i] = rows[i]
        /\ more[Len(rows) + 1] = V
    BY <1>1, AppendProperties
  <2>2. Len(rows) \in Nat /\ DOMAIN rows = 1 .. Len(rows)
    BY <1>1, LenProperties
  <2>3. DOMAIN more = 1 .. Len(rows) + 1
    BY <2>1, LenProperties
  <2>4. Len(V) = Len(old.columns)
    BY DEF old
  <2> HIDE DEF rows, more
  <2>5. ASSUME NEW i \in DOMAIN more
        PROVE  Len(more[i]) = Len(old.columns)
    <3>1. CASE i \in 1 .. Len(rows)
      BY <1>1, <2>1, <2>2, <3>1 DEF rows
    <3>2. CASE i = Len(rows) + 1
      BY <2>1, <2>4, <3>2
    <3> QED
      BY <2>2, <2>3, <3>1, <3>2
  <2> QED
    BY <1>4, <2>1, <2>5 DEF rows, more
<1>6. IsSchema(new)
  BY <1>1, <1>2, <1>4, <1>5 DEF IsSchema
<1>7. Rectangular(new)
  BY <1>2, <1>4, <1>5 DEF Rectangular
<1> QED
  BY <1>6, <1>7 DEF new

LEMMA CreatedSchema ==
  ASSUME NEW sch, IsSchema(sch), Rectangular(sch), NEW table, NEW columns \in Seq(Names)
  PROVE  IsSchema(Created(sch, table, columns)) /\ Rectangular(Created(sch, table, columns))
<1> DEFINE new == Created(sch, table, columns)
<1>1. DOMAIN new = DOMAIN sch \cup {table} /\ \A t \in DOMAIN sch \ {table} : new[t] = sch[t]
  BY DEF Created
<1>2. new[table] = [columns |-> columns, rows |-> <<>>]
  BY DEF Created
<1> HIDE DEF new
<1>3. /\ DOMAIN new[table] = {"columns", "rows"} /\ new[table].columns \in Seq(Names)
      /\ new[table].rows = <<>>
  BY <1>2
<1>4. IsSchema(new)
  <2>1. new[table].rows \in Seq(Seq(Values))
    BY <1>3
  <2> QED
    BY <1>1, <1>3, <2>1 DEF IsSchema
<1>5. Rectangular(new)
  BY <1>1, <1>3 DEF Rectangular
<1> QED
  BY <1>4, <1>5 DEF new

LEMMA DroppedSchema ==
  ASSUME NEW sch, IsSchema(sch), Rectangular(sch), NEW table
  PROVE  IsSchema(Dropped(sch, table)) /\ Rectangular(Dropped(sch, table))
BY DEF Dropped, IsSchema, Rectangular

(* A machine's schema is sound at every turn, and at the end is what the    *)
(* statement should leave.                                                  *)
LEMMA StateEffect ==
  ASSUME NEW s, NEW sch, Sound(s, sch), NEW mm, State(s, sch, mm)
  PROVE  /\ IsSchema(mm.schema) /\ Rectangular(mm.schema)
         /\ mm.status = "done" => Effect(s, sch, mm.schema)
         /\ ~IsSelect(s) => mm.rows = <<>>
<1>0. IsSchema(sch) /\ Rectangular(sch)
  BY DEF Sound
<1>1. CASE s.kind = "select"
  <2>1. mm.schema = sch
    BY <1>1 DEF State, ScanState
  <2> QED
    BY <1>0, <1>1, <2>1 DEF Effect, IsSelect
<1>2. CASE s.kind = "insert"
  <2> DEFINE new == Inserted(sch, s.table, s.values)
  <2>1. InsertState(mm, s.table, s.values, sch)
    BY <1>2 DEF State
  <2>2. (mm.schema = sch \/ mm.schema = new) /\ mm.rows = <<>>
        /\ (mm.status = "done" => mm.schema = new)
    BY <2>1 DEF InsertState
  <2>3. s.values \in Seq(Values) /\ s.table \in DOMAIN sch
    BY <1>2, InsertContextHolds DEF InsertContext
  <2>4. Len(s.values) = Len(sch[s.table].columns)
    BY <1>2 DEF Sound, Valid, Compiles, InsertCompiles
  <2>5. IsSchema(new) /\ Rectangular(new)
    BY <1>0, <2>3, <2>4, InsertedSchema
  <2>6. Effect(s, sch, new)
    BY <1>2 DEF Effect, IsSelect, Inserted
  <2> HIDE DEF new
  <2> QED
    BY <1>0, <2>2, <2>5, <2>6
<1>3. CASE s.kind = "create"
  <2> DEFINE new == Created(sch, s.table, s.columns)
  <2>1. ChangeState(mm, sch, new)
    BY <1>3 DEF State
  <2>2. (mm.schema = sch \/ mm.schema = new) /\ mm.rows = <<>>
        /\ (mm.status = "done" => mm.schema = new)
    BY <2>1 DEF ChangeState
  <2>3. s.columns \in Seq(Names)
    BY <1>3 DEF Sound, IsStatement
  <2>4. IsSchema(new) /\ Rectangular(new)
    BY <1>0, <2>3, CreatedSchema
  <2>5. Effect(s, sch, new)
    BY <1>3 DEF Effect, IsSelect, Created
  <2> HIDE DEF new
  <2> QED
    BY <1>0, <2>2, <2>4, <2>5
<1>4. CASE s.kind = "drop"
  <2> DEFINE new == Dropped(sch, s.table)
  <2>1. ChangeState(mm, sch, new)
    BY <1>4 DEF State
  <2>2. (mm.schema = sch \/ mm.schema = new) /\ mm.rows = <<>>
        /\ (mm.status = "done" => mm.schema = new)
    BY <2>1 DEF ChangeState
  <2>3. IsSchema(new) /\ Rectangular(new)
    BY <1>0, DroppedSchema
  <2>4. Effect(s, sch, new)
    BY <1>4 DEF Effect, IsSelect, Dropped
  <2> HIDE DEF new
  <2> QED
    BY <1>0, <2>2, <2>3, <2>4
<1> QED
  BY <1>1, <1>2, <1>3, <1>4 DEF Sound, IsStatement

(* A valid statement run to its end: the schema it leaves is the one it     *)
(* should, and a SELECT returns what it denotes, in rows as wide as its     *)
(* list of columns.                                                         *)
THEOREM RunIsExact ==
  ASSUME NEW s, NEW sch, Sound(s, sch)
  PROVE  /\ Effect(s, sch, Run(s, sch).schema)
         /\ IsSchema(Run(s, sch).schema) /\ Rectangular(Run(s, sch).schema)
         /\ Run(s, sch).rows \in Seq(Seq(Values))
         /\ IsSelect(s) /\ ~OverNothing(s, sch) => Run(s, sch).rows = Denoted(s, sch)
         /\ ~IsSelect(s) => Run(s, sch).rows = <<>>
         /\ IsSelect(s) => \A i \in DOMAIN Run(s, sch).rows :
                             Len(Run(s, sch).rows[i]) = Len(Emitted(s, sch[s.from].columns))
<1> DEFINE mm == exec(Program(s, sch), sch, Turns(s, sch))
           rows == IF IsSelect(s) THEN ResultRows(s, sch, mm.rows) ELSE <<>>
<1>1. State(s, sch, mm) /\ mm.status = "done"
  BY ExecEnds
<1>2. Run(s, sch).schema = mm.schema /\ Run(s, sch).rows = rows
  BY DEF Run
<1> HIDE DEF mm
<1>3. /\ IsSchema(mm.schema) /\ Rectangular(mm.schema)
      /\ Effect(s, sch, mm.schema)
  BY <1>1, StateEffect
<1>4. CASE IsSelect(s)
  <2>1. ScanState(mm, s.from, Wanted(s, sch), sch)
    BY <1>1, <1>4 DEF State, IsSelect
  <2>2. /\ ResultRows(s, sch, mm.rows) \in Seq(Seq(Values))
        /\ ~OverNothing(s, sch) => ResultRows(s, sch, mm.rows) = Denoted(s, sch)
        /\ \A i \in DOMAIN ResultRows(s, sch, mm.rows) :
             Len(ResultRows(s, sch, mm.rows)[i]) = Len(Emitted(s, sch[s.from].columns))
    BY <1>1, <1>4, <2>1, SelectDenotes
  <2> QED
    BY <1>2, <1>3, <1>4, <2>2
<1>5. CASE ~IsSelect(s)
  BY <1>2, <1>3, <1>5
<1> QED
  BY <1>4, <1>5
=============================================================================
