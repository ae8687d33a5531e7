---------------------------- MODULE PanelProofs ----------------------------
(***************************************************************************)
(* Proofs about Panel, for every screen, font, message and set of bitblts. *)
(* That the text lands where it belongs is an induction over the message;  *)
(* what a window receives is an induction over the writes on the bus.      *)
(***************************************************************************)
EXTENDS Panel, FiniteSetTheorems, SequenceTheorems, WellFoundedInduction, TLAPS

-----------------------------------------------------------------------------
(* Arithmetic                                                              *)

LEMMA Products ==
  ASSUME NEW a \in Nat, NEW b \in Nat, NEW c \in Nat, a <= b
  PROVE  a * c \in Nat /\ a * c <= b * c
OBVIOUS

LEMMA DivMod ==
  ASSUME NEW m \in Nat, NEW w \in Nat \ {0}
  PROVE  m \div w \in Nat /\ m % w \in 0 .. w - 1 /\ m = w * (m \div w) + (m % w)
<1>1. m \div w \in Int /\ m % w \in 0 .. w - 1 /\ m = w * (m \div w) + (m % w)
  OBVIOUS
<1> DEFINE q == m \div w
           r == m % w
<1> HIDE DEF q, r
<1>2. q \in Int /\ r \in 0 .. w - 1 /\ m = w * q + r
  BY <1>1 DEF q, r
<1>3. q \in Nat
  BY <1>2
<1> QED
  BY <1>2, <1>3 DEF q, r

\* Quotient and remainder are the only such numbers.
LEMMA DivModIs ==
  ASSUME NEW w \in Nat \ {0}, NEW q \in Nat, NEW r \in 0 .. w - 1,
         NEW m, m = w * q + r
  PROVE  m \in Nat /\ m \div w = q /\ m % w = r
OBVIOUS

-----------------------------------------------------------------------------
(* One write after the other                                               *)

\* Induction on the natural numbers: 0 is in T, and with n also n + 1.
LEMMA Induction ==
  ASSUME NEW T, 0 \in T, \A n \in Nat : n \in T => n + 1 \in T
  PROVE  Nat \subseteq T
<1> DEFINE U == Nat \ T
           R == OpToRel(<, Nat)
<1>1. SUFFICES ASSUME U # {} PROVE FALSE
  OBVIOUS
<1>2. IsWellFoundedOn(R, Nat)
  BY NatLessThanWellFounded
<1>3. U \subseteq Nat
  OBVIOUS
<1>4. PICK x \in U : \A y \in U : ~ (<<y, x>> \in R)
  <2> HIDE DEF U, R
  <2> QED
    BY <1>1, <1>2, <1>3, WFMin
<1>5. \A y \in Nat : y < x => <<y, x>> \in R
  BY DEF OpToRel
<1> HIDE DEF R
<1>6. x # 0 /\ x - 1 \in Nat /\ x - 1 < x
  OBVIOUS
<1>7. x - 1 \in T
  BY <1>4, <1>5, <1>6
<1> QED
  BY <1>6, <1>7

LEMMA InductionTo ==
  ASSUME NEW N \in Nat, NEW T, 0 \in T, \A n \in 1 .. N : n - 1 \in T => n \in T
  PROVE  0 .. N \subseteq T
<1> DEFINE U == {n \in Nat : n <= N => n \in T}
<1>1. 0 \in U
  OBVIOUS
<1>2. ASSUME NEW n \in Nat, n \in U
      PROVE  n + 1 \in U
  <2>1. n + 1 <= N => n + 1 \in 1 .. N /\ (n + 1) - 1 = n /\ n <= N
    OBVIOUS
  <2> QED
    BY <1>2, <2>1
<1>3. Nat \subseteq U
  <2> HIDE DEF U
  <2> QED
    BY <1>1, <1>2, Induction
<1> QED
  BY <1>3

\* f follows the steps G from a.
Stepwise(f, N, a, G) ==
  f[0] = a /\ \A n \in 1 .. N : f[n] = G[n][f[n - 1]]

LEMMA Iterates ==
  ASSUME NEW N, NEW S, NEW a, NEW G,
         N \in Nat, a \in S, G \in [1 .. N -> [S -> S]]
  PROVE  \E f : f \in [0 .. N -> S] /\ Stepwise(f, N, a, G)
<1> DEFINE Follows(f, k) ==
             f[0] = a /\ \A n \in 1 .. k : f[n] = G[n][f[n - 1]]
           T == {k \in 0 .. N : \E f \in [0 .. k -> S] : Follows(f, k)}
<1>1. 0 \in T
  <2> DEFINE f == [n \in 0 .. 0 |-> a]
  <2>1. f \in [0 .. 0 -> S] /\ Follows(f, 0)
    OBVIOUS
  <2> HIDE DEF f
  <2>2. 0 \in 0 .. N
    OBVIOUS
  <2> QED
    BY <2>1, <2>2
<1>2. ASSUME NEW k \in 1 .. N, k - 1 \in T
      PROVE  k \in T
  <2>1. PICK f \in [0 .. k - 1 -> S] : Follows(f, k - 1)
    BY <1>2
  <2> DEFINE g == [n \in 0 .. k |-> IF n = k THEN G[k][f[k - 1]] ELSE f[n]]
  <2>2. f[k - 1] \in S
    BY <2>1
  <2>3. g \in [0 .. k -> S]
    BY <2>1, <2>2
  <2>4. g[0] = a
    BY <2>1
  <2>5. ASSUME NEW n \in 1 .. k
        PROVE  g[n] = G[n][g[n - 1]]
    <3>1. g[n - 1] = f[n - 1]
      OBVIOUS
    <3>2. CASE n = k
      BY <3>1, <3>2
    <3>3. CASE n # k
      <4>1. n \in 1 .. k - 1 /\ g[n] = f[n]
        BY <3>3
      <4> QED
        BY <2>1, <3>1, <4>1
    <3> QED
      BY <3>2, <3>3
  <2> HIDE DEF g
  <2> QED
    BY <2>3, <2>4, <2>5
<1>3. 0 .. N \subseteq T
  <2> HIDE DEF T
  <2> QED
    BY <1>1, <1>2, InductionTo
<1>4. PICK f \in [0 .. N -> S] : Follows(f, N)
  BY <1>3
<1> QED
  BY <1>4 DEF Stepwise

\* The writes on the bus.
Names == {"page", "column", "write"}
Write == [rs : {"command"}, value : Names] \cup [rs : {"data"}, value : Int]

LEMMA CmdIs == ASSUME NEW name \in Names PROVE Cmd(name) \in Write
BY DEF Cmd, Write

LEMMA DataIs == ASSUME NEW v \in Int PROVE Data(v) \in Write
BY DEF Data, Write

LEMMA WordType ==
  /\ Byte \in Nat \ {0} /\ Byte * Byte \in Nat \ {0}
  /\ \A v \in Int : Word16(v) \in Word
  /\ \A v \in Word : v \in Nat /\ Word16(v) = v
<1>1. Byte \in Nat \ {0}
  BY PanelAssumption
<1>2. Byte * Byte \in Nat \ {0}
  BY <1>1
<1> DEFINE BB == Byte * Byte
<1> HIDE DEF BB
<1>3. BB \in Nat \ {0}
  BY <1>2 DEF BB
<1>4. \A v \in Int : v % BB \in 0 .. BB - 1
  BY <1>3
<1>5. \A v \in 0 .. BB - 1 : v \in Nat /\ v % BB = v
  BY <1>3
<1> QED
  BY <1>1, <1>2, <1>4, <1>5 DEF BB, Word16, Word

\* A word put together from two bytes.
LEMMA JoinBytes ==
  ASSUME NEW h \in 0 .. Byte - 1, NEW l \in 0 .. Byte - 1
  PROVE  /\ (h * Byte) + l \in Word
         /\ ((h * Byte) + l) \div Byte = h /\ ((h * Byte) + l) % Byte = l
<1>1. Byte \in Nat \ {0}
  BY WordType
<1> DEFINE m == (h * Byte) + l
<1>2. m = Byte * h + l
  BY <1>1
<1> HIDE DEF m
<1>3. m \in Nat /\ m \div Byte = h /\ m % Byte = l
  BY <1>1, <1>2, DivModIs
<1>4. Byte * h <= Byte * (Byte - 1) /\ Byte * (Byte - 1) = Byte * Byte - Byte
  BY <1>1
<1>5. m <= Byte * Byte - 1
  BY <1>1, <1>2, <1>4
<1> QED
  BY <1>3, <1>5, WordType DEF m, Word

LEMMA Halves ==
  ASSUME NEW v \in Word
  PROVE  /\ v \div Byte \in 0 .. Byte - 1 /\ v % Byte \in 0 .. Byte - 1
         /\ v = ((v \div Byte) * Byte) + (v % Byte)
<1>1. Byte \in Nat \ {0} /\ v \in Nat /\ v <= Byte * Byte - 1
  BY WordType DEF Word
<1> DEFINE q == v \div Byte
           r == v % Byte
<1>2. q \in Nat /\ r \in 0 .. Byte - 1 /\ v = Byte * q + r
  BY <1>1, DivMod
<1> HIDE DEF q, r
<1>3. q <= Byte - 1
  <2>1. SUFFICES ASSUME Byte <= q PROVE FALSE
    BY <1>1, <1>2
  <2>2. Byte * Byte <= q * Byte
    BY <1>1, <1>2, <2>1, Products
  <2> QED
    BY <1>1, <1>2, <2>2
<1> QED
  BY <1>1, <1>2, <1>3 DEF q, r

-----------------------------------------------------------------------------
(* The controller's steps                                                  *)

LEMMA EndsIs ==
  ASSUME NEW e \in Ends
  PROVE  e.first \in Word /\ e.last \in Word /\ e = [first |-> e.first, last |-> e.last]
BY DEF Ends

LEMMA WithParamIs ==
  ASSUME NEW e \in Ends, NEW v \in Int, NEW n \in Nat
  PROVE  /\ WithParam(e, n, v) \in Ends
         /\ WithParam(e, 1, v) = [first |-> ((v % Byte) * Byte) + (e.first % Byte),
                                  last |-> e.last]
         /\ WithParam(e, 2, v) = [first |-> ((e.first \div Byte) * Byte) + (v % Byte),
                                  last |-> e.last]
         /\ WithParam(e, 3, v) = [first |-> e.first,
                                  last |-> ((v % Byte) * Byte) + (e.last % Byte)]
         /\ WithParam(e, 4, v) = [first |-> e.first,
                                  last |-> ((e.last \div Byte) * Byte) + (v % Byte)]
<1>1. /\ e.first \in Word /\ e.last \in Word
      /\ e = [first |-> e.first, last |-> e.last]
  BY EndsIs
<1>2. Byte \in Nat \ {0}
  BY WordType
<1>3. v % Byte \in 0 .. Byte - 1
  BY <1>2
<1>4. /\ e.first \div Byte \in 0 .. Byte - 1 /\ e.first % Byte \in 0 .. Byte - 1
      /\ e.last \div Byte \in 0 .. Byte - 1 /\ e.last % Byte \in 0 .. Byte - 1
  BY <1>1, Halves
<1>5. /\ ((v % Byte) * Byte) + (e.first % Byte) \in Word
      /\ ((e.first \div Byte) * Byte) + (v % Byte) \in Word
      /\ ((v % Byte) * Byte) + (e.last % Byte) \in Word
      /\ ((e.last \div Byte) * Byte) + (v % Byte) \in Word
  <2> DEFINE q == v % Byte
             f1 == e.first \div Byte
             f2 == e.first % Byte
             l1 == e.last \div Byte
             l2 == e.last % Byte
  <2> HIDE DEF q, f1, f2, l1, l2
  <2>1. /\ q \in 0 .. Byte - 1 /\ f1 \in 0 .. Byte - 1 /\ f2 \in 0 .. Byte - 1
        /\ l1 \in 0 .. Byte - 1 /\ l2 \in 0 .. Byte - 1
    BY <1>3, <1>4 DEF q, f1, f2, l1, l2
  <2>2. /\ (q * Byte) + f2 \in Word /\ (f1 * Byte) + q \in Word
        /\ (q * Byte) + l2 \in Word /\ (l1 * Byte) + q \in Word
    BY <2>1, JoinBytes
  <2> QED
    BY <2>2 DEF q, f1, f2, l1, l2
<1> DEFINE a == ((v % Byte) * Byte) + (e.first % Byte)
           b == ((e.first \div Byte) * Byte) + (v % Byte)
           c == ((v % Byte) * Byte) + (e.last % Byte)
           d == ((e.last \div Byte) * Byte) + (v % Byte)
<1>6. \A k \in Nat :
        WithParam(e, k, v) = IF k = 1 THEN [first |-> a, last |-> e.last]
                             ELSE IF k = 2 THEN [first |-> b, last |-> e.last]
                             ELSE IF k = 3 THEN [first |-> e.first, last |-> c]
                             ELSE IF k = 4 THEN [first |-> e.first, last |-> d]
                             ELSE e
  <2> DEFINE f == e.first
             l == e.last
  <2>1. e = [first |-> f, last |-> l]
    BY <1>1
  <2>2. /\ [e EXCEPT !.first = ((v % Byte) * Byte) + (@ % Byte)] = [first |-> a, last |-> l]
        /\ [e EXCEPT !.first = ((@ \div Byte) * Byte) + (v % Byte)] = [first |-> b, last |-> l]
        /\ [e EXCEPT !.last = ((v % Byte) * Byte) + (@ % Byte)] = [first |-> f, last |-> c]
        /\ [e EXCEPT !.last = ((@ \div Byte) * Byte) + (v % Byte)] = [first |-> f, last |-> d]
    BY <2>1
  <2> HIDE DEF a, b, c, d
  <2> QED
    BY <2>2 DEF WithParam
<1> HIDE DEF a, b, c, d
<1>7. /\ WithParam(e, 1, v) = [first |-> a, last |-> e.last]
      /\ WithParam(e, 2, v) = [first |-> b, last |-> e.last]
      /\ WithParam(e, 3, v) = [first |-> e.first, last |-> c]
      /\ WithParam(e, 4, v) = [first |-> e.first, last |-> d]
  BY <1>6
<1>8. WithParam(e, n, v) \in Ends
  <2>1. a \in Word /\ b \in Word /\ c \in Word /\ d \in Word
    BY <1>5 DEF a, b, c, d
  <2> QED
    BY <1>1, <1>6, <2>1 DEF Ends
<1> QED
  BY <1>7, <1>8 DEF a, b, c, d

\* Four parameters are the two ends, whatever was set before.
LEMMA FourParams ==
  ASSUME NEW e \in Ends, NEW a \in Word, NEW b \in Word
  PROVE  WithParam(WithParam(WithParam(WithParam(e, 1, a \div Byte), 2, a),
                             3, b \div Byte), 4, b) = [first |-> a, last |-> b]
<1>1. Byte \in Nat \ {0} /\ a \in Int /\ b \in Int
  BY WordType
<1>2. /\ a \div Byte \in 0 .. Byte - 1 /\ a = ((a \div Byte) * Byte) + (a % Byte)
      /\ b \div Byte \in 0 .. Byte - 1 /\ b = ((b \div Byte) * Byte) + (b % Byte)
  BY Halves
<1> DEFINE ha == a \div Byte
           hb == b \div Byte
           e1 == WithParam(e, 1, ha)
           e2 == WithParam(e1, 2, a)
           e3 == WithParam(e2, 3, hb)
           e4 == WithParam(e3, 4, b)
<1>3. ha \in Int /\ hb \in Int /\ ha % Byte = ha /\ hb % Byte = hb
  <2> HIDE DEF ha, hb
  <2> QED
    BY <1>1, <1>2 DEF ha, hb
<1>4. /\ e1 \in Ends /\ e1.last = e.last
      /\ e1.first = (ha * Byte) + (e.first % Byte)
  <2> HIDE DEF ha, e1
  <2>1. e1 \in Ends /\ e1 = [first |-> ((ha % Byte) * Byte) + (e.first % Byte), last |-> e.last]
    BY <1>3, WithParamIs DEF e1
  <2> QED
    BY <1>3, <2>1
<1>5. e1.first \div Byte = ha
  <2>1. e.first % Byte \in 0 .. Byte - 1
    BY EndsIs, Halves
  <2> HIDE DEF ha, e1
  <2>2. ha \in 0 .. Byte - 1
    BY <1>2 DEF ha
  <2> QED
    BY <1>4, <2>1, <2>2, JoinBytes
<1>6. e2 \in Ends /\ e2.first = a
  <2> HIDE DEF e1, e2
  <2>1. e2 \in Ends /\ e2 = [first |-> ((e1.first \div Byte) * Byte) + (a % Byte), last |-> e1.last]
    BY <1>1, <1>4, WithParamIs DEF e2
  <2>2. e2.first = ((e1.first \div Byte) * Byte) + (a % Byte)
    BY <2>1
  <2> QED
    BY <1>2, <1>5, <2>1, <2>2
<1>7. /\ e3 \in Ends /\ e3.first = a
      /\ e3.last = (hb * Byte) + (e2.last % Byte)
  <2> HIDE DEF hb, e2, e3
  <2>1. e3 \in Ends /\ e3 = [first |-> e2.first, last |-> ((hb % Byte) * Byte) + (e2.last % Byte)]
    BY <1>3, <1>6, WithParamIs DEF e3
  <2> QED
    BY <1>3, <1>6, <2>1
<1>8. e3.last \div Byte = hb
  <2> HIDE DEF hb, e2, e3
  <2>1. e2.last % Byte \in 0 .. Byte - 1
    BY <1>6, EndsIs, Halves
  <2>2. hb \in 0 .. Byte - 1
    BY <1>2 DEF hb
  <2> QED
    BY <1>7, <2>1, <2>2, JoinBytes
<1>9. e4 = [first |-> a, last |-> b]
  <2> HIDE DEF e3, e4
  <2>1. e4 = [first |-> e3.first, last |-> ((e3.last \div Byte) * Byte) + (b % Byte)]
    BY <1>1, <1>7, WithParamIs DEF e4
  <2> QED
    BY <1>2, <1>7, <1>8, <2>1
<1> QED
  BY <1>9

\* A controller is its parts.
Controls(cmd, params, at, column, page, mem) ==
  [cmd |-> cmd, params |-> params, at |-> at, column |-> column, page |-> page, mem |-> mem]

LEMMA ControllerIs ==
  ASSUME NEW p \in Controller
  PROVE  /\ p = Controls(p.cmd, p.params, p.at, p.column, p.page, p.mem)
         /\ p.cmd \in Names /\ p.params \in 0 .. 4 /\ p.at \in Nat \X Nat
         /\ p.column \in Ends /\ p.page \in Ends /\ p.mem \in [Cells -> Int]
BY DEF Controller, Controls, Names

LEMMA ControlsIs ==
  ASSUME NEW cmd \in Names, NEW params \in 0 .. 4, NEW at \in Nat \X Nat,
         NEW column \in Ends, NEW page \in Ends, NEW mem \in [Cells -> Int]
  PROVE  Controls(cmd, params, at, column, page, mem) \in Controller
BY DEF Controller, Controls, Names

Plot(mem, at, v) == [c \in Cells |-> IF c = at THEN v ELSE mem[c]]

LEMMA AdvancedType ==
  ASSUME NEW p \in Controller
  PROVE  Advanced(p) \in Nat \X Nat
<1>1. /\ p.at[1] \in Nat /\ p.at[2] \in Nat
      /\ p.column \in Ends /\ p.page \in Ends
  BY ControllerIs
<1>2. p.column.first \in Nat /\ p.page.first \in Nat
  BY <1>1, EndsIs, WordType
<1> QED
  BY <1>1, <1>2 DEF Advanced

LEMMA CommandIs ==
  ASSUME NEW p \in Controller, NEW name \in Names
  PROVE  /\ Take(p, Cmd(name)) \in Controller
         /\ Take(p, Cmd(name)) =
              Controls(name, 0,
                       IF name = "write" THEN <<p.column.first, p.page.first>> ELSE p.at,
                       p.column, p.page, p.mem)
<1>1. Take(p, Cmd(name)) = Command(p, name)
  BY DEF Take, Cmd
<1> DEFINE a == IF name = "write" THEN <<p.column.first, p.page.first>> ELSE p.at
<1>2. Command(p, name) = Controls(name, 0, a, p.column, p.page, p.mem)
  <2> DEFINE cmd == p.cmd
             params == p.params
             at == p.at
             column == p.column
             page == p.page
             mem == p.mem
  <2>1. p = Controls(cmd, params, at, column, page, mem)
    BY ControllerIs
  <2>2. Command(p, name) = [p EXCEPT !.cmd = name, !.params = 0, !.at = a]
    BY DEF Command
  <2> HIDE DEF cmd, params, at, column, page, mem, a
  <2>3. Command(p, name) = Controls(name, 0, a, column, page, mem)
    BY <2>1, <2>2 DEF Controls
  <2> QED
    BY <2>3 DEF column, page, mem
<1>3. a \in Nat \X Nat
  <2>1. p.column.first \in Nat /\ p.page.first \in Nat /\ p.at \in Nat \X Nat
    BY ControllerIs, EndsIs, WordType
  <2> QED
    BY <2>1
<1> HIDE DEF a
<1>4. Controls(name, 0, a, p.column, p.page, p.mem) \in Controller
  BY <1>3, ControllerIs, ControlsIs
<1> QED
  BY <1>1, <1>2, <1>4 DEF a

LEMMA PixelIs ==
  ASSUME NEW p \in Controller, NEW v \in Int, p.cmd = "write"
  PROVE  /\ Take(p, Data(v)) \in Controller
         /\ Take(p, Data(v)) = Controls("write", p.params, Advanced(p), p.column, p.page,
                                        Plot(p.mem, p.at, v))
<1>1. Take(p, Data(v)) = Pixel(p, v)
  BY DEF Take, Data
<1>2. Pixel(p, v) = Controls("write", p.params, Advanced(p), p.column, p.page,
                             Plot(p.mem, p.at, v))
  <2> DEFINE params == p.params
             at == p.at
             column == p.column
             page == p.page
             mem == p.mem
             q == Advanced(p)
  <2>1. p = Controls("write", params, at, column, page, mem)
    BY ControllerIs
  <2>2. Pixel(p, v) = [p EXCEPT !.mem = Plot(p.mem, p.at, v), !.at = q]
    BY DEF Pixel, Plot
  <2> HIDE DEF params, at, column, page, mem, q
  <2>3. Pixel(p, v) = [p EXCEPT !.mem = Plot(mem, at, v), !.at = q]
    BY <2>2 DEF mem, at
  <2> DEFINE m == Plot(mem, at, v)
  <2> HIDE DEF m
  <2>4. Pixel(p, v) = Controls("write", params, q, column, page, m)
    BY <2>1, <2>3 DEF Controls, m
  <2> QED
    BY <2>4 DEF params, at, column, page, mem, q, m
<1>3. Plot(p.mem, p.at, v) \in [Cells -> Int]
  BY ControllerIs DEF Plot
<1> DEFINE m == Plot(p.mem, p.at, v)
<1> HIDE DEF m
<1>4. Controls("write", p.params, Advanced(p), p.column, p.page, m) \in Controller
  BY <1>3, ControllerIs, AdvancedType, ControlsIs DEF m, Names
<1> QED
  BY <1>1, <1>2, <1>4 DEF m

LEMMA ParameterIs ==
  ASSUME NEW p \in Controller, NEW v \in Int, p.cmd # "write"
  PROVE  /\ Take(p, Data(v)) \in Controller
         /\ Take(p, Data(v)) =
              Controls(p.cmd, IF p.params < 4 THEN p.params + 1 ELSE p.params, p.at,
                       IF p.cmd = "column" THEN WithParam(p.column, p.params + 1, v)
                       ELSE p.column,
                       IF p.cmd = "page" THEN WithParam(p.page, p.params + 1, v)
                       ELSE p.page,
                       p.mem)
<1>1. Take(p, Data(v)) = Parameter(p, v)
  BY DEF Take, Data
<1> DEFINE n == IF p.params < 4 THEN p.params + 1 ELSE p.params
           c == IF p.cmd = "column" THEN WithParam(p.column, p.params + 1, v)
                ELSE p.column
           r == IF p.cmd = "page" THEN WithParam(p.page, p.params + 1, v) ELSE p.page
<1>2. Parameter(p, v) = [p EXCEPT !.column = c, !.page = r, !.params = n]
  BY DEF Parameter
<1>3. n \in 0 .. 4 /\ p.params + 1 \in Nat
  BY ControllerIs
<1>4. c \in Ends /\ r \in Ends
  BY <1>3, ControllerIs, WithParamIs
<1> HIDE DEF n, c, r
<1>5. Parameter(p, v) = Controls(p.cmd, n, p.at, c, r, p.mem)
  BY <1>2, ControllerIs DEF Controls
<1>6. Controls(p.cmd, n, p.at, c, r, p.mem) \in Controller
  BY <1>3, <1>4, ControllerIs, ControlsIs
<1> QED
  BY <1>1, <1>5, <1>6 DEF n, c, r

LEMMA TakeType ==
  ASSUME NEW p \in Controller, NEW w \in Write
  PROVE  Take(p, w) \in Controller
<1>1. CASE w \in [rs : {"command"}, value : Names]
  <2>1. w = Cmd(w.value) /\ w.value \in Names
    BY <1>1 DEF Cmd
  <2> QED
    BY <2>1, CommandIs
<1>2. CASE w \in [rs : {"data"}, value : Int]
  <2>1. w = Data(w.value) /\ w.value \in Int
    BY <1>2 DEF Data
  <2> QED
    BY <2>1, PixelIs, ParameterIs
<1> QED
  BY <1>1, <1>2 DEF Write

-----------------------------------------------------------------------------
(* What a controller has received                                          *)

Follows(f, p, ws) ==
  f = [n \in 0 .. Len(ws) |-> IF n = 0 THEN p ELSE Take(f[n - 1], ws[n])]

LEMMA FollowsSteps ==
  ASSUME NEW f, NEW p, NEW ws, Len(ws) \in Nat, Follows(f, p, ws)
  PROVE  f[0] = p /\ \A n \in 1 .. Len(ws) : f[n] = Take(f[n - 1], ws[n])
<1> DEFINE N == Len(ws)
           g == [n \in 0 .. N |-> IF n = 0 THEN p ELSE Take(f[n - 1], ws[n])]
<1>1. f = g
  BY Zenon DEF Follows
<1>2. g[0] = p /\ \A n \in 1 .. N : g[n] = Take(f[n - 1], ws[n])
  OBVIOUS
<1> QED
  BY <1>1, <1>2, Zenon

LEMMA FollowsExists ==
  ASSUME NEW p \in Controller, NEW ws \in Seq(Write)
  PROVE  \E f : Follows(f, p, ws)
<1> DEFINE N == Len(ws)
           G == [n \in 1 .. N |-> [q \in Controller |-> Take(q, ws[n])]]
<1>1. N \in Nat
  BY LenProperties
<1>2. ASSUME NEW n \in 1 .. N, NEW q \in Controller
      PROVE  G[n][q] = Take(q, ws[n]) /\ G[n][q] \in Controller
  <2>1. ws[n] \in Write
    BY ElementOfSeq
  <2>2. G[n][q] = Take(q, ws[n])
    OBVIOUS
  <2> QED
    BY <2>1, <2>2, TakeType
<1>a. G \in [1 .. N -> [Controller -> Controller]]
  <2>1. ASSUME NEW n \in 1 .. N
        PROVE  [q \in Controller |-> Take(q, ws[n])] \in [Controller -> Controller]
    BY ElementOfSeq, TakeType
  <2> QED
    BY <2>1
<1> HIDE DEF N, G
<1>b. PICK f : f \in [0 .. N -> Controller] /\ Stepwise(f, N, p, G)
  BY <1>1, <1>a, Iterates
<1>3. /\ f \in [0 .. N -> Controller] /\ f[0] = p
      /\ \A n \in 1 .. N : f[n] = G[n][f[n - 1]]
  BY <1>b DEF Stepwise
<1>4. \A n \in 0 .. N : f[n] = IF n = 0 THEN p ELSE Take(f[n - 1], ws[n])
  <2> TAKE n \in 0 .. N
  <2>1. CASE n = 0
    BY <1>3, <2>1
  <2>2. CASE n # 0
    <3>1. n \in 1 .. N /\ n - 1 \in 0 .. N
      BY <1>1, <2>2
    <3>2. f[n - 1] \in Controller
      BY <1>3, <3>1
    <3> QED
      BY <1>2, <1>3, <2>2, <3>1, <3>2
  <2> QED
    BY <2>1, <2>2
<1>5. f = [n \in 0 .. N |-> IF n = 0 THEN p ELSE Take(f[n - 1], ws[n])]
  <2>1. f = [n \in 0 .. N |-> f[n]]
    BY <1>3
  <2> QED
    BY <1>4, <2>1
<1> QED
  BY <1>5 DEF Follows, N

LEMMA ReceivedFollows ==
  ASSUME NEW p \in Controller, NEW ws \in Seq(Write)
  PROVE  \E f : Follows(f, p, ws) /\ Received(p, ws) = f[Len(ws)]
<1> DEFINE f == CHOOSE f : Follows(f, p, ws)
<1>1. Follows(f, p, ws)
  BY FollowsExists, Zenon
<1>2. Received(p, ws) = f[Len(ws)]
  BY Zenon DEF Received, Follows
<1> QED
  BY <1>1, <1>2, Zenon

\* Any function that takes the writes one after the other ends where the
\* controller does.
LEMMA ReceivedIs ==
  ASSUME NEW p \in Controller, NEW ws \in Seq(Write), NEW f, f[0] = p,
         \A n \in 1 .. Len(ws) : f[n] = Take(f[n - 1], ws[n])
  PROVE  /\ Received(p, ws) = f[Len(ws)]
         /\ \A n \in 0 .. Len(ws) : f[n] \in Controller
<1> DEFINE N == Len(ws)
<1>1. N \in Nat /\ \A n \in 1 .. N : ws[n] \in Write
  BY LenProperties, ElementOfSeq
<1>2. PICK g : Follows(g, p, ws) /\ Received(p, ws) = g[N]
  BY ReceivedFollows
<1>3. g[0] = p /\ \A n \in 1 .. N : g[n] = Take(g[n - 1], ws[n])
  BY <1>1, <1>2, FollowsSteps
<1> DEFINE T == {n \in 0 .. N : f[n] = g[n] /\ f[n] \in Controller}
<1>4. 0 \in T
  BY <1>1, <1>3
<1>5. ASSUME NEW n \in 1 .. N, n - 1 \in T
      PROVE  n \in T
  <2>1. f[n] = Take(f[n - 1], ws[n]) /\ g[n] = Take(g[n - 1], ws[n])
    BY <1>3
  <2>2. f[n - 1] = g[n - 1] /\ f[n - 1] \in Controller
    BY <1>5
  <2>3. f[n] \in Controller
    BY <1>1, <2>1, <2>2, TakeType
  <2> QED
    BY <2>1, <2>2, <2>3
<1>6. 0 .. N \subseteq T
  <2> HIDE DEF T, N
  <2> QED
    BY <1>1, <1>4, <1>5, InductionTo
<1>7. N \in T
  BY <1>1, <1>6
<1> QED
  BY <1>2, <1>6, <1>7

LEMMA ReceivedRun ==
  ASSUME NEW p \in Controller, NEW ws \in Seq(Write)
  PROVE  \E f : /\ f[0] = p
                /\ \A n \in 1 .. Len(ws) : f[n] = Take(f[n - 1], ws[n])
                /\ Received(p, ws) = f[Len(ws)]
                /\ \A n \in 0 .. Len(ws) : f[n] \in Controller
<1>1. PICK f : Follows(f, p, ws) /\ Received(p, ws) = f[Len(ws)]
  BY ReceivedFollows
<1>2. f[0] = p /\ \A n \in 1 .. Len(ws) : f[n] = Take(f[n - 1], ws[n])
  BY <1>1, LenProperties, FollowsSteps
<1>3. \A n \in 0 .. Len(ws) : f[n] \in Controller
  BY <1>2, ReceivedIs
<1> QED
  BY <1>1, <1>2, <1>3

LEMMA ReceivedType ==
  ASSUME NEW p \in Controller, NEW ws \in Seq(Write)
  PROVE  Received(p, ws) \in Controller
<1>1. PICK f : /\ Received(p, ws) = f[Len(ws)]
               /\ \A n \in 0 .. Len(ws) : f[n] \in Controller
  BY ReceivedRun
<1> QED
  BY <1>1, LenProperties

\* First one sequence of writes, then another.
LEMMA ReceivedBoth ==
  ASSUME NEW p \in Controller, NEW s \in Seq(Write), NEW t \in Seq(Write)
  PROVE  Received(p, s \o t) = Received(Received(p, s), t)
<1> DEFINE u == s \o t
           m == Len(s)
           n == Len(t)
<1>1. /\ m \in Nat /\ n \in Nat /\ u \in Seq(Write) /\ Len(u) = m + n
      /\ \A i \in 1 .. m + n : u[i] = IF i <= m THEN s[i] ELSE t[i - m]
  BY ConcatProperties, LenProperties
<1>2. PICK f : /\ f[0] = p
               /\ \A i \in 1 .. Len(u) : f[i] = Take(f[i - 1], u[i])
               /\ Received(p, u) = f[Len(u)]
               /\ \A i \in 0 .. Len(u) : f[i] \in Controller
  BY <1>1, ReceivedRun
<1> DEFINE h == [i \in 0 .. n |-> f[m + i]]
<1> HIDE DEF u, m, n
<1>3. Received(p, s) = f[m]
  <2>1. ASSUME NEW i \in 1 .. m
        PROVE  f[i] = Take(f[i - 1], s[i])
    BY <1>1, <1>2
  <2> QED
    BY <1>2, <2>1, ReceivedIs DEF m
<1>4. f[m] \in Controller
  BY <1>1, <1>2
<1>5. h[0] = f[m] /\ h[n] = f[m + n]
  BY <1>1
<1>6. ASSUME NEW i \in 1 .. n
      PROVE  h[i] = Take(h[i - 1], t[i])
  <2> DEFINE j == m + i
  <2>1. /\ j \in 1 .. m + n /\ ~(j <= m) /\ j - m = i /\ j - 1 = m + (i - 1)
        /\ i \in 0 .. n /\ i - 1 \in 0 .. n
    BY <1>1
  <2>2. h[i] = f[j] /\ h[i - 1] = f[m + (i - 1)]
    BY <2>1
  <2> HIDE DEF j, h
  <2>3. u[j] = t[i]
    BY <1>1, <2>1
  <2>4. f[j] = Take(f[j - 1], u[j])
    BY <1>1, <1>2, <2>1
  <2> QED
    BY <2>1, <2>2, <2>3, <2>4
<1>7. Received(f[m], t) = h[n]
  <2> HIDE DEF h
  <2> QED
    BY <1>4, <1>5, <1>6, ReceivedIs DEF n
<1> QED
  BY <1>1, <1>2, <1>3, <1>5, <1>7 DEF u

LEMMA ReceivedNone ==
  ASSUME NEW p \in Controller
  PROVE  Received(p, <<>>) = p
<1> DEFINE e == <<>>
<1>1. e \in Seq(Write) /\ Len(e) = 0
  BY EmptySeq
<1> HIDE DEF e
<1>2. PICK f : /\ f[0] = p
               /\ \A n \in 1 .. Len(e) : f[n] = Take(f[n - 1], e[n])
               /\ Received(p, e) = f[Len(e)]
               /\ \A n \in 0 .. Len(e) : f[n] \in Controller
  BY <1>1, ReceivedRun
<1> QED
  BY <1>1, <1>2 DEF e

-----------------------------------------------------------------------------
(* Windows                                                                 *)

\* The controller after an address command and k of its parameters: e is what
\* they have made of the ends.
Addressing(p, name, k, e) ==
  Controls(name, k, p.at, IF name = "column" THEN e ELSE p.column,
           IF name = "page" THEN e ELSE p.page, p.mem)

LEMMA AddressingType ==
  ASSUME NEW p \in Controller, NEW name \in {"page", "column"}, NEW k \in 0 .. 4,
         NEW e \in Ends
  PROVE  Addressing(p, name, k, e) \in Controller
<1> DEFINE c == IF name = "column" THEN e ELSE p.column
           r == IF name = "page" THEN e ELSE p.page
<1>1. c \in Ends /\ r \in Ends /\ name \in Names
  BY ControllerIs DEF Names
<1> HIDE DEF c, r
<1>2. Controls(name, k, p.at, c, r, p.mem) \in Controller
  BY <1>1, ControllerIs, ControlsIs
<1> QED
  BY <1>2 DEF Addressing, c, r

LEMMA AddressingStep ==
  ASSUME NEW p \in Controller, NEW name \in {"page", "column"}, NEW k \in 0 .. 3,
         NEW e \in Ends, NEW v \in Int
  PROVE  Take(Addressing(p, name, k, e), Data(v)) =
           Addressing(p, name, k + 1, WithParam(e, k + 1, v))
<1> DEFINE q == Addressing(p, name, k, e)
           c == IF name = "column" THEN e ELSE p.column
           r == IF name = "page" THEN e ELSE p.page
           f == WithParam(e, k + 1, v)
           cc == IF name = "column" THEN f ELSE p.column
           rr == IF name = "page" THEN f ELSE p.page
<1>1. q \in Controller
  <2>1. k \in 0 .. 4
    OBVIOUS
  <2> QED
    BY <2>1, AddressingType
<1>2. /\ q.cmd = name /\ q.params = k /\ q.at = p.at /\ q.column = c /\ q.page = r
      /\ q.mem = p.mem
  BY DEF Addressing, Controls
<1> HIDE DEF q
<1>3. Take(q, Data(v)) =
        Controls(q.cmd, IF q.params < 4 THEN q.params + 1 ELSE q.params, q.at,
                 IF q.cmd = "column" THEN WithParam(q.column, q.params + 1, v)
                 ELSE q.column,
                 IF q.cmd = "page" THEN WithParam(q.page, q.params + 1, v) ELSE q.page,
                 q.mem)
  BY <1>1, <1>2, ParameterIs
<1>4. /\ (IF q.params < 4 THEN q.params + 1 ELSE q.params) = k + 1
      /\ (IF q.cmd = "column" THEN WithParam(q.column, q.params + 1, v) ELSE q.column) = cc
      /\ (IF q.cmd = "page" THEN WithParam(q.page, q.params + 1, v) ELSE q.page) = rr
  BY <1>2
<1>5. Take(q, Data(v)) = Controls(name, k + 1, p.at, cc, rr, p.mem)
  <2> HIDE DEF c, r, cc, rr
  <2> QED
    BY <1>2, <1>3, <1>4
<1> QED
  BY <1>5 DEF Addressing, q

LEMMA Addressed ==
  ASSUME NEW p \in Controller, NEW name \in {"page", "column"},
         NEW a \in Word, NEW b \in Word
  PROVE  /\ Address(name, a, b) \in Seq(Write)
         /\ Received(p, Address(name, a, b)) =
              Addressing(p, name, 4, [first |-> a, last |-> b])
<1> DEFINE ws == Address(name, a, b)
           ha == a \div Byte
           hb == b \div Byte
<1>1. a \in Int /\ b \in Int /\ ha \in Int /\ hb \in Int
  BY WordType, Halves
<1>2. /\ Cmd(name) \in Write /\ Data(ha) \in Write /\ Data(a) \in Write
      /\ Data(hb) \in Write /\ Data(b) \in Write
  <2> HIDE DEF ha, hb
  <2> QED
    BY <1>1, CmdIs, DataIs DEF Names
<1>3. ws = <<Cmd(name), Data(ha), Data(a), Data(hb), Data(b)>>
  BY DEF Address, High, Low
<1> HIDE DEF ws, ha, hb
<1>4. /\ ws \in Seq(Write) /\ Len(ws) = 5
      /\ ws[1] = Cmd(name) /\ ws[2] = Data(ha) /\ ws[3] = Data(a)
      /\ ws[4] = Data(hb) /\ ws[5] = Data(b)
  BY <1>2, <1>3
<1>5. PICK f : /\ f[0] = p
               /\ \A n \in 1 .. Len(ws) : f[n] = Take(f[n - 1], ws[n])
               /\ Received(p, ws) = f[Len(ws)]
               /\ \A n \in 0 .. Len(ws) : f[n] \in Controller
  BY <1>4, ReceivedRun
<1>6. /\ f[1] = Take(p, Cmd(name)) /\ f[2] = Take(f[1], Data(ha))
      /\ f[3] = Take(f[2], Data(a)) /\ f[4] = Take(f[3], Data(hb))
      /\ f[5] = Take(f[4], Data(b))
  BY <1>4, <1>5
<1> DEFINE e0 == IF name = "column" THEN p.column ELSE p.page
           e1 == WithParam(e0, 1, ha)
           e2 == WithParam(e1, 2, a)
           e3 == WithParam(e2, 3, hb)
           e4 == WithParam(e3, 4, b)
<1>7. e0 \in Ends
  BY ControllerIs
<1>8. f[1] = Addressing(p, name, 0, e0)
  <2>1. name \in Names /\ name # "write"
    BY DEF Names
  <2>2. f[1] = Controls(name, 0, p.at, p.column, p.page, p.mem)
    BY <1>6, <2>1, CommandIs
  <2> QED
    BY <2>2 DEF Addressing
<1>9. e4 = [first |-> a, last |-> b]
  <2> HIDE DEF e0
  <2> QED
    BY <1>7, FourParams DEF ha, hb
<1> HIDE DEF e0
<1>10. e1 \in Ends
  BY <1>1, <1>7, WithParamIs
<1>11. f[2] = Addressing(p, name, 1, e1)
  <2>1. Take(Addressing(p, name, 0, e0), Data(ha)) =
          Addressing(p, name, 0 + 1, WithParam(e0, 0 + 1, ha))
    BY <1>1, <1>7, AddressingStep
  <2> QED
    BY <1>6, <1>8, <2>1
<1> HIDE DEF e1
<1>12. e2 \in Ends
  BY <1>1, <1>10, WithParamIs
<1>13. f[3] = Addressing(p, name, 2, e2)
  <2>1. Take(Addressing(p, name, 1, e1), Data(a)) =
          Addressing(p, name, 1 + 1, WithParam(e1, 1 + 1, a))
    BY <1>1, <1>10, AddressingStep
  <2> QED
    BY <1>6, <1>11, <2>1
<1> HIDE DEF e2
<1>14. e3 \in Ends
  BY <1>1, <1>12, WithParamIs
<1>15. f[4] = Addressing(p, name, 3, e3)
  <2>1. Take(Addressing(p, name, 2, e2), Data(hb)) =
          Addressing(p, name, 2 + 1, WithParam(e2, 2 + 1, hb))
    BY <1>1, <1>12, AddressingStep
  <2> QED
    BY <1>6, <1>13, <2>1
<1> HIDE DEF e3
<1>16. f[5] = Addressing(p, name, 4, e4)
  <2>1. Take(Addressing(p, name, 3, e3), Data(b)) =
          Addressing(p, name, 3 + 1, WithParam(e3, 3 + 1, b))
    BY <1>1, <1>14, AddressingStep
  <2> QED
    BY <1>6, <1>15, <2>1
<1> HIDE DEF e4
<1> QED
  BY <1>4, <1>5, <1>9, <1>16 DEF ws

\* A window is open: the next pixel goes to its first cell.
Opened(p, x1, y1, x2, y2) ==
  Controls("write", 0, <<x1, y1>>, [first |-> x1, last |-> x2],
           [first |-> y1, last |-> y2], p.mem)

LEMMA Opens ==
  ASSUME NEW p \in Controller, NEW x1 \in Word, NEW y1 \in Word, NEW x2 \in Int, NEW y2 \in Int
  PROVE  /\ SetWindow(x1, y1, x2, y2) \o GraphicsRamMode \in Seq(Write)
         /\ Received(p, SetWindow(x1, y1, x2, y2) \o GraphicsRamMode) =
              Opened(p, x1, y1, Word16(x2), Word16(y2))
<1> DEFINE u == Word16(x2)
           v == Word16(y2)
<1>1. u \in Word /\ v \in Word
  BY WordType
<1> HIDE DEF u, v
<1> DEFINE a == Address("page", y1, v)
           b == Address("column", x1, u)
           c == <<Cmd("write")>>
           rows == [first |-> y1, last |-> v]
           columns == [first |-> x1, last |-> u]
           q == Addressing(p, "page", 4, rows)
           r == Addressing(q, "column", 4, columns)
<1>2. a \in Seq(Write) /\ b \in Seq(Write)
  BY <1>1, Addressed
<1>3. Cmd("write") \in Write
  BY CmdIs DEF Names
<1>4. c \in Seq(Write) /\ Len(c) = 1 /\ c[1] = Cmd("write")
  <2> HIDE DEF a, b
  <2> QED
    BY <1>3
<1>5. rows \in Ends /\ columns \in Ends
  BY <1>1 DEF Ends
<1>6. Received(p, a) = q
  BY <1>1, Addressed
<1>7. q \in Controller
  <2> HIDE DEF rows
  <2> QED
    BY <1>5, AddressingType
<1>8. Received(q, b) = r
  <2> HIDE DEF q
  <2> QED
    BY <1>1, <1>7, Addressed
<1>9. r \in Controller
  <2> HIDE DEF q, columns
  <2> QED
    BY <1>5, <1>7, AddressingType
<1>10. Received(r, c) = Take(r, Cmd("write"))
  <2> HIDE DEF r, c
  <2>1. PICK f : /\ f[0] = r
                 /\ \A n \in 1 .. Len(c) : f[n] = Take(f[n - 1], c[n])
                 /\ Received(r, c) = f[Len(c)]
                 /\ \A n \in 0 .. Len(c) : f[n] \in Controller
    BY <1>4, <1>9, ReceivedRun
  <2> QED
    BY <1>4, <2>1
<1>11. Take(r, Cmd("write")) = Opened(p, x1, y1, u, v)
  <2>1. Take(r, Cmd("write")) =
          Controls("write", 0, <<r.column.first, r.page.first>>, r.column, r.page, r.mem)
    <3> HIDE DEF r
    <3> QED
      BY <1>9, CommandIs DEF Names
  <2>2. q.page = rows /\ q.mem = p.mem
    <3> HIDE DEF rows
    <3> QED
      BY DEF Addressing, Controls
  <2>3. r.column = columns /\ r.page = q.page /\ r.mem = q.mem
    <3> HIDE DEF columns, q
    <3> QED
      BY DEF Addressing, Controls
  <2>4. columns.first = x1 /\ rows.first = y1
    OBVIOUS
  <2> HIDE DEF r, q, columns, rows
  <2>5. Take(r, Cmd("write")) = Controls("write", 0, <<x1, y1>>, columns, rows, p.mem)
    BY <2>1, <2>2, <2>3, <2>4
  <2> QED
    BY <2>5 DEF Opened, columns, rows
<1>12. SetWindow(x1, y1, x2, y2) \o GraphicsRamMode = (a \o b) \o c
  BY DEF SetWindow, GraphicsRamMode, u, v
<1> HIDE DEF a, b, c, q, r
<1>13. a \o b \in Seq(Write) /\ (a \o b) \o c \in Seq(Write)
  BY <1>2, <1>4, ConcatProperties
<1>14. Received(p, (a \o b) \o c) = Received(Received(Received(p, a), b), c)
  <2>1. Received(p, a \o b) = Received(Received(p, a), b)
    BY <1>2, ReceivedBoth
  <2> DEFINE d == a \o b
  <2> HIDE DEF d
  <2>2. d \in Seq(Write)
    BY <1>13 DEF d
  <2>3. Received(p, d \o c) = Received(Received(p, d), c)
    BY <1>4, <2>2, ReceivedBoth
  <2> QED
    BY <2>1, <2>3 DEF d
<1> QED
  BY <1>6, <1>8, <1>10, <1>11, <1>12, <1>13, <1>14 DEF u, v

-----------------------------------------------------------------------------
(* Pixels in a window                                                      *)

\* The m-th cell of a window, counted from 0, and which one a cell is.
CellAt(x, y, w, m) == <<x + (m % w), y + (m \div w)>>
InWindow(c, x, y, w, h) == c[1] \in x .. x + w - 1 /\ c[2] \in y .. y + h - 1
Position(c, x, y, w) == w * (c[2] - y) + (c[1] - x)

\* A window of which m is a cell.
Fits(x, y, w, h, m) ==
  x \in Nat /\ y \in Nat /\ w \in Nat \ {0} /\ h \in Nat /\ m \in Nat /\ m < w * h

\* The controller expects the m-th pixel of a window.
Expects(p, x, y, w, h, m) ==
  /\ p.cmd = "write"
  /\ p.column = [first |-> x, last |-> x + w - 1]
  /\ p.page = [first |-> y, last |-> y + h - 1]
  /\ m < w * h => p.at = CellAt(x, y, w, m)

LEMMA RowAndColumn ==
  ASSUME NEW w \in Nat \ {0}, NEW h \in Nat, NEW m \in Nat, m < w * h
  PROVE  /\ m % w \in 0 .. w - 1 /\ m \div w \in 0 .. h - 1
         /\ m = w * (m \div w) + (m % w)
<1> DEFINE q == m \div w
           r == m % w
<1>1. q \in Nat /\ r \in 0 .. w - 1 /\ m = w * q + r
  BY DivMod
<1> HIDE DEF q, r
<1>2. q <= h - 1
  <2>1. SUFFICES ASSUME h <= q PROVE FALSE
    BY <1>1
  <2>2. h * w <= q * w
    BY <1>1, <2>1, Products
  <2> QED
    BY <1>1, <2>2
<1> QED
  BY <1>1, <1>2 DEF q, r

LEMMA CellIs ==
  ASSUME NEW x, NEW y, NEW w, NEW h, NEW m, Fits(x, y, w, h, m),
         NEW c, c \in Nat \X Nat
  PROVE  c = CellAt(x, y, w, m) <=> InWindow(c, x, y, w, h) /\ Position(c, x, y, w) = m
<1>a. /\ x \in Nat /\ y \in Nat /\ w \in Nat \ {0} /\ h \in Nat /\ m \in Nat
      /\ m < w * h
  BY DEF Fits
<1> DEFINE q == m \div w
           r == m % w
           i == c[1] - x
           j == c[2] - y
<1>1. /\ r \in 0 .. w - 1 /\ q \in 0 .. h - 1 /\ m = w * q + r
  BY <1>a, RowAndColumn
<1>2. /\ c[1] \in Nat /\ c[2] \in Nat /\ c = <<c[1], c[2]>>
      /\ c[1] = x + i /\ c[2] = y + j /\ i \in Int /\ j \in Int
  BY <1>a
<1>3. c = CellAt(x, y, w, m) <=> i = r /\ j = q
  <2> HIDE DEF q, r
  <2>1. CellAt(x, y, w, m) = <<x + r, y + q>>
    BY DEF CellAt, q, r
  <2>2. c = <<x + r, y + q>> <=> c[1] = x + r /\ c[2] = y + q
    BY <1>2
  <2>3. c[1] = x + r /\ c[2] = y + q <=> i = r /\ j = q
    <3> HIDE DEF i, j
    <3> QED
      BY <1>a, <1>1, <1>2
  <2> QED
    BY <2>1, <2>2, <2>3
<1>4. InWindow(c, x, y, w, h) <=> i \in 0 .. w - 1 /\ j \in 0 .. h - 1
  BY <1>a, <1>2 DEF InWindow
<1>5. Position(c, x, y, w) = w * j + i
  BY DEF Position
<1> HIDE DEF q, r, i, j
<1>6. ASSUME i = r, j = q
      PROVE  InWindow(c, x, y, w, h) /\ Position(c, x, y, w) = m
  BY <1>1, <1>4, <1>5, <1>6
<1>7. ASSUME i \in 0 .. w - 1, j \in 0 .. h - 1, w * j + i = m
      PROVE  i = r /\ j = q
  <2>1. j \in Nat /\ m = w * j + i
    BY <1>a, <1>7
  <2>2. m \div w = j /\ m % w = i
    BY <1>a, <1>7, <2>1, DivModIs, Zenon
  <2> QED
    BY <2>2 DEF q, r
<1> QED
  BY <1>3, <1>4, <1>5, <1>6, <1>7

LEMMA PointerMoves ==
  ASSUME NEW p \in Controller, NEW x \in Nat, NEW y \in Nat,
         NEW w \in Nat \ {0}, NEW h \in Nat, NEW m \in Nat, NEW n, n = m + 1, n < w * h,
         Expects(p, x, y, w, h, m)
  PROVE  Advanced(p) = CellAt(x, y, w, n)
<1> DEFINE q == m \div w
           r == m % w
<1>1. m < w * h
  BY DivMod
<1>2. r \in 0 .. w - 1 /\ q \in 0 .. h - 1 /\ m = w * q + r
  BY <1>1, RowAndColumn
<1>3. p.at = <<x + r, y + q>>
  BY <1>1 DEF Expects, CellAt
<1>4. /\ p.column.first = x /\ p.column.last = x + w - 1
      /\ p.page.first = y /\ p.page.last = y + h - 1
  BY DEF Expects
<1> HIDE DEF q, r
<1>5. CASE r # w - 1
  <2> DEFINE s == r + 1
  <2>1. s \in 0 .. w - 1 /\ n = w * q + s /\ q \in Nat
    BY <1>2, <1>5
  <2> HIDE DEF s
  <2>2. n % w = s /\ n \div w = q
    BY <2>1, DivModIs, Zenon
  <2>3. Advanced(p) = <<x + r + 1, y + q>>
    BY <1>2, <1>3, <1>4, <1>5 DEF Advanced
  <2> QED
    BY <1>2, <2>2, <2>3 DEF CellAt, s
<1>6. CASE r = w - 1
  <2> DEFINE s == q + 1
  <2>1. n = w * s + 0 /\ s \in Nat /\ 0 \in 0 .. w - 1
    BY <1>2, <1>6
  <2>3. q # h - 1
    BY <2>1
  <2> HIDE DEF s
  <2>2. n % w = 0 /\ n \div w = s
    BY <2>1, DivModIs, Zenon
  <2>4. Advanced(p) = <<x, y + q + 1>>
    BY <1>2, <1>3, <1>4, <1>6, <2>3 DEF Advanced
  <2> QED
    BY <1>2, <2>2, <2>4 DEF CellAt, s
<1> QED
  BY <1>5, <1>6

LEMMA PixelLands ==
  ASSUME NEW p, NEW x, NEW y, NEW w, NEW h, NEW m, Fits(x, y, w, h, m),
         Expects(p, x, y, w, h, m), p \in Controller, NEW v, v \in Int
  PROVE  /\ Take(p, Data(v)) \in Controller
         /\ Expects(Take(p, Data(v)), x, y, w, h, m + 1)
         /\ Take(p, Data(v)).mem = Plot(p.mem, CellAt(x, y, w, m), v)
<1>a. /\ x \in Nat /\ y \in Nat /\ w \in Nat \ {0} /\ h \in Nat /\ m \in Nat
      /\ m < w * h
  BY DEF Fits
<1> DEFINE n == m + 1
<1> HIDE DEF n
<1>b. n = m + 1
  BY DEF n
<1> DEFINE a == Advanced(p)
           mem == Plot(p.mem, p.at, v)
<1>1. p.cmd = "write" /\ p.at = CellAt(x, y, w, m)
  BY <1>a DEF Expects
<1>2. /\ Take(p, Data(v)) \in Controller
      /\ Take(p, Data(v)) = Controls("write", p.params, a, p.column, p.page, mem)
  BY <1>1, PixelIs
<1> DEFINE q == Take(p, Data(v))
<1> HIDE DEF q, a, mem
<1>3. /\ q.cmd = "write" /\ q.at = a /\ q.column = p.column /\ q.page = p.page
      /\ q.mem = mem
  BY <1>2 DEF Controls, q
<1>4. n < w * h => a = CellAt(x, y, w, n)
  BY <1>a, <1>b, PointerMoves DEF a
<1>5. Expects(q, x, y, w, h, n)
  BY <1>3, <1>4 DEF Expects
<1> QED
  BY <1>1, <1>2, <1>3, <1>5 DEF q, mem, n

LEMMA CellsAre == Cells \subseteq Nat \X Nat
BY PanelAssumption DEF Cells, Columns, Rows

Room(x, y, w, h) == x \in Nat /\ y \in Nat /\ w \in Nat \ {0} /\ h \in Nat \ {0}

\* The n pixels of f.
Carries(ws, f, n) ==
  /\ ws \in Seq(Write) /\ Len(ws) = n
  /\ \A i \in 1 .. n : f[i] \in Int /\ ws[i] = Data(f[i])

Filled(mem, f, x, y, w, h) ==
  [c \in Cells |-> IF InWindow(c, x, y, w, h) THEN f[Position(c, x, y, w) + 1]
                   ELSE mem[c]]

\* A window that is filled shows the pixels row by row; the other cells stay.
LEMMA Painted ==
  ASSUME NEW p, NEW x, NEW y, NEW w, NEW h, p \in Controller,
         Expects(p, x, y, w, h, 0), Room(x, y, w, h), NEW ws, NEW f, Carries(ws, f, w * h)
  PROVE  Received(p, ws).mem = Filled(p.mem, f, x, y, w, h)
<1>a. /\ x \in Nat /\ y \in Nat /\ w \in Nat \ {0} /\ h \in Nat
      /\ ws \in Seq(Write) /\ Len(ws) = w * h
      /\ \A i \in 1 .. Len(ws) : f[i] \in Int /\ ws[i] = Data(f[i])
  BY DEF Room, Carries
<1> DEFINE N == Len(ws)
<1>1. N \in Nat /\ N = w * h
  BY <1>a, LenProperties
<1>2. PICK g : /\ g[0] = p
               /\ \A n \in 1 .. N : g[n] = Take(g[n - 1], ws[n])
               /\ Received(p, ws) = g[N]
               /\ \A n \in 0 .. N : g[n] \in Controller
  BY <1>a, ReceivedRun
<1> DEFINE Shown(n, c) == IF InWindow(c, x, y, w, h) /\ Position(c, x, y, w) < n
                          THEN f[Position(c, x, y, w) + 1] ELSE p.mem[c]
           T == {n \in 0 .. N : /\ Expects(g[n], x, y, w, h, n)
                                /\ \A c \in Cells : g[n].mem[c] = Shown(n, c)}
<1>3. \A c \in Cells : InWindow(c, x, y, w, h) =>
        /\ Position(c, x, y, w) \in Nat
        /\ Position(c, x, y, w) < N
  <2> SUFFICES ASSUME NEW c \in Cells, InWindow(c, x, y, w, h)
               PROVE  Position(c, x, y, w) \in Nat /\ Position(c, x, y, w) < N
    OBVIOUS
  <2> DEFINE i == c[1] - x
             j == c[2] - y
  <2>1. i \in 0 .. w - 1 /\ j \in 0 .. h - 1
    BY <1>a, CellsAre DEF InWindow
  <2>2. Position(c, x, y, w) = w * j + i
    BY DEF Position
  <2> HIDE DEF i, j
  <2>3. w * j \in Nat /\ w * j <= w * (h - 1)
    BY <1>a, <2>1, Products
  <2>4. w * (h - 1) = w * h - w
    BY <1>a
  <2> DEFINE a == w * j
             b == w * h
  <2>5. w \in Nat /\ a \in Nat /\ b \in Int /\ a <= b - w /\ i \in 0 .. w - 1 /\ N = b
    BY <1>a, <1>1, <2>1, <2>3, <2>4
  <2>6. Position(c, x, y, w) = a + i
    BY <2>2
  <2> HIDE DEF a, b, N
  <2> QED
    BY <2>5, <2>6
<1>4. 0 \in T
  BY <1>1, <1>2, <1>3
<1>5. ASSUME NEW n \in 1 .. N, n - 1 \in T
      PROVE  n \in T
  <2> DEFINE m == n - 1
             q == g[m]
             v == f[n]
  <2>1. /\ m \in Nat /\ n = m + 1 /\ m < w * h /\ v \in Int /\ ws[n] = Data(v)
        /\ m \in 0 .. N
    BY <1>a, <1>1
  <2>2. /\ q \in Controller /\ Expects(q, x, y, w, h, m)
        /\ \A c \in Cells : q.mem[c] = Shown(m, c)
    BY <1>2, <1>5
  <2>3. g[n] = Take(q, Data(v))
    BY <1>2, <2>1
  <2> HIDE DEF q, m, v
  <2>f. Fits(x, y, w, h, m)
    BY <1>a, <2>1 DEF Fits
  <2>4. /\ Expects(g[n], x, y, w, h, n)
        /\ g[n].mem = Plot(q.mem, CellAt(x, y, w, m), v)
    <3>1. /\ Expects(Take(q, Data(v)), x, y, w, h, m + 1)
          /\ Take(q, Data(v)).mem = Plot(q.mem, CellAt(x, y, w, m), v)
      BY <2>1, <2>2, <2>f, PixelLands
    <3> QED
      BY <2>1, <2>3, <3>1
  <2>5. ASSUME NEW c \in Cells
        PROVE  g[n].mem[c] = Shown(n, c)
    <3>1. c = CellAt(x, y, w, m) <=> InWindow(c, x, y, w, h) /\ Position(c, x, y, w) = m
      <4>1. c \in Nat \X Nat
        BY CellsAre
      <4> QED
        BY <2>f, <4>1, CellIs
    <3>2. g[n].mem[c] = IF c = CellAt(x, y, w, m) THEN v ELSE Shown(m, c)
      BY <2>2, <2>4 DEF Plot
    <3> DEFINE k == Position(c, x, y, w)
               In == InWindow(c, x, y, w, h)
    <3>3. In => k \in Nat
      BY <1>3
    <3>4. v = f[m + 1]
      BY <2>1 DEF v
    <3> HIDE DEF k, In
    <3>5. c = CellAt(x, y, w, m) <=> In /\ k = m
      BY <3>1 DEF k, In
    <3>6. Shown(m, c) = (IF In /\ k < m THEN f[k + 1] ELSE p.mem[c])
      BY DEF k, In
    <3>7. Shown(n, c) = (IF In /\ k < n THEN f[k + 1] ELSE p.mem[c])
      BY DEF k, In
    <3> HIDE DEF Shown
    <3>8. CASE In /\ k = m
      BY <2>1, <3>2, <3>4, <3>5, <3>7, <3>8
    <3>9. CASE ~(In /\ k = m)
      <4>1. In /\ k < n <=> In /\ k < m
        BY <2>1, <3>3, <3>9
      <4> QED
        BY <3>2, <3>5, <3>6, <3>7, <3>9, <4>1
    <3> QED
      BY <3>8, <3>9
  <2> QED
    BY <2>4, <2>5
<1>6. N \in T
  <2> HIDE DEF T, N
  <2>1. \A n \in 1 .. N : n - 1 \in T => n \in T
    BY <1>5
  <2>2. 0 .. N \subseteq T
    BY <1>1, <1>4, <2>1, InductionTo
  <2> QED
    BY <1>1, <2>2
<1>7. g[N].mem \in [Cells -> Int]
  BY <1>1, <1>2, ControllerIs
<1>8. ASSUME NEW c \in Cells
      PROVE  g[N].mem[c] = IF InWindow(c, x, y, w, h) THEN f[Position(c, x, y, w) + 1]
                           ELSE p.mem[c]
  <2>1. g[N].mem[c] = Shown(N, c)
    BY <1>6
  <2>2. InWindow(c, x, y, w, h) => Position(c, x, y, w) < N
    BY <1>3
  <2> QED
    BY <2>1, <2>2
<1> DEFINE mem == g[N].mem
<1> HIDE DEF mem
<1>9. mem = [c \in Cells |-> mem[c]]
  BY <1>7 DEF mem
<1>10. \A c \in Cells :
         mem[c] = IF InWindow(c, x, y, w, h) THEN f[Position(c, x, y, w) + 1]
                  ELSE p.mem[c]
  BY <1>8 DEF mem
<1> QED
  BY <1>2, <1>9, <1>10 DEF mem, Filled

-----------------------------------------------------------------------------
(* What the firmware draws                                                 *)

\* A window whose ends are words.
Addressable(x, y, w, h) ==
  /\ x \in Word /\ y \in Word /\ w \in Nat \ {0} /\ h \in Nat \ {0}
  /\ x + w - 1 \in Word /\ y + h - 1 \in Word

Opening(x, y, w, h) == SetWindow(x, y, x + w - 1, y + h - 1) \o GraphicsRamMode

LEMMA WindowOpens ==
  ASSUME NEW p, p \in Controller, NEW x, NEW y, NEW w, NEW h, Addressable(x, y, w, h)
  PROVE  /\ Opening(x, y, w, h) \in Seq(Write)
         /\ Received(p, Opening(x, y, w, h)) \in Controller
         /\ Expects(Received(p, Opening(x, y, w, h)), x, y, w, h, 0)
         /\ Received(p, Opening(x, y, w, h)).mem = p.mem
         /\ Room(x, y, w, h)
<1>a. /\ x \in Word /\ y \in Word /\ w \in Nat \ {0} /\ h \in Nat \ {0}
      /\ x + w - 1 \in Word /\ y + h - 1 \in Word
  BY DEF Addressable
<1> DEFINE x2 == x + w - 1
           y2 == y + h - 1
           ws == SetWindow(x, y, x2, y2) \o GraphicsRamMode
           q == Received(p, ws)
<1>1. /\ x \in Nat /\ y \in Nat /\ x2 \in Word /\ y2 \in Word /\ x2 \in Int /\ y2 \in Int
      /\ Word16(x2) = x2 /\ Word16(y2) = y2
  BY <1>a, WordType
<1> HIDE DEF x2, y2
<1>2. ws \in Seq(Write) /\ q = Opened(p, x, y, x2, y2)
  BY <1>a, <1>1, Opens
<1>3. q \in Controller
  <2> HIDE DEF ws
  <2> QED
    BY <1>2, ReceivedType
<1> HIDE DEF q
<1>4. /\ q.cmd = "write" /\ q.at = <<x, y>> /\ q.column = [first |-> x, last |-> x2]
      /\ q.page = [first |-> y, last |-> y2] /\ q.mem = p.mem
  BY <1>2 DEF Opened, Controls
<1>5. CellAt(x, y, w, 0) = <<x, y>>
  <2>1. 0 = w * 0 + 0 /\ 0 \in 0 .. w - 1
    BY <1>a
  <2>2. 0 % w = 0 /\ 0 \div w = 0
    BY <1>a, <2>1, DivModIs
  <2> QED
    BY <1>1, <2>2 DEF CellAt
<1>6. Expects(q, x, y, w, h, 0)
  BY <1>4, <1>5 DEF Expects, x2, y2
<1> QED
  BY <1>a, <1>1, <1>2, <1>3, <1>4, <1>6 DEF q, x2, y2, Opening, Room

\* A window opened and filled.
LEMMA Draws ==
  ASSUME NEW p, p \in Controller, NEW x, NEW y, NEW w, NEW h, Addressable(x, y, w, h),
         NEW ps, NEW f, Carries(ps, f, w * h)
  PROVE  /\ Opening(x, y, w, h) \o ps \in Seq(Write)
         /\ Received(p, Opening(x, y, w, h) \o ps) \in Controller
         /\ Received(p, Opening(x, y, w, h) \o ps).mem = Filled(p.mem, f, x, y, w, h)
<1> DEFINE s == Opening(x, y, w, h)
           q == Received(p, s)
<1>1. /\ s \in Seq(Write) /\ q \in Controller /\ Expects(q, x, y, w, h, 0)
      /\ q.mem = p.mem /\ Room(x, y, w, h)
  BY WindowOpens
<1>2. ps \in Seq(Write)
  BY DEF Carries
<1> HIDE DEF s, q
<1>3. s \o ps \in Seq(Write) /\ Received(p, s \o ps) = Received(q, ps)
  BY <1>1, <1>2, ConcatProperties, ReceivedBoth DEF q
<1>4. Received(q, ps) \in Controller
  BY <1>1, <1>2, ReceivedType
<1>5. Received(q, ps).mem = Filled(q.mem, f, x, y, w, h)
  BY <1>1, Painted
<1> QED
  BY <1>1, <1>3, <1>4, <1>5 DEF s

LEMMA PixelsCarry ==
  ASSUME NEW n \in Nat, NEW f, \A i \in 1 .. n : f[i] \in Int,
         NEW ps, ps = [i \in 1 .. n |-> Data(f[i])]
  PROVE  Carries(ps, f, n)
<1>1. \A i \in 1 .. n : Data(f[i]) \in Write
  BY DataIs
<1>2. DOMAIN ps = 1 .. n /\ \A i \in 1 .. n : ps[i] = Data(f[i])
  OBVIOUS
<1>3. ps \in [1 .. n -> Write]
  BY <1>1
<1>4. ps \in Seq(Write)
  BY <1>3, IsASeq
<1>5. Len(ps) = n
  BY <1>2, <1>4, LenProperties
<1> QED
  BY <1>2, <1>4, <1>5 DEF Carries

\* Places in character cells lie on the screen.
LEMMA CharCells ==
  ASSUME NEW size \in Nat \ {0}, NEW char \in Nat \ {0}, size <= Byte * Byte,
         NEW i \in 0 .. (size \div char) - 1
  PROVE  i * char \in Word /\ i * char + char - 1 \in Word
<1> DEFINE q == size \div char
           r == size % char
<1>1. q \in Nat /\ r \in 0 .. char - 1 /\ size = char * q + r
  BY DivMod
<1>2. i \in Nat /\ i + 1 <= q
  BY <1>1
<1> HIDE DEF q, r
<1>3. (i + 1) * char <= q * char
  BY <1>1, <1>2, Products
<1> DEFINE a == i * char
           b == q * char
<1>4. a \in Nat /\ b \in Nat /\ (i + 1) * char = a + char /\ char * q = b
  BY <1>1, <1>2
<1> HIDE DEF a, b
<1>5. a + char <= size
  BY <1>1, <1>3, <1>4 DEF b
<1> DEFINE BB == Byte * Byte
<1>6. BB \in Nat /\ size <= BB
  BY WordType
<1> HIDE DEF BB
<1>7. a \in 0 .. BB - 1 /\ a + char - 1 \in 0 .. BB - 1
  BY <1>4, <1>5, <1>6
<1> QED
  BY <1>7 DEF Word, a, BB

LEMMA Sizes ==
  /\ ScreenWidth \in Nat \ {0} /\ ScreenHeight \in Nat \ {0}
  /\ CharWidth \in Nat \ {0} /\ CharHeight \in Nat \ {0}
  /\ ScreenWidth <= Byte * Byte /\ ScreenHeight <= Byte * Byte
  /\ CharsPerLine \in Nat \ {0} /\ Lines \in Nat \ {0}
<1>1. /\ ScreenWidth \in Nat \ {0} /\ ScreenHeight \in Nat \ {0}
      /\ CharWidth \in Nat \ {0} /\ CharHeight \in Nat \ {0}
      /\ ScreenWidth <= Byte * Byte /\ ScreenHeight <= Byte * Byte
      /\ CharWidth <= ScreenWidth /\ CharHeight <= ScreenHeight
  BY PanelAssumption
<1>2. ASSUME NEW s \in Nat \ {0}, NEW c \in Nat \ {0}, c <= s
      PROVE  s \div c \in Nat \ {0}
  <2> DEFINE q == s \div c
             r == s % c
  <2>1. q \in Nat /\ r \in 0 .. c - 1 /\ s = c * q + r
    BY DivMod
  <2> HIDE DEF q, r
  <2>2. q # 0
    BY <1>2, <2>1
  <2> QED
    BY <2>1, <2>2 DEF q
<1> QED
  BY <1>1, <1>2 DEF CharsPerLine, Lines

LEMMA ColourIs == \A c, i, j : GlyphColour(c, i, j) \in Int
BY DEF GlyphColour, Foreground, Background

\* A number is in the i-th stretch of a length if its quotient is i.
LEMMA Stretch ==
  ASSUME NEW d \in Nat, NEW n \in Nat \ {0}, NEW i \in Nat
  PROVE  /\ d \in i * n .. i * n + n - 1 <=> d \div n = i
         /\ d \div n = i => d - i * n = d % n
<1> DEFINE q == d \div n
           r == d % n
           a == i * n
<1>1. q \in Nat /\ r \in 0 .. n - 1 /\ d = n * q + r
  BY DivMod
<1>2. a \in Nat
  OBVIOUS
<1>3. ASSUME d \in a .. a + n - 1
      PROVE  q = i
  <2> DEFINE s == d - a
  <2>1. s \in 0 .. n - 1 /\ d = n * i + s
    BY <1>2, <1>3
  <2> HIDE DEF s
  <2>2. d \div n = i
    BY <2>1, DivModIs, Zenon
  <2> QED
    BY <2>2
<1>4. ASSUME q = i
      PROVE  d \in a .. a + n - 1 /\ d - a = r
  <2> HIDE DEF q, r
  <2>1. d = a + r
    BY <1>1, <1>4
  <2> HIDE DEF a
  <2> QED
    BY <1>1, <1>2, <2>1
<1> QED
  BY <1>3, <1>4

-----------------------------------------------------------------------------
(* The start-up text                                                       *)

\* What a character leaves on the screen.
Stamped(mem, i, j, char) ==
  [c \in Cells |-> IF c[1] \div CharWidth = i /\ c[2] \div CharHeight = j
                   THEN GlyphColour(char, c[1] % CharWidth, c[2] % CharHeight)
                   ELSE mem[c]]

LEMMA CharDrawn ==
  ASSUME NEW i \in 0 .. CharsPerLine - 1, NEW j \in 0 .. Lines - 1, NEW char
  PROVE  /\ DrawChar(i * CharWidth, j * CharHeight, char) \in Seq(Write)
         /\ \A p \in Controller :
              LET q == Received(p, DrawChar(i * CharWidth, j * CharHeight, char))
              IN  q \in Controller /\ q.mem = Stamped(p.mem, i, j, char)
<1> DEFINE w == CharWidth
           h == CharHeight
           x == i * w
           y == j * h
           n == w * h
           f == [k \in 1 .. n |-> GlyphColour(char, (k - 1) % w, (k - 1) \div w)]
           ps == [k \in 1 .. n |-> Data(f[k])]
           ws == DrawChar(x, y, char)
<1>1. w \in Nat \ {0} /\ h \in Nat \ {0} /\ i \in Nat /\ j \in Nat
  BY Sizes
<1>2. Addressable(x, y, w, h)
  <2>1. x \in Word /\ x + w - 1 \in Word
    BY Sizes, CharCells DEF CharsPerLine
  <2>2. y \in Word /\ y + h - 1 \in Word
    BY Sizes, CharCells DEF Lines
  <2> QED
    BY <1>1, <2>1, <2>2 DEF Addressable
<1>3. n \in Nat
  BY <1>1
<1>4. \A k \in 1 .. n : f[k] = GlyphColour(char, (k - 1) % w, (k - 1) \div w)
  OBVIOUS
<1>5. \A k \in 1 .. n : f[k] \in Int
  BY <1>4, ColourIs
<1>6. ps = [k \in 1 .. n |-> Data(GlyphColour(char, (k - 1) % w, (k - 1) \div w))]
  OBVIOUS
<1>7. ws = Opening(x, y, w, h) \o ps
  <2> HIDE DEF ps
  <2> QED
    BY <1>6 DEF DrawChar, Opening
<1>8. Carries(ps, f, n)
  <2> HIDE DEF n, f
  <2> QED
    BY <1>3, <1>5, PixelsCarry
<1> HIDE DEF f, ps, ws, x, y
<1>9. ASSUME NEW p \in Controller
      PROVE  /\ ws \in Seq(Write) /\ Received(p, ws) \in Controller
             /\ Received(p, ws).mem = Filled(p.mem, f, x, y, w, h)
  BY <1>2, <1>7, <1>8, Draws
<1>10. ASSUME NEW p \in Controller
       PROVE  Filled(p.mem, f, x, y, w, h) = Stamped(p.mem, i, j, char)
  <2>1. ASSUME NEW c \in Cells
        PROVE  (IF InWindow(c, x, y, w, h) THEN f[Position(c, x, y, w) + 1] ELSE p.mem[c])
                 = (IF c[1] \div w = i /\ c[2] \div h = j
                    THEN GlyphColour(char, c[1] % w, c[2] % h) ELSE p.mem[c])
    <3> DEFINE a == c[1]
               b == c[2]
    <3>1. a \in Nat /\ b \in Nat
      BY CellsAre
    <3> HIDE DEF a, b, w, h
    <3>2. /\ a \in x .. x + w - 1 <=> a \div w = i
          /\ a \div w = i => a - x = a % w
      BY <1>1, <3>1, Stretch DEF x
    <3>3. /\ b \in y .. y + h - 1 <=> b \div h = j
          /\ b \div h = j => b - y = b % h
      BY <1>1, <3>1, Stretch DEF y
    <3>4. InWindow(c, x, y, w, h) <=> a \div w = i /\ b \div h = j
      BY <3>2, <3>3 DEF InWindow, a, b
    <3>5. CASE a \div w = i /\ b \div h = j
      <4> DEFINE r == a % w
                 s == b % h
                 m == Position(c, x, y, w)
      <4>1. r \in 0 .. w - 1 /\ s \in 0 .. h - 1
        BY <1>1, <3>1, DivMod
      <4>2. m = w * s + r
        BY <3>2, <3>3, <3>5 DEF Position, a, b
      <4> HIDE DEF r, s, m
      <4>3. m \in Nat /\ m \div w = s /\ m % w = r
        <5>1. s \in Nat
          BY <1>1, <4>1
        <5> QED
          BY <1>1, <4>1, <4>2, <5>1, DivModIs, Zenon
      <4>4. m + 1 \in 1 .. n
        <5>1. w * s \in Nat /\ w * s <= w * (h - 1)
          BY <1>1, <4>1, Products
        <5>2. w * (h - 1) = w * h - w
          BY <1>1
        <5> DEFINE ws1 == w * s
                   wh == w * h
        <5>3. /\ ws1 \in Nat /\ wh \in Int /\ ws1 <= wh - w /\ m = ws1 + r /\ w \in Nat
              /\ n = wh
          BY <1>1, <4>2, <5>1, <5>2 DEF w, h
        <5> HIDE DEF ws1, wh, n
        <5> QED
          BY <4>1, <5>3
      <4>5. f[m + 1] = GlyphColour(char, r, s)
        <5>1. f[m + 1] = GlyphColour(char, ((m + 1) - 1) % w, ((m + 1) - 1) \div w)
          BY <1>4, <4>4 DEF w
        <5>2. (m + 1) - 1 = m
          BY <4>3
        <5> QED
          BY <4>3, <5>1, <5>2
      <4> QED
        BY <3>4, <3>5, <4>5 DEF m, r, s, a, b
    <3>6. CASE ~(a \div w = i /\ b \div h = j)
      BY <3>4, <3>6 DEF a, b
    <3> QED
      BY <3>5, <3>6
  <2> DEFINE mem == p.mem
  <2> HIDE DEF mem
  <2>2. \A c \in Cells :
          (IF InWindow(c, x, y, w, h) THEN f[Position(c, x, y, w) + 1] ELSE mem[c])
            = (IF c[1] \div w = i /\ c[2] \div h = j
               THEN GlyphColour(char, c[1] % w, c[2] % h) ELSE mem[c])
    BY <2>1 DEF mem
  <2>3. Filled(mem, f, x, y, w, h) = Stamped(mem, i, j, char)
    BY <2>2 DEF Filled, Stamped
  <2> QED
    BY <2>3 DEF mem
<1>11. Controller # {}
  <2> DEFINE e == [first |-> 0, last |-> 0]
             mem == [c \in Cells |-> 0]
             at == <<0, 0>>
  <2>1. 0 \in Word
    BY WordType DEF Word
  <2>2. e \in Ends
    BY <2>1 DEF Ends
  <2>3. mem \in [Cells -> Int] /\ "page" \in Names /\ 0 \in 0 .. 4 /\ at \in Nat \X Nat
    BY DEF Names
  <2> HIDE DEF e, mem, at
  <2>4. Controls("page", 0, at, e, e, mem) \in Controller
    BY <2>2, <2>3, ControlsIs
  <2> QED
    BY <2>4
<1>12. \A p \in Controller :
         /\ Received(p, ws) \in Controller
         /\ Received(p, ws).mem = Stamped(p.mem, i, j, char)
  BY <1>9, <1>10
<1>13. ws \in Seq(Write)
  BY <1>9, <1>11
<1> QED
  BY <1>12, <1>13 DEF ws, x, y

Blank == [c \in Cells |-> Background]

LEMMA ScreenCleared ==
  ASSUME NEW p, p \in Controller
  PROVE  /\ ClearScreen(Background) \in Seq(Write)
         /\ Received(p, ClearScreen(Background)) \in Controller
         /\ Received(p, ClearScreen(Background)).mem = Blank
<1> DEFINE w == ScreenWidth
           h == ScreenHeight
           n == w * h
           f == [k \in 1 .. n |-> Background]
           ps == [k \in 1 .. n |-> Data(f[k])]
           ws == ClearScreen(Background)
<1>1. w \in Nat \ {0} /\ h \in Nat \ {0} /\ w <= Byte * Byte /\ h <= Byte * Byte
  BY Sizes
<1>2. Addressable(0, 0, w, h)
  <2> DEFINE BB == Byte * Byte
  <2>1. BB \in Nat /\ Word = 0 .. BB - 1
    BY WordType DEF Word
  <2> HIDE DEF BB
  <2>2. w <= BB /\ h <= BB
    BY <1>1 DEF BB
  <2> HIDE DEF w, h
  <2> QED
    BY <1>1, <2>1, <2>2 DEF Addressable
<1>3. n \in Nat
  BY <1>1
<1>4. \A k \in 1 .. n : f[k] = Background
  OBVIOUS
<1>5. \A k \in 1 .. n : f[k] \in Int
  BY <1>4 DEF Background
<1>6. ps = [k \in 1 .. n |-> Data(Background)]
  OBVIOUS
<1>7. ws = Opening(0, 0, w, h) \o ps
  <2>1. 0 + w - 1 = w - 1 /\ 0 + h - 1 = h - 1
    BY <1>1
  <2> HIDE DEF ps
  <2> QED
    BY <1>6, <2>1 DEF ClearScreen, Opening
<1>8. Carries(ps, f, n)
  <2> HIDE DEF n, f
  <2> QED
    BY <1>3, <1>5, PixelsCarry
<1> HIDE DEF f, ps, ws
<1>9. /\ ws \in Seq(Write) /\ Received(p, ws) \in Controller
      /\ Received(p, ws).mem = Filled(p.mem, f, 0, 0, w, h)
  BY <1>2, <1>7, <1>8, Draws
<1>10. ASSUME NEW c \in Cells
       PROVE  (IF InWindow(c, 0, 0, w, h) THEN f[Position(c, 0, 0, w) + 1] ELSE p.mem[c])
                = Background
  <2> DEFINE a == c[1]
             b == c[2]
             m == Position(c, 0, 0, w)
  <2>1. a \in 0 .. w - 1 /\ b \in 0 .. h - 1
    BY DEF Cells, Columns, Rows
  <2> HIDE DEF a, b
  <2>2. InWindow(c, 0, 0, w, h)
    <3>1. 0 + w - 1 = w - 1 /\ 0 + h - 1 = h - 1
      BY <1>1
    <3> QED
      BY <2>1, <3>1 DEF InWindow, a, b
  <2>3. m = w * b + a
    BY <1>1, <2>1 DEF Position, a, b
  <2>4. w * b \in Nat /\ w * b <= w * (h - 1)
    BY <1>1, <2>1, Products
  <2>5. w * (h - 1) = w * h - w
    BY <1>1
  <2> DEFINE wb == w * b
             wh == w * h
  <2>6. /\ wb \in Nat /\ wh \in Int /\ wb <= wh - w /\ m = wb + a /\ w \in Nat
        /\ n = wh
    BY <1>1, <2>3, <2>4, <2>5
  <2> HIDE DEF wb, wh, n, m, w
  <2>7. m + 1 \in 1 .. n
    BY <2>1, <2>6
  <2> QED
    BY <1>4, <2>2, <2>7 DEF m
<1> DEFINE mem == p.mem
<1> HIDE DEF mem
<1>11. \A c \in Cells :
         (IF InWindow(c, 0, 0, w, h) THEN f[Position(c, 0, 0, w) + 1] ELSE mem[c])
           = Background
  BY <1>10 DEF mem
<1>12. Filled(mem, f, 0, 0, w, h) = Blank
  <2> HIDE DEF w, h
  <2> QED
    BY <1>11 DEF Filled, Blank
<1> QED
  BY <1>9, <1>12 DEF ws, mem

\* The cursor as WriteString moves it.
Cursor == [x : 0 .. CharsPerLine - 1, y : 0 .. Lines - 1]

Onward(c, char) ==
  IF char # NewLine /\ c.x + 1 < CharsPerLine THEN [c EXCEPT !.x = @ + 1]
  ELSE [x |-> 0, y |-> IF c.y + 1 >= Lines THEN 0 ELSE c.y + 1]

LEMMA OnwardIs ==
  ASSUME NEW c \in Cursor, NEW char
  PROVE  /\ Onward(c, char) \in Cursor
         /\ Onward(c, char).x = IF char # NewLine /\ c.x + 1 < CharsPerLine
                                THEN c.x + 1 ELSE 0
         /\ Onward(c, char).y = IF char # NewLine /\ c.x + 1 < CharsPerLine THEN c.y
                                ELSE IF c.y + 1 >= Lines THEN 0 ELSE c.y + 1
<1>1. CharsPerLine \in Nat \ {0} /\ Lines \in Nat \ {0}
  BY Sizes
<1>2. c.x \in 0 .. CharsPerLine - 1 /\ c.y \in 0 .. Lines - 1 /\ c = [x |-> c.x, y |-> c.y]
  BY DEF Cursor
<1>3. CASE char # NewLine /\ c.x + 1 < CharsPerLine
  <2> DEFINE a == c.x
             b == c.y
  <2>1. c = [x |-> a, y |-> b] /\ Onward(c, char) = [c EXCEPT !.x = a + 1]
    BY <1>2, <1>3 DEF Onward
  <2>2. a \in Nat /\ a + 1 < CharsPerLine /\ b \in 0 .. Lines - 1
    BY <1>2, <1>3
  <2> HIDE DEF a, b
  <2>3. Onward(c, char) = [x |-> a + 1, y |-> b]
    BY <2>1
  <2>4. Onward(c, char) \in Cursor
    BY <1>1, <2>2, <2>3 DEF Cursor
  <2> QED
    BY <1>3, <2>3, <2>4 DEF a, b
<1>4. CASE ~(char # NewLine /\ c.x + 1 < CharsPerLine)
  <2> DEFINE b == IF c.y + 1 >= Lines THEN 0 ELSE c.y + 1
  <2>1. Onward(c, char) = [x |-> 0, y |-> b]
    BY <1>4 DEF Onward
  <2>2. b \in 0 .. Lines - 1
    BY <1>1, <1>2
  <2> HIDE DEF b
  <2>3. Onward(c, char) \in Cursor
    BY <1>1, <2>1, <2>2 DEF Cursor
  <2> QED
    BY <1>4, <2>1, <2>3 DEF b
<1> QED
  BY <1>3, <1>4

LEMMA MessageIs ==
  /\ Len(Message) \in Nat
  /\ DOMAIN Message = 1 .. Len(Message)
BY PanelAssumption, LenProperties

LEMMA TextCursorIs ==
  /\ TextCursor \in [0 .. Len(Message) -> Cursor]
  /\ TextCursor[0] = [x |-> 0, y |-> 0]
  /\ \A k \in 1 .. Len(Message) : TextCursor[k] = Onward(TextCursor[k - 1], Message[k])
<1> DEFINE N == Len(Message)
           zero == [x |-> 0, y |-> 0]
           Follow(f) == f = [k \in 0 .. N |-> IF k = 0 THEN zero
                                            ELSE Onward(f[k - 1], Message[k])]
           G == [k \in 1 .. N |-> [c \in Cursor |-> Onward(c, Message[k])]]
<1>1. N \in Nat
  BY MessageIs
<1>2. zero \in Cursor
  BY Sizes DEF Cursor
<1>3. ASSUME NEW k \in 1 .. N, NEW c \in Cursor
      PROVE  G[k][c] = Onward(c, Message[k])
  OBVIOUS
<1>4. G \in [1 .. N -> [Cursor -> Cursor]]
  <2>1. ASSUME NEW k \in 1 .. N
        PROVE  [c \in Cursor |-> Onward(c, Message[k])] \in [Cursor -> Cursor]
    BY OnwardIs
  <2> QED
    BY <2>1
<1> HIDE DEF G, zero, N
<1>5. PICK g : g \in [0 .. N -> Cursor] /\ Stepwise(g, N, zero, G)
  BY <1>1, <1>2, <1>4, Iterates
<1>6. Follow(g)
  <2>1. ASSUME NEW k \in 0 .. N
        PROVE  g[k] = IF k = 0 THEN zero ELSE Onward(g[k - 1], Message[k])
    <3>1. CASE k = 0
      BY <1>5, <3>1 DEF Stepwise
    <3>2. CASE k # 0
      <4>1. k \in 1 .. N /\ k - 1 \in 0 .. N
        BY <1>1, <3>2
      <4>2. g[k - 1] \in Cursor /\ g[k] = G[k][g[k - 1]]
        BY <1>5, <4>1 DEF Stepwise
      <4> QED
        BY <1>3, <3>2, <4>1, <4>2
    <3> QED
      BY <3>1, <3>2
  <2>2. g = [k \in 0 .. N |-> g[k]]
    BY <1>5
  <2> QED
    BY <2>1, <2>2
<1>7. TextCursor = CHOOSE f : Follow(f)
  BY Zenon DEF TextCursor, Onward, N, zero
<1>8. Follow(TextCursor)
  BY <1>6, <1>7, Zenon
<1> DEFINE f == TextCursor
           h == [k \in 0 .. N |-> IF k = 0 THEN zero ELSE Onward(f[k - 1], Message[k])]
<1>9. f = h
  BY <1>8, Zenon
<1>10. DOMAIN h = 0 .. N /\ h[0] = zero /\ \A k \in 1 .. N : h[k] = Onward(f[k - 1], Message[k])
  BY <1>1
<1>11. DOMAIN f = 0 .. N /\ f[0] = zero /\ \A k \in 1 .. N : f[k] = Onward(f[k - 1], Message[k])
  <2> HIDE DEF h
  <2> QED
    BY <1>9, <1>10, Zenon
<1> HIDE DEF f, h
<1>12. \A k \in 0 .. N : f[k] \in Cursor
  <2> DEFINE T == {k \in 0 .. N : f[k] \in Cursor}
  <2>1. 0 \in T
    BY <1>1, <1>2, <1>11
  <2>2. ASSUME NEW k \in 1 .. N, k - 1 \in T
        PROVE  k \in T
    BY <1>11, <2>2, OnwardIs
  <2>3. \A k \in 1 .. N : k - 1 \in T => k \in T
    BY <2>2
  <2> HIDE DEF T
  <2>4. 0 .. N \subseteq T
    BY <1>1, <2>1, <2>3, InductionTo
  <2> QED
    BY <2>4 DEF T
<1>13. f = [k \in 0 .. N |-> f[k]]
  BY <1>9, <1>11 DEF h
<1>14. f \in [0 .. N -> Cursor]
  BY <1>12, <1>13
<1> QED
  BY <1>11, <1>14 DEF f, N, zero

\* The next remainder and quotient.
LEMMA NextMod ==
  ASSUME NEW n \in Nat, NEW w \in Nat \ {0}
  PROVE  /\ (n + 1) % w = IF (n % w) + 1 < w THEN (n % w) + 1 ELSE 0
         /\ (n + 1) % w = 0 <=> ~((n % w) + 1 < w)
<1> DEFINE q == n \div w
           r == n % w
           m == n + 1
<1>1. q \in Nat /\ r \in 0 .. w - 1 /\ n = w * q + r
  BY DivMod
<1> HIDE DEF q, r
<1>2. CASE r + 1 < w
  <2> DEFINE s == r + 1
  <2>1. s \in 0 .. w - 1 /\ m = w * q + s
    BY <1>1, <1>2
  <2> HIDE DEF s, m
  <2>2. m % w = s
    BY <1>1, <2>1, DivModIs, Zenon
  <2>3. s # 0 /\ s = r + 1
    BY <1>1 DEF s
  <2> QED
    BY <1>2, <2>2, <2>3 DEF m, r
<1>3. CASE ~(r + 1 < w)
  <2> DEFINE s == q + 1
  <2>1. s \in Nat /\ m = w * s + 0 /\ 0 \in 0 .. w - 1
    BY <1>1, <1>3
  <2> HIDE DEF s, m
  <2>2. m % w = 0
    BY <2>1, DivModIs, Zenon
  <2> QED
    BY <1>3, <2>2 DEF m, r
<1> QED
  BY <1>2, <1>3

LEMMA MaxIs ==
  ASSUME NEW S, S \subseteq Nat, NEW k \in S, \A i \in S : k >= i
  PROVE  Max(S) = k
<1>1. Max(S) \in S /\ \A i \in S : Max(S) >= i
  <2>1. \E x : x \in S /\ \A y \in S : x >= y
    OBVIOUS
  <2> QED
    BY <2>1, Zenon DEF Max
<1>2. Max(S) >= k /\ k >= Max(S)
  BY <1>1
<1>3. Max(S) \in Nat /\ k \in Nat
  BY <1>1
<1> QED
  BY <1>2, <1>3

\* The set of the breaks, and of the line ends, before the next character.
LEMMA NextPlace ==
  ASSUME NEW k \in 1 .. Len(Message), LineStart(k) \in 0 .. k - 1, IsFiniteSet(LineEnds(k))
  PROVE  /\ LineStart(k + 1) \in 0 .. k /\ InLine(k) \in Nat
         /\ InLine(k + 1) = IF Message[k] = NewLine THEN 0 ELSE InLine(k) + 1
         /\ IsFiniteSet(LineEnds(k + 1))
         /\ LineOf(k + 1) = IF Message[k] = NewLine \/ (InLine(k) + 1) % CharsPerLine = 0
                            THEN LineOf(k) + 1 ELSE LineOf(k)
<1> DEFINE m == k + 1
           full == (InLine(k) + 1) % CharsPerLine = 0
           broken == Message[k] = NewLine
<1>1. k \in Nat \ {0} /\ m \in Nat /\ m - 1 = k /\ 1 .. k = (1 .. k - 1) \cup {k}
  BY MessageIs
<1> HIDE DEF m
<1>2. Breaks(m) = Breaks(k) \cup (IF broken THEN {k} ELSE {})
  BY <1>1 DEF Breaks
<1>3. Breaks(k) \subseteq 1 .. k - 1 /\ LineEnds(k) \subseteq 1 .. k - 1
  BY DEF Breaks, LineEnds
<1>4. LineEnds(m) = LineEnds(k) \cup (IF broken \/ full THEN {k} ELSE {})
  BY <1>1, <1>2 DEF LineEnds
<1>a. InLine(k) \in Nat
  BY <1>1 DEF InLine
<1>5. ASSUME broken
      PROVE  LineStart(m) \in 0 .. k /\ InLine(m) = 0
  <2> DEFINE S == {0} \cup Breaks(m)
  <2>1. k \in S /\ S \subseteq Nat /\ \A i \in S : k >= i
    BY <1>1, <1>2, <1>3, <1>5
  <2> HIDE DEF S
  <2>2. Max(S) = k
    BY <1>1, <2>1, MaxIs
  <2>3. LineStart(m) = k
    BY <2>2 DEF LineStart, S
  <2> QED
    BY <1>1, <1>5, <2>3 DEF InLine
<1>6. ASSUME ~broken
      PROVE  LineStart(m) \in 0 .. k /\ InLine(m) = InLine(k) + 1
  <2>1. Breaks(m) = Breaks(k)
    BY <1>2, <1>6
  <2>2. LineStart(m) = LineStart(k)
    BY <2>1 DEF LineStart
  <2> DEFINE s == LineStart(k)
  <2>3. InLine(k) = k - 1 - s /\ InLine(m) = m - 1 - s
    BY <2>2 DEF InLine
  <2>4. s \in 0 .. k - 1
    OBVIOUS
  <2> HIDE DEF s
  <2> QED
    BY <1>1, <1>6, <2>2, <2>3, <2>4 DEF s
<1>7. IsFiniteSet(LineEnds(m))
      /\ LineOf(m) = IF broken \/ full THEN LineOf(k) + 1 ELSE LineOf(k)
  <2>1. CASE broken \/ full
    <3>1. LineEnds(m) = LineEnds(k) \cup {k} /\ k \notin LineEnds(k)
      BY <1>1, <1>3, <1>4, <2>1
    <3> QED
      BY <2>1, <3>1, FS_AddElement DEF LineOf
  <2>2. CASE ~(broken \/ full)
    <3>1. LineEnds(m) = LineEnds(k)
      BY <1>4, <2>2
    <3> QED
      BY <2>2, <3>1 DEF LineOf
  <2> QED
    BY <2>1, <2>2
<1> QED
  BY <1>a, <1>5, <1>6, <1>7 DEF m

\* The cursor is where the text belongs.
LEMMA CursorIsPlace ==
  ASSUME NEW k \in 0 .. Len(Message)
  PROVE  PlaceOf(k + 1) = <<TextCursor[k].x, TextCursor[k].y>>
<1> DEFINE N == Len(Message)
           Good(i, j) == /\ LineStart(j) \in 0 .. i /\ IsFiniteSet(LineEnds(j))
                         /\ TextCursor[i].x = InLine(j) % CharsPerLine
                         /\ TextCursor[i].y = LineOf(j) % Lines
           T == {i \in 0 .. N : Good(i, i + 1)}
<1>1. N \in Nat /\ CharsPerLine \in Nat \ {0} /\ Lines \in Nat \ {0}
  BY MessageIs, Sizes
<1>2. 0 \in T
  <2>1. Breaks(1) = {} /\ LineEnds(1) = {}
    BY DEF Breaks, LineEnds
  <2>2. LineStart(1) = 0
    <3> DEFINE S == {0} \cup Breaks(1)
    <3>1. S \subseteq Nat /\ 0 \in S /\ \A i \in S : 0 >= i
      BY <2>1
    <3> HIDE DEF S
    <3> QED
      BY <3>1, MaxIs DEF LineStart, S
  <2>3. InLine(1) = 0
    BY <2>2 DEF InLine
  <2>4. IsFiniteSet(LineEnds(1)) /\ LineOf(1) = 0
    BY <2>1, FS_EmptySet DEF LineOf
  <2>5. TextCursor[0].x = 0 /\ TextCursor[0].y = 0
    BY TextCursorIs
  <2>6. 0 % CharsPerLine = 0 /\ 0 % Lines = 0
    BY <1>1
  <2>7. Good(0, 1)
    BY <2>2, <2>3, <2>4, <2>5, <2>6
  <2> HIDE DEF Good
  <2>8. 0 \in 0 .. N /\ 0 + 1 = 1
    BY <1>1
  <2> QED
    BY <2>7, <2>8
<1>3. ASSUME NEW i \in 1 .. N, i - 1 \in T
      PROVE  i \in T
  <2> DEFINE c == TextCursor[i - 1]
             d == TextCursor[i]
             m == i + 1
             n == InLine(i)
             l == LineOf(i)
             char == Message[i]
  <2>1. (i - 1) + 1 = i /\ i - 1 \in 0 .. N
    BY <1>1
  <2>2. /\ LineStart(i) \in 0 .. i - 1 /\ IsFiniteSet(LineEnds(i))
        /\ c.x = n % CharsPerLine /\ c.y = l % Lines
    BY <1>3, <2>1
  <2>3. l \in Nat
    BY <2>2, FS_CardinalityType DEF LineOf
  <2>4. /\ LineStart(m) \in 0 .. i /\ n \in Nat /\ IsFiniteSet(LineEnds(m))
        /\ InLine(m) = IF char = NewLine THEN 0 ELSE n + 1
        /\ LineOf(m) = IF char = NewLine \/ (n + 1) % CharsPerLine = 0 THEN l + 1 ELSE l
    BY <2>2, NextPlace
  <2>5. c \in Cursor /\ d = Onward(c, char)
    BY <2>1, TextCursorIs
  <2> HIDE DEF c, d, m, n, l, char
  <2>6. /\ d.x = IF char # NewLine /\ c.x + 1 < CharsPerLine THEN c.x + 1 ELSE 0
        /\ d.y = IF char # NewLine /\ c.x + 1 < CharsPerLine THEN c.y
                 ELSE IF c.y + 1 >= Lines THEN 0 ELSE c.y + 1
    BY <2>5, OnwardIs
  <2>7. /\ (n + 1) % CharsPerLine = IF c.x + 1 < CharsPerLine THEN c.x + 1 ELSE 0
        /\ (n + 1) % CharsPerLine = 0 <=> ~(c.x + 1 < CharsPerLine)
    BY <1>1, <2>2, <2>4, NextMod
  <2>8. (l + 1) % Lines = IF c.y + 1 < Lines THEN c.y + 1 ELSE 0
    BY <1>1, <2>2, <2>3, NextMod
  <2>9. c.y + 1 >= Lines <=> ~(c.y + 1 < Lines)
    BY <1>1, <2>5 DEF Cursor
  <2>10. 0 % CharsPerLine = 0
    BY <1>1
  <2>11. d.x = InLine(m) % CharsPerLine
    BY <2>4, <2>6, <2>7, <2>10
  <2>12. d.y = LineOf(m) % Lines
    BY <2>2, <2>4, <2>6, <2>7, <2>8, <2>9
  <2>13. Good(i, m)
    BY <2>4, <2>11, <2>12 DEF d
  <2> HIDE DEF Good
  <2> QED
    BY <1>1, <2>13 DEF m
<1>4. \A i \in 1 .. N : i - 1 \in T => i \in T
  <2> HIDE DEF T
  <2> QED
    BY <1>3
<1>5. 0 .. N \subseteq T
  <2> HIDE DEF T, N
  <2> QED
    BY <1>1, <1>2, <1>4, InductionTo
<1>6. Good(k, k + 1)
  BY <1>5
<1> QED
  BY <1>6 DEF PlaceOf

\* The k-th character's writes, after those before it.
Added(s, k) ==
  IF Message[k] = NewLine THEN s
  ELSE s \o DrawChar(TextCursor[k - 1].x * CharWidth, TextCursor[k - 1].y * CharHeight,
                     Message[k])

LEMMA AddedType ==
  ASSUME NEW k \in 1 .. Len(Message), NEW s \in Seq(Write)
  PROVE  Added(s, k) \in Seq(Write)
<1> DEFINE c == TextCursor[k - 1]
           t == DrawChar(c.x * CharWidth, c.y * CharHeight, Message[k])
<1>1. c \in Cursor
  BY MessageIs, TextCursorIs
<1> HIDE DEF c
<1>2. c.x \in 0 .. CharsPerLine - 1 /\ c.y \in 0 .. Lines - 1
  BY <1>1 DEF Cursor
<1>3. t \in Seq(Write)
  BY <1>2, CharDrawn
<1> HIDE DEF t
<1>4. s \o t \in Seq(Write)
  BY <1>3, ConcatProperties
<1> QED
  BY <1>4 DEF Added, t, c

LEMMA TextIs ==
  /\ \A k \in 0 .. Len(Message) : Text[k] \in Seq(Write)
  /\ Text[0] = <<>>
  /\ \A k \in 1 .. Len(Message) : Text[k] = Added(Text[k - 1], k)
<1> DEFINE N == Len(Message)
           none == <<>>
           Follow(f) == f = [k \in 0 .. N |-> IF k = 0 THEN none ELSE Added(f[k - 1], k)]
           S == Seq(Write)
           G == [k \in 1 .. N |-> [s \in S |-> Added(s, k)]]
<1>1. N \in Nat
  BY MessageIs
<1>2. none \in S
  BY EmptySeq
<1>3. ASSUME NEW k \in 1 .. N, NEW s \in S
      PROVE  G[k][s] = Added(s, k)
  OBVIOUS
<1>4. G \in [1 .. N -> [S -> S]]
  <2>1. ASSUME NEW k \in 1 .. N
        PROVE  [s \in S |-> Added(s, k)] \in [S -> S]
    BY AddedType
  <2> QED
    BY <2>1
<1>a. \A k \in 1 .. N : \A s \in S : Added(s, k) \in S
  BY AddedType
<1> HIDE DEF G, none, N, S
<1>5. PICK g : g \in [0 .. N -> S] /\ Stepwise(g, N, none, G)
  BY <1>1, <1>2, <1>4, Iterates
<1>6. Follow(g)
  <2>1. ASSUME NEW k \in 0 .. N
        PROVE  g[k] = IF k = 0 THEN none ELSE Added(g[k - 1], k)
    <3>1. CASE k = 0
      BY <1>5, <3>1 DEF Stepwise
    <3>2. CASE k # 0
      <4>1. k \in 1 .. N /\ k - 1 \in 0 .. N
        BY <1>1, <3>2
      <4>2. g[k - 1] \in S /\ g[k] = G[k][g[k - 1]]
        BY <1>5, <4>1 DEF Stepwise
      <4> QED
        BY <1>3, <3>2, <4>1, <4>2
    <3> QED
      BY <3>1, <3>2
  <2>2. g = [k \in 0 .. N |-> g[k]]
    BY <1>5
  <2> QED
    BY <2>1, <2>2
<1>7. Text = CHOOSE f : Follow(f)
  BY Zenon DEF Text, Added, N, none
<1>8. Follow(Text)
  BY <1>6, <1>7, Zenon
<1> DEFINE f == Text
           h == [k \in 0 .. N |-> IF k = 0 THEN none ELSE Added(f[k - 1], k)]
<1>9. f = h
  BY <1>8, Zenon
<1>10. h[0] = none /\ \A k \in 1 .. N : h[k] = Added(f[k - 1], k)
  BY <1>1
<1>11. f[0] = none /\ \A k \in 1 .. N : f[k] = Added(f[k - 1], k)
  <2> HIDE DEF h
  <2> QED
    BY <1>9, <1>10, Zenon
<1> HIDE DEF f, h
<1>12. \A k \in 0 .. N : f[k] \in S
  <2> DEFINE T == {k \in 0 .. N : f[k] \in S}
  <2>1. 0 \in T
    BY <1>1, <1>2, <1>11
  <2>2. ASSUME NEW k \in 1 .. N, k - 1 \in T
        PROVE  k \in T
    BY <1>a, <1>11, <2>2
  <2>3. \A k \in 1 .. N : k - 1 \in T => k \in T
    BY <2>2
  <2> HIDE DEF T
  <2>4. 0 .. N \subseteq T
    BY <1>1, <2>1, <2>3, InductionTo
  <2> QED
    BY <2>4 DEF T
<1> QED
  BY <1>11, <1>12 DEF f, N, none, S

\* The picture after the first k characters.
Here(k, c) == {i \in 1 .. k :
                 /\ Message[i] # NewLine
                 /\ PlaceOf(i) = <<c[1] \div CharWidth, c[2] \div CharHeight>>}

Seen(k, c) ==
  IF Here(k, c) = {} THEN Background
  ELSE GlyphColour(Message[Max(Here(k, c))], c[1] % CharWidth, c[2] % CharHeight)

Picture(k) == [c \in Cells |-> Seen(k, c)]

LEMMA PictureIs == StartUpPicture = Picture(Len(Message))
BY DEF StartUpPicture, Picture, Seen, Here

\* One more character.
LEMMA SeenNext ==
  ASSUME NEW k \in 1 .. Len(Message), NEW c \in Cells
  PROVE  Seen(k, c) =
           IF /\ Message[k] # NewLine
              /\ PlaceOf(k) = <<c[1] \div CharWidth, c[2] \div CharHeight>>
           THEN GlyphColour(Message[k], c[1] % CharWidth, c[2] % CharHeight)
           ELSE Seen(k - 1, c)
<1> DEFINE P(i) == /\ Message[i] # NewLine
                   /\ PlaceOf(i) = <<c[1] \div CharWidth, c[2] \div CharHeight>>
           S == Here(k, c)
           R == Here(k - 1, c)
<1>1. k \in Nat \ {0} /\ 1 .. k = (1 .. k - 1) \cup {k}
  BY MessageIs
<1>2. S = R \cup (IF P(k) THEN {k} ELSE {})
  <2> HIDE DEF P
  <2>1. S = {i \in 1 .. k : P(i)} /\ R = {i \in 1 .. k - 1 : P(i)}
    BY DEF Here, P
  <2> HIDE DEF S, R
  <2> QED
    BY <1>1, <2>1
<1>3. R \subseteq 1 .. k - 1
  BY DEF Here
<1> HIDE DEF P, S, R
<1>4. CASE P(k)
  <2>1. S \subseteq Nat /\ k \in S /\ \A i \in S : k >= i
    BY <1>1, <1>2, <1>3, <1>4
  <2>2. Max(S) = k /\ S # {}
    BY <2>1, MaxIs
  <2> QED
    BY <1>4, <2>2 DEF Seen, S, P
<1>5. CASE ~P(k)
  <2>1. S = R
    BY <1>2, <1>5
  <2>2. Seen(k, c) = Seen(k - 1, c)
    BY <2>1 DEF Seen, S, R
  <2> QED
    BY <1>5, <2>2 DEF P
<1> QED
  BY <1>4, <1>5

LEMMA TextShows ==
  ASSUME NEW p, p \in Controller, p.mem = Blank
  PROVE  Received(p, Text[Len(Message)]).mem = StartUpPicture
<1> DEFINE N == Len(Message)
           At(k) == Received(p, Text[k])
           T == {k \in 0 .. N : At(k) \in Controller /\ At(k).mem = Picture(k)}
<1>1. N \in Nat
  BY MessageIs
<1>2. 0 \in T
  <2>1. At(0) = p
    BY TextIs, ReceivedNone
  <2>2. Picture(0) = Blank
    BY DEF Picture, Seen, Here, Blank
  <2> QED
    BY <1>1, <2>1, <2>2
<1>3. ASSUME NEW k \in 1 .. N, k - 1 \in T
      PROVE  k \in T
  <2> DEFINE l == k - 1
             s == Text[l]
             c == TextCursor[l]
             t == DrawChar(c.x * CharWidth, c.y * CharHeight, Message[k])
             q == Received(p, s)
             r == Received(p, Text[k])
  <2>1. l \in 0 .. N /\ l + 1 = k
    BY <1>1
  <2>2. q \in Controller /\ q.mem = Picture(l)
    BY <1>3
  <2>3. s \in Seq(Write) /\ Text[k] = Added(s, k)
    BY <2>1, TextIs
  <2>4. c \in Cursor /\ PlaceOf(k) = <<c.x, c.y>>
    BY <2>1, TextCursorIs, CursorIsPlace
  <2> HIDE DEF s, c, l
  <2>5. CASE Message[k] = NewLine
    <3>1. r = q
      BY <2>3, <2>5 DEF Added
    <3>2. \A d \in Cells : Seen(k, d) = Seen(l, d)
      BY <2>5, SeenNext DEF l
    <3>3. Picture(k) = Picture(l)
      BY <3>2 DEF Picture
    <3> QED
      BY <2>2, <3>1, <3>3
  <2>6. CASE Message[k] # NewLine
    <3>1. Text[k] = s \o t
      BY <2>3, <2>6 DEF Added, s, c, l
    <3>2. c.x \in 0 .. CharsPerLine - 1 /\ c.y \in 0 .. Lines - 1
      BY <2>4 DEF Cursor
    <3>3. /\ t \in Seq(Write) /\ Received(q, t) \in Controller
          /\ Received(q, t).mem = Stamped(q.mem, c.x, c.y, Message[k])
      <4> HIDE DEF q
      <4> QED
        BY <2>2, <3>2, CharDrawn
    <3> HIDE DEF t
    <3>4. r = Received(q, t)
      BY <2>3, <3>1, <3>3, ReceivedBoth
    <3>5. ASSUME NEW d \in Cells
          PROVE  Seen(k, d) = IF d[1] \div CharWidth = c.x /\ d[2] \div CharHeight = c.y
                              THEN GlyphColour(Message[k], d[1] % CharWidth, d[2] % CharHeight)
                              ELSE Picture(l)[d]
      <4>1. Picture(l)[d] = Seen(l, d)
        BY DEF Picture
      <4>2. <<c.x, c.y>> = <<d[1] \div CharWidth, d[2] \div CharHeight>>
              <=> d[1] \div CharWidth = c.x /\ d[2] \div CharHeight = c.y
        OBVIOUS
      <4>3. Seen(k, d) =
              IF /\ Message[k] # NewLine
                 /\ PlaceOf(k) = <<d[1] \div CharWidth, d[2] \div CharHeight>>
              THEN GlyphColour(Message[k], d[1] % CharWidth, d[2] % CharHeight)
              ELSE Seen(l, d)
        BY SeenNext DEF l
      <4> QED
        BY <2>4, <2>6, <4>1, <4>2, <4>3
    <3>6. Picture(k) = Stamped(Picture(l), c.x, c.y, Message[k])
      <4> DEFINE mem == Picture(l)
      <4>1. \A d \in Cells :
              Seen(k, d) = IF d[1] \div CharWidth = c.x /\ d[2] \div CharHeight = c.y
                           THEN GlyphColour(Message[k], d[1] % CharWidth, d[2] % CharHeight)
                           ELSE mem[d]
        BY <3>5
      <4> HIDE DEF mem
      <4>2. Picture(k) = Stamped(mem, c.x, c.y, Message[k])
        BY <4>1 DEF Picture, Stamped
      <4> QED
        BY <4>2 DEF mem
    <3> QED
      BY <2>2, <3>3, <3>4, <3>6
  <2> QED
    BY <2>5, <2>6
<1>4. \A k \in 1 .. N : k - 1 \in T => k \in T
  <2> HIDE DEF T
  <2> QED
    BY <1>3
<1>5. 0 .. N \subseteq T
  <2> HIDE DEF T, N
  <2> QED
    BY <1>1, <1>2, <1>4, InductionTo
<1>6. N \in T
  BY <1>1, <1>5
<1> QED
  BY <1>6, PictureIs

\* The panel as main() finds it, and what main makes of it if nobody else writes.
FirstPanel == Received(PowerOn, ClearScreen(Background))

LEMMA StartUpDraws ==
  /\ FirstPanel \in Controller /\ StartUp \in Seq(Write)
  /\ Received(FirstPanel, StartUp).mem = StartUpPicture
<1> DEFINE a == ClearScreen(Background)
           b == Text[Len(Message)]
           zero == [first |-> 0, last |-> 0]
           mem == [c \in Cells |-> Unknown]
           at == <<0, 0>>
<1>1. PowerOn \in Controller
  <2>1. 0 \in Word
    BY WordType DEF Word
  <2>2. zero \in Ends
    BY <2>1 DEF Ends
  <2>3. mem \in [Cells -> Int] /\ at \in Nat \X Nat /\ "write" \in Names /\ 0 \in 0 .. 4
    BY DEF Unknown, Names
  <2>4. PowerOn = Controls("write", 0, at, zero, zero, mem)
    BY DEF PowerOn, Controls
  <2> HIDE DEF zero, mem, at
  <2> QED
    BY <2>2, <2>3, <2>4, ControlsIs
<1>2. FirstPanel \in Controller
  BY <1>1, ScreenCleared DEF FirstPanel
<1>3. a \in Seq(Write)
  BY <1>2, ScreenCleared
<1>4. b \in Seq(Write)
  BY MessageIs, TextIs
<1> DEFINE q == Received(FirstPanel, a)
<1>5. q \in Controller /\ q.mem = Blank
  BY <1>2, ScreenCleared
<1> HIDE DEF a, b, q
<1>6. Received(FirstPanel, a \o b) = Received(q, b)
  BY <1>2, <1>3, <1>4, ReceivedBoth DEF q
<1>7. Received(q, b).mem = StartUpPicture
  BY <1>5, TextShows DEF b
<1>8. StartUp = a \o b
  BY DEF StartUp, WriteString, a, b
<1>9. a \o b \in Seq(Write)
  BY <1>3, <1>4, ConcatProperties
<1> QED
  BY <1>2, <1>6, <1>7, <1>8, <1>9

-----------------------------------------------------------------------------
(* The inductive invariant                                                 *)

\* The panel after the first n of main's writes, if nobody else has written.
Drawn(n) == Received(FirstPanel, SubSeq(StartUp, 1, n))

Nothing == [c \in Cells |-> Unknown]

\* Until the first bitblt, main and the panel are alone.
Alone == blts = 0 => blt.left = 0 /\ panel = Drawn(done) /\ expect = StartUpPicture

\* While main draws after a bitblt has come into it, or while a bitblt that came
\* into it moves pixels, nothing can be relied on.
Disturbed ==
  blts > 0 /\ (~DrawnUp \/ (blt.left > 0 /\ ~blt.late)) => expect = Nothing

\* A later bitblt has the bus for itself: the panel expects its next pixel.
InOrder ==
  blt.left > 0 /\ blt.late =>
    /\ DrawnUp
    /\ blt.w > 0 /\ blt.moved + blt.left = blt.w * blt.h
    /\ Expects(panel, blt.x, blt.y, blt.w, blt.h, blt.moved)

PanelInv == TypeOK /\ Alone /\ Disturbed /\ InOrder /\ ScreenAsExpected

LEMMA DrawnIs ==
  /\ \A n \in 0 .. Len(StartUp) : Drawn(n) \in Controller
  /\ Drawn(0) = FirstPanel
  /\ \A n \in 0 .. Len(StartUp) - 1 : Drawn(n + 1) = Take(Drawn(n), StartUp[n + 1])
  /\ Drawn(Len(StartUp)).mem = StartUpPicture
<1> DEFINE s == StartUp
           N == Len(s)
           first == FirstPanel
<1>1. /\ first \in Controller /\ s \in Seq(Write) /\ N \in Nat
      /\ Received(first, s).mem = StartUpPicture
  BY StartUpDraws, LenProperties
<1> HIDE DEF s, first
<1>2. PICK f : /\ f[0] = first
               /\ \A n \in 1 .. N : f[n] = Take(f[n - 1], s[n])
               /\ Received(first, s) = f[N]
               /\ \A n \in 0 .. N : f[n] \in Controller
  BY <1>1, ReceivedRun
<1>3. ASSUME NEW n \in 0 .. N
      PROVE  Received(first, SubSeq(s, 1, n)) = f[n]
  <2> DEFINE t == SubSeq(s, 1, n)
  <2>1. t \in Seq(Write) /\ Len(t) = n /\ \A i \in 1 .. n : t[i] = s[i]
    BY <1>1
  <2> HIDE DEF t
  <2>2. \A i \in 1 .. Len(t) : f[i] = Take(f[i - 1], t[i])
    BY <1>1, <1>2, <2>1
  <2>3. Received(first, t) = f[Len(t)]
    BY <1>1, <1>2, <2>1, <2>2, ReceivedIs
  <2> QED
    BY <2>1, <2>3 DEF t
<1>4. \A n \in 0 .. N : Drawn(n) = f[n]
  BY <1>3 DEF Drawn, s, first
<1>5. Drawn(N).mem = StartUpPicture
  BY <1>1, <1>2, <1>4
<1>6. ASSUME NEW n \in 0 .. N - 1
      PROVE  Drawn(n + 1) = Take(Drawn(n), s[n + 1])
  <2> DEFINE k == n + 1
  <2>1. k \in 1 .. N /\ k \in 0 .. N /\ n \in 0 .. N /\ k - 1 = n
    BY <1>1
  <2> HIDE DEF k
  <2>2. Drawn(k) = Take(Drawn(n), s[k])
    BY <1>2, <1>4, <2>1
  <2> QED
    BY <2>2 DEF k
<1> QED
  BY <1>1, <1>2, <1>4, <1>5, <1>6 DEF s, first

\* What a bitblt writes to open its window.
LEMMA BltOpens ==
  ASSUME NEW p, p \in Controller, NEW b, b \in Windows
  PROVE  /\ b.x \in Columns /\ b.y \in Rows /\ b.w \in Nat /\ b.h \in Nat
         /\ b.w * b.h \in Nat
         /\ Received(p, BltStart(b)) \in Controller
         /\ Received(p, BltStart(b)).mem = p.mem
         /\ b.w * b.h > 0 =>
              b.w > 0 /\ Expects(Received(p, BltStart(b)), b.x, b.y, b.w, b.h, 0)
<1> DEFINE x == b.x
           y == b.y
           w == b.w
           h == b.h
           ws == BltStart(b)
           q == Received(p, ws)
<1>1. /\ x \in Columns /\ y \in Rows /\ w \in Nat /\ h \in Nat
      /\ x + w <= ScreenWidth /\ y + h <= ScreenHeight
  BY PanelAssumption
<1> HIDE DEF x, y, w, h
<1>2. w * h \in Nat
  BY <1>1
<1> DEFINE BB == Byte * Byte
<1>3. /\ BB \in Nat \ {0} /\ Word = 0 .. BB - 1
      /\ ScreenWidth \in Nat /\ ScreenHeight \in Nat
      /\ ScreenWidth <= BB /\ ScreenHeight <= BB
  BY Sizes, WordType DEF Word
<1> HIDE DEF BB
<1>4. x \in Word /\ y \in Word /\ x + w - 1 \in Int /\ y + h - 1 \in Int
  BY <1>1, <1>3 DEF Columns, Rows
<1> DEFINE s == SetWindow(x, y, x + w - 1, y + h - 1) \o GraphicsRamMode
           u == Word16(x + w - 1)
           v == Word16(y + h - 1)
<1>5. s \in Seq(Write) /\ Received(p, s) = Opened(p, x, y, u, v)
  BY <1>4, Opens
<1>6. ws = s
  BY DEF BltStart, x, y, w, h
<1> HIDE DEF s, ws
<1>7. q \in Controller
  BY <1>5, <1>6, ReceivedType
<1>8. q.mem = p.mem
  <2> HIDE DEF u, v, q
  <2>1. q = Opened(p, x, y, u, v)
    BY <1>5, <1>6 DEF q
  <2> QED
    BY <2>1 DEF Opened, Controls
<1>9. ASSUME w * h > 0
      PROVE  w > 0 /\ Expects(q, x, y, w, h, 0)
  <2>1. w \in Nat \ {0} /\ h \in Nat \ {0}
    BY <1>1, <1>9
  <2>2. x + w - 1 \in Word /\ y + h - 1 \in Word
    BY <1>1, <1>3, <2>1 DEF Columns, Rows
  <2>3. Addressable(x, y, w, h)
    BY <1>4, <2>1, <2>2 DEF Addressable
  <2>4. Expects(Received(p, Opening(x, y, w, h)), x, y, w, h, 0)
    BY <2>3, WindowOpens
  <2>5. Opening(x, y, w, h) = ws
    BY <1>6 DEF Opening, s
  <2> QED
    BY <2>1, <2>4, <2>5
<1> QED
  BY <1>1, <1>2, <1>7, <1>8, <1>9 DEF x, y, w, h, q, ws

LEMMA PictureType == StartUpPicture \in [Cells -> Int] /\ Nothing \in [Cells -> Int]
<1>1. \A c \in Cells : Seen(Len(Message), c) \in Int
  BY ColourIs DEF Seen, Background
<1>2. Picture(Len(Message)) \in [Cells -> Int]
  BY <1>1 DEF Picture
<1>3. Nothing \in [Cells -> Int]
  BY DEF Nothing, Unknown
<1> QED
  BY <1>2, <1>3, PictureIs

\* A bitblt under way.
Blt == [x : Columns, y : Rows, w : Nat, h : Nat, moved : Nat, left : Nat,
        late : BOOLEAN]

LEMMA BltIs ==
  ASSUME NEW x \in Columns, NEW y \in Rows, NEW w \in Nat, NEW h \in Nat,
         NEW moved \in Nat, NEW left \in Nat, NEW late \in BOOLEAN
  PROVE  [x |-> x, y |-> y, w |-> w, h |-> h, moved |-> moved, left |-> left,
          late |-> late] \in Blt
BY DEF Blt

LEMMA Initially == Init => PanelInv
<1> SUFFICES ASSUME Init PROVE PanelInv
  OBVIOUS
<1>1. /\ panel = FirstPanel /\ done = 0 /\ blt = NoBlt /\ blts = 0
      /\ expect = StartUpPicture
  BY DEF Init, FirstPanel
<1>2. Len(StartUp) \in Nat /\ panel \in Controller
  BY <1>1, StartUpDraws, LenProperties
<1>3. blt \in Blt /\ blt.left = 0
  <2>1. 0 \in Columns /\ 0 \in Rows
    BY Sizes DEF Columns, Rows
  <2>2. NoBlt \in Blt
    BY <2>1, BltIs DEF NoBlt
  <2> QED
    BY <1>1, <2>2 DEF NoBlt
<1>4. TypeOK
  BY <1>1, <1>2, <1>3, PictureType DEF TypeOK, Blt
<1>5. Alone
  BY <1>1, <1>3, DrawnIs DEF Alone
<1>6. Disturbed /\ InOrder
  BY <1>1, <1>3 DEF Disturbed, InOrder
<1>7. ScreenAsExpected
  BY <1>1, DrawnIs DEF ScreenAsExpected, DrawnUp
<1> QED
  BY <1>4, <1>5, <1>6, <1>7 DEF PanelInv

LEMMA MainWritesKeeps == PanelInv /\ MainWrites => PanelInv'
<1> SUFFICES ASSUME PanelInv, MainWrites PROVE PanelInv'
  OBVIOUS
<1> DEFINE N == Len(StartUp)
<1>1. /\ panel \in Controller /\ done \in 0 .. N /\ blt \in Blt /\ blts \in Nat
      /\ expect \in [Cells -> Int]
  BY DEF PanelInv, TypeOK, Blt
<1>2. /\ done # N /\ panel' = Take(panel, StartUp[done + 1]) /\ done' = done + 1
      /\ blt' = blt /\ blts' = blts /\ expect' = expect
  BY DEF MainWrites, DrawnUp
<1>3. N \in Nat /\ \A n \in 1 .. N : StartUp[n] \in Write
  BY StartUpDraws, LenProperties, ElementOfSeq
<1>4. done \in 0 .. N - 1 /\ done + 1 \in 1 .. N /\ done' \in 0 .. N
  BY <1>1, <1>2, <1>3
<1>5. panel' \in Controller
  BY <1>1, <1>2, <1>3, <1>4, TakeType
<1>6. TypeOK'
  BY <1>1, <1>2, <1>4, <1>5 DEF TypeOK, Blt
<1>7. Alone'
  BY <1>2, <1>4, DrawnIs DEF PanelInv, Alone
<1>8. blts > 0 => expect = Nothing
  BY <1>2 DEF PanelInv, Disturbed, DrawnUp
<1>9. ~(blt.left > 0 /\ blt.late)
  BY <1>2 DEF PanelInv, InOrder, DrawnUp
<1>10. Disturbed'
  BY <1>2, <1>8 DEF Disturbed, Nothing
<1>11. InOrder'
  BY <1>2, <1>9 DEF InOrder
<1>12. ScreenAsExpected'
  <2>1. CASE blts = 0
    <3>1. expect = StartUpPicture
      BY <2>1 DEF PanelInv, Alone
    <3>2. panel' = Drawn(done')
      BY <1>2, <1>7, <2>1 DEF Alone
    <3>3. done' = N => panel'.mem = StartUpPicture
      BY <3>2, DrawnIs
    <3> QED
      BY <1>2, <3>1, <3>3 DEF ScreenAsExpected, DrawnUp
  <2>2. CASE blts # 0
    <3>1. expect = Nothing
      BY <1>1, <1>8, <2>2
    <3> QED
      BY <1>2, <3>1 DEF ScreenAsExpected, Nothing
  <2> QED
    BY <2>1, <2>2
<1> QED
  BY <1>6, <1>7, <1>10, <1>11, <1>12 DEF PanelInv

LEMMA BltBeginsKeeps ==
  ASSUME NEW b, b \in Windows, PanelInv, BltBegins(b)
  PROVE  PanelInv'
<1>1. /\ panel \in Controller /\ done \in 0 .. Len(StartUp) /\ blts \in Nat
      /\ expect \in [Cells -> Int]
  BY DEF PanelInv, TypeOK
<1>2. /\ panel' = Received(panel, BltStart(b)) /\ done' = done /\ blts' = blts + 1
      /\ expect' = IF DrawnUp THEN expect ELSE Nothing
      /\ blt' = [x |-> b.x, y |-> b.y, w |-> b.w, h |-> b.h, moved |-> 0,
                 left |-> b.w * b.h, late |-> DrawnUp]
  BY DEF BltBegins, Nothing
<1>3. /\ b.x \in Columns /\ b.y \in Rows /\ b.w \in Nat /\ b.h \in Nat
      /\ b.w * b.h \in Nat /\ panel' \in Controller /\ panel'.mem = panel.mem
      /\ b.w * b.h > 0 => b.w > 0 /\ Expects(panel', b.x, b.y, b.w, b.h, 0)
  BY <1>1, <1>2, BltOpens
<1> DEFINE n == b.w * b.h
<1> HIDE DEF n
<1>4. DrawnUp' <=> DrawnUp
  BY <1>2 DEF DrawnUp
<1>5. DrawnUp \in BOOLEAN /\ 0 \in Nat
  BY DEF DrawnUp
<1>6. /\ blt'.x = b.x /\ blt'.y = b.y /\ blt'.w = b.w /\ blt'.h = b.h
      /\ blt'.moved = 0 /\ blt'.left = b.w * b.h /\ blt'.late = DrawnUp
  BY <1>2
<1>7. TypeOK'
  <2>1. blt' \in Blt
    BY <1>2, <1>3, <1>5, BltIs
  <2>2. expect' \in [Cells -> Int]
    BY <1>1, <1>2, PictureType
  <2> QED
    BY <1>1, <1>2, <1>3, <2>1, <2>2 DEF TypeOK, Blt
<1>8. Alone'
  BY <1>1, <1>2 DEF Alone
<1>9. Disturbed'
  BY <1>2, <1>4, <1>6 DEF Disturbed, Nothing
<1>10. InOrder'
  BY <1>3, <1>4, <1>6 DEF InOrder
<1>11. ScreenAsExpected'
  BY <1>2, <1>3, <1>4 DEF PanelInv, ScreenAsExpected, Nothing
<1> QED
  BY <1>7, <1>8, <1>9, <1>10, <1>11 DEF PanelInv

LEMMA PixelMovedKeeps == PanelInv /\ PixelMoved => PanelInv'
<1> SUFFICES ASSUME PanelInv, PixelMoved PROVE PanelInv'
  OBVIOUS
<1> DEFINE x == blt.x
           y == blt.y
           w == blt.w
           h == blt.h
           m == blt.moved
           left == blt.left
           late == blt.late
           v == Colour(m)
<1>1. /\ panel \in Controller /\ done \in 0 .. Len(StartUp) /\ blts \in Nat
      /\ expect \in [Cells -> Int] /\ blt \in Blt
  BY DEF PanelInv, TypeOK, Blt
<1>2. /\ x \in Columns /\ y \in Rows /\ w \in Nat /\ h \in Nat /\ m \in Nat
      /\ left \in Nat /\ late \in BOOLEAN
      /\ blt = [x |-> x, y |-> y, w |-> w, h |-> h, moved |-> m, left |-> left,
                late |-> late]
  BY <1>1 DEF Blt
<1>3. /\ left > 0 /\ panel' = Take(panel, Data(v)) /\ done' = done /\ blts' = blts
      /\ blt' = [blt EXCEPT !.moved = m + 1, !.left = left - 1]
      /\ expect' = IF late THEN [expect EXCEPT ![NextCell] = v] ELSE expect
  BY DEF PixelMoved
<1>4. v \in Int
  BY <1>2 DEF Colour
<1>5. panel' \in Controller
  BY <1>1, <1>3, <1>4, DataIs, TakeType
<1> HIDE DEF x, y, w, h, m, left, late, v
<1>6. blt' = [x |-> x, y |-> y, w |-> w, h |-> h, moved |-> m + 1, left |-> left - 1,
              late |-> late]
  BY <1>2, <1>3
<1>7. m + 1 \in Nat /\ left - 1 \in Nat
  BY <1>2, <1>3
<1>8. TypeOK'
  <2>1. blt' \in Blt
    BY <1>2, <1>6, <1>7, BltIs
  <2>2. expect' \in [Cells -> Int]
    BY <1>1, <1>3, <1>4
  <2> QED
    BY <1>1, <1>3, <1>5, <2>1, <2>2 DEF TypeOK, Blt
<1>9. blts > 0
  BY <1>1, <1>3 DEF PanelInv, Alone, left
<1>10. Alone'
  BY <1>3, <1>9 DEF Alone
<1>11. DrawnUp' <=> DrawnUp
  BY <1>3 DEF DrawnUp
<1>12. CASE late
  <2>1. /\ DrawnUp /\ w > 0 /\ m + left = w * h /\ Expects(panel, x, y, w, h, m)
    BY <1>3, <1>12 DEF PanelInv, InOrder, x, y, w, h, m, left, late
  <2>2. Fits(x, y, w, h, m)
    <3> DEFINE n == w * h
    <3>1. n \in Int /\ m + left = n
      BY <1>2, <2>1
    <3> HIDE DEF n
    <3>2. m < n
      BY <1>2, <1>3, <3>1
    <3> QED
      BY <1>2, <2>1, <3>2 DEF Fits, Columns, Rows, n
  <2>3. /\ Expects(panel', x, y, w, h, m + 1)
        /\ panel'.mem = Plot(panel.mem, CellAt(x, y, w, m), v)
    BY <1>1, <1>3, <1>4, <2>1, <2>2, PixelLands
  <2>4. NextCell = CellAt(x, y, w, m)
    BY DEF NextCell, CellAt, x, y, w, m
  <2>5. Disturbed'
    BY <1>6, <1>11, <1>12, <2>1 DEF Disturbed
  <2>6. InOrder'
    <3>1. (m + 1) + (left - 1) = w * h
      BY <1>2, <2>1
    <3>2. /\ blt'.x = x /\ blt'.y = y /\ blt'.w = w /\ blt'.h = h
          /\ blt'.moved = m + 1 /\ blt'.left = left - 1
      BY <1>6
    <3> QED
      BY <1>11, <2>1, <2>3, <3>1, <3>2 DEF InOrder
  <2>7. ScreenAsExpected'
    <3> DEFINE at == NextCell
               mem == panel.mem
    <3>1. \A c \in Cells : expect[c] \in {Unknown, mem[c]}
      BY <2>1 DEF PanelInv, ScreenAsExpected
    <3>2. expect' = [expect EXCEPT ![at] = v] /\ panel'.mem = Plot(mem, at, v)
      BY <1>3, <1>12, <2>3, <2>4
    <3> HIDE DEF at, mem
    <3>3. ASSUME NEW c \in Cells
          PROVE  expect'[c] \in {Unknown, panel'.mem[c]}
      <4>1. expect'[c] = IF c = at THEN v ELSE expect[c]
        BY <1>1, <3>2
      <4>2. panel'.mem[c] = IF c = at THEN v ELSE mem[c]
        BY <3>2 DEF Plot
      <4> QED
        BY <3>1, <4>1, <4>2
    <3> QED
      BY <3>3 DEF ScreenAsExpected, Unknown
  <2> QED
    BY <1>8, <1>10, <2>5, <2>6, <2>7 DEF PanelInv
<1>13. CASE ~late
  <2>1. expect = Nothing /\ expect' = Nothing
    BY <1>3, <1>9, <1>13 DEF PanelInv, Disturbed, left, late
  <2>2. Disturbed'
    BY <2>1 DEF Disturbed, Nothing
  <2>3. InOrder'
    BY <1>6, <1>13 DEF InOrder
  <2>4. ScreenAsExpected'
    BY <2>1 DEF ScreenAsExpected, Nothing
  <2> QED
    BY <1>8, <1>10, <2>2, <2>3, <2>4 DEF PanelInv
<1> QED
  BY <1>12, <1>13

LEMMA BltAbandonedKeeps == PanelInv /\ BltAbandoned => PanelInv'
<1> SUFFICES ASSUME PanelInv, BltAbandoned PROVE PanelInv'
  OBVIOUS
<1>1. /\ panel \in Controller /\ done \in 0 .. Len(StartUp) /\ blts \in Nat
      /\ expect \in [Cells -> Int] /\ blt \in Blt
  BY DEF PanelInv, TypeOK, Blt
<1>2. /\ blt.left > 0 /\ blt' = [blt EXCEPT !.left = 0]
      /\ panel' = panel /\ done' = done /\ blts' = blts /\ expect' = expect
  BY DEF BltAbandoned
<1>3. blt' \in Blt /\ blt'.left = 0
  BY <1>1, <1>2 DEF Blt
<1>4. TypeOK'
  BY <1>1, <1>2, <1>3 DEF TypeOK, Blt
<1>5. Alone'
  BY <1>2, <1>3 DEF PanelInv, Alone
<1>6. Disturbed'
  BY <1>2, <1>3 DEF PanelInv, Disturbed, DrawnUp, Nothing
<1>7. InOrder' /\ ScreenAsExpected'
  BY <1>2, <1>3 DEF PanelInv, InOrder, ScreenAsExpected, DrawnUp
<1> QED
  BY <1>4, <1>5, <1>6, <1>7 DEF PanelInv

LEMMA Kept == PanelInv /\ [Next]_vars => PanelInv'
<1> SUFFICES ASSUME PanelInv, [Next]_vars PROVE PanelInv'
  OBVIOUS
<1>1. CASE MainWrites
  BY <1>1, MainWritesKeeps
<1>2. ASSUME NEW b \in Windows, BltBegins(b)
      PROVE  PanelInv'
  BY <1>2, BltBeginsKeeps
<1>3. CASE PixelMoved
  BY <1>3, PixelMovedKeeps
<1>4. CASE BltAbandoned
  BY <1>4, BltAbandonedKeeps
<1>5. CASE UNCHANGED vars
  BY <1>5 DEF vars, PanelInv, TypeOK, Alone, Disturbed, InOrder, ScreenAsExpected,
              DrawnUp, Nothing
<1> QED
  BY <1>1, <1>2, <1>3, <1>4, <1>5 DEF Next

\* Main alone, main disturbed, a bitblt in its window: in every state the panel
\* is where the one that may write next left it (main.cpp, lcdtext.h, lcdiface.h).
THEOREM Invariance == Spec => []PanelInv
BY Initially, Kept, PTL DEF Spec

\* The variables have their types; the DMA moves no pixel nobody announced.
THEOREM TypeCorrect == Spec => []TypeOK
<1>1. PanelInv => TypeOK
  BY DEF PanelInv
<1> QED
  BY <1>1, Invariance, PTL

\* Every cell a user can rely on shows what it should, whatever the font, the
\* message and the bitblts, and wherever they come into the start-up.
THEOREM ScreenAlwaysAsExpected == Spec => []ScreenAsExpected
<1>1. PanelInv => ScreenAsExpected
  BY DEF PanelInv
<1> QED
  BY <1>1, Invariance, PTL

============================================================================
