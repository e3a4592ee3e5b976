-------------------------- MODULE TSMapStreamProofs --------------------------
(***************************************************************************)
(* TSMapStream for any lengths of messages, frames and records and any     *)
(* cut of them into reads: the messages handed on are control's, whole,    *)
(* once and in order, and a stream is given up only for a reason.          *)
(*                                                                         *)
(* Records, frames and messages are read by three automata.  What the      *)
(* client holds and what is still on the wire together is a run of each of *)
(* them to its end, wherever the cuts are.                                 *)
(***************************************************************************)
EXTENDS TSMapStream, WellFoundedInduction, TLAPS

\* A set that holds 0 and the successor of each natural number in it holds
\* every natural number.
LEMMA NatSetInduction ==
    ASSUME NEW S, 0 \in S, \A n \in Nat : n \in S => n + 1 \in S
    PROVE  Nat \subseteq S
<1> DEFINE T == Nat \ S
           R == OpToRel(<, Nat)
<1>1. SUFFICES ASSUME T # {} PROVE FALSE
  OBVIOUS
<1>2. IsWellFoundedOn(R, Nat)
  BY NatLessThanWellFounded
<1>3. PICK x \in T : \A y \in T : ~ (<<y, x>> \in R)
  <2> HIDE DEF R
  <2> QED BY <1>1, <1>2, WFMin
<1>4. x \in Nat /\ x # 0
  OBVIOUS
<1>5. x - 1 \in Nat /\ x - 1 < x
  BY <1>4
<1>6. <<x - 1, x>> \in R
  BY <1>4, <1>5 DEF OpToRel
<1>7. x - 1 \in S
  BY <1>3, <1>5, <1>6
<1>8. (x - 1) + 1 \in S
  BY <1>5, <1>7
<1> QED BY <1>4, <1>8

(***************************************************************************)
(* Runs.  R is a set of triples <<s, c, t>>: reading the cell c leads from *)
(* the state s to the state t.                                             *)
(***************************************************************************)
\* Reading the sequence Y leads from a to b along f.
RunAlong(R, Y, f, a, b) ==
    /\ f[0] = a /\ f[Len(Y)] = b
    /\ \A i \in 1..Len(Y) : <<f[i - 1], Y[i], f[i]>> \in R

Run(R, S, Y, a, b) == \E f \in [0..Len(Y) -> S] : RunAlong(R, Y, f, a, b)

\* A concatenation, cell by cell.
LEMMA Concatenated ==
    ASSUME NEW C, NEW Y \in Seq(C), NEW Z \in Seq(C)
    PROVE  /\ Y \o Z \in Seq(C) /\ Len(Y \o Z) = Len(Y) + Len(Z)
           /\ \A i \in 1..Len(Y) : (Y \o Z)[i] = Y[i]
           /\ \A i \in 1..Len(Z) : (Y \o Z)[Len(Y) + i] = Z[i]
OBVIOUS

\* Reading nothing leads nowhere.
LEMMA RunEmpty ==
    ASSUME NEW R, NEW S, NEW a \in S
    PROVE  \A b : Run(R, S, <<>>, a, b) <=> b = a
<1>1. ASSUME NEW b, Run(R, S, <<>>, a, b) PROVE b = a
  BY <1>1 DEF Run, RunAlong
<1>2. Run(R, S, <<>>, a, a)
  <2>1. [i \in 0..0 |-> a] \in [0..Len(<<>>) -> S]
    OBVIOUS
  <2>2. RunAlong(R, <<>>, [i \in 0..0 |-> a], a, a)
    BY DEF RunAlong
  <2> QED BY <2>1, <2>2 DEF Run
<1> QED BY <1>1, <1>2

\* Both ends of a run are states.
LEMMA RunEnds ==
    ASSUME NEW R, NEW S, NEW C, NEW Y \in Seq(C), NEW a, NEW b, Run(R, S, Y, a, b)
    PROVE  a \in S /\ b \in S
BY DEF Run, RunAlong

\* Reading Y and then Z.
LEMMA RunCat ==
    ASSUME NEW R, NEW S, NEW C, NEW Y \in Seq(C), NEW Z \in Seq(C), NEW a, NEW b, NEW c,
           Run(R, S, Y, a, b), Run(R, S, Z, b, c)
    PROVE  Run(R, S, Y \o Z, a, c)
<1>1. PICK f \in [0..Len(Y) -> S] : RunAlong(R, Y, f, a, b)
  BY DEF Run
<1>2. PICK g \in [0..Len(Z) -> S] : RunAlong(R, Z, g, b, c)
  BY DEF Run
<1> DEFINE n == Len(Y)
           m == Len(Z)
           h == [i \in 0..(n + m) |-> IF i <= n THEN f[i] ELSE g[i - n]]
<1>3. n \in Nat /\ m \in Nat /\ Len(Y \o Z) = n + m
  OBVIOUS
<1>4. /\ \A i \in 1..n : (Y \o Z)[i] = Y[i]
      /\ \A i \in 1..m : (Y \o Z)[n + i] = Z[i]
  OBVIOUS
<1>5. f[0] = a /\ f[n] = b /\ \A i \in 1..n : <<f[i - 1], Y[i], f[i]>> \in R
  BY <1>1 DEF RunAlong
<1>6. g[0] = b /\ g[m] = c /\ \A i \in 1..m : <<g[i - 1], Z[i], g[i]>> \in R
  BY <1>2 DEF RunAlong
<1> HIDE DEF n, m
<1>7. h \in [0..(n + m) -> S]
  BY <1>3, <1>1, <1>2 DEF n, m
<1>8. h[0] = a
  BY <1>3, <1>5
<1>9. h[n + m] = c
  <2>1. CASE m = 0
    <3>1. n + m = n /\ h[n] = f[n]
      BY <1>3, <2>1
    <3> QED BY <1>5, <1>6, <2>1, <3>1
  <2>2. CASE m # 0
    <3>1. n + m \in 0..(n + m) /\ ~ (n + m <= n) /\ (n + m) - n = m
      BY <1>3, <2>2
    <3>2. h[n + m] = g[m]
      BY <3>1
    <3> QED BY <1>6, <3>2
  <2> QED BY <2>1, <2>2
<1>10. ASSUME NEW i \in 1..(n + m) PROVE <<h[i - 1], (Y \o Z)[i], h[i]>> \in R
  <2>1. CASE i <= n
    <3>1. i \in 1..n /\ i - 1 <= n /\ i - 1 \in 0..(n + m) /\ i \in 0..(n + m)
      BY <1>3, <2>1
    <3>2. h[i - 1] = f[i - 1] /\ h[i] = f[i]
      BY <2>1, <3>1
    <3>3. (Y \o Z)[i] = Y[i]
      BY <1>4, <3>1
    <3> QED BY <1>5, <3>1, <3>2, <3>3
  <2>2. CASE i = n + 1
    <3>1. h[i - 1] = g[0] /\ h[i] = g[1] /\ 1 \in 1..m
      BY <1>3, <1>5, <1>6, <2>2
    <3>2. (Y \o Z)[i] = Z[1]
      BY <1>4, <2>2, <3>1
    <3> QED BY <1>6, <3>1, <3>2
  <2>3. CASE i > n + 1
    <3>1. i - n \in 1..m /\ i = n + (i - n) /\ (i - n) - 1 = (i - 1) - n
      BY <1>3, <2>3
    <3>2. h[i - 1] = g[(i - n) - 1] /\ h[i] = g[i - n]
      BY <1>3, <2>3, <3>1
    <3>3. (Y \o Z)[i] = Z[i - n]
      BY <1>4, <3>1
    <3> QED BY <1>6, <3>1, <3>2, <3>3
  <2>4. i <= n \/ i = n + 1 \/ i > n + 1
    BY <1>3
  <2> HIDE DEF h
  <2> QED BY <2>1, <2>2, <2>3, <2>4, Zenon
<1> HIDE DEF h
<1> QED BY <1>3, <1>7, <1>8, <1>9, <1>10 DEF Run, RunAlong

\* A run can be cut after k cells.
LEMMA RunCut ==
    ASSUME NEW R, NEW S, NEW C, NEW Y \in Seq(C), NEW a, NEW b,
           Run(R, S, Y, a, b), NEW k \in 0..Len(Y)
    PROVE  \E c \in S : /\ Run(R, S, SubSeq(Y, 1, k), a, c)
                        /\ Run(R, S, SubSeq(Y, k + 1, Len(Y)), c, b)
<1>1. PICK f \in [0..Len(Y) -> S] : RunAlong(R, Y, f, a, b)
  BY DEF Run
<1> DEFINE n == Len(Y)
           A == SubSeq(Y, 1, k)
           B == SubSeq(Y, k + 1, n)
           g == [i \in 0..k |-> f[i]]
           h == [i \in 0..(n - k) |-> f[k + i]]
<1>2. n \in Nat /\ k \in Nat /\ k <= n
  OBVIOUS
<1>3. f[0] = a /\ f[n] = b /\ \A i \in 1..n : <<f[i - 1], Y[i], f[i]>> \in R
  BY <1>1 DEF RunAlong
<1>4. Len(A) = k /\ \A i \in 1..k : A[i] = Y[i]
  BY <1>2
<1>5. Len(B) = n - k
  BY <1>2
<1>6. \A i \in 1..(n - k) : B[i] = Y[k + i]
  BY <1>2
<1> HIDE DEF n, A, B
<1>7. g \in [0..k -> S] /\ h \in [0..(n - k) -> S]
  BY <1>1, <1>2 DEF n
<1>8. RunAlong(R, A, g, a, f[k])
  BY <1>2, <1>3, <1>4 DEF RunAlong
<1>9. RunAlong(R, B, h, f[k], b)
  <2>1. h[0] = f[k] /\ h[n - k] = b
    BY <1>2, <1>3
  <2>2. ASSUME NEW i \in 1..(n - k) PROVE <<h[i - 1], B[i], h[i]>> \in R
    <3>1. k + i \in 1..n /\ (k + i) - 1 = k + (i - 1) /\ i - 1 \in 0..(n - k) /\ i \in 0..(n - k)
      BY <1>2
    <3>2. h[i - 1] = f[(k + i) - 1] /\ h[i] = f[k + i] /\ B[i] = Y[k + i]
      BY <1>6, <3>1
    <3> HIDE DEF h
    <3> QED BY <1>3, <3>1, <3>2
  <2> HIDE DEF h
  <2> QED BY <1>5, <2>1, <2>2 DEF RunAlong
<1> HIDE DEF g, h
<1>10. Run(R, S, A, a, f[k]) /\ Run(R, S, B, f[k], b)
  BY <1>4, <1>5, <1>7, <1>8, <1>9 DEF Run
<1>11. f[k] \in S
  BY <1>1, <1>2 DEF n
<1> QED BY <1>10, <1>11 DEF A, B, n

\* A run over a concatenation is one over its parts.
LEMMA RunParts ==
    ASSUME NEW R, NEW S, NEW C, NEW Y \in Seq(C), NEW Z \in Seq(C), NEW a, NEW b,
           Run(R, S, Y \o Z, a, b)
    PROVE  \E c \in S : Run(R, S, Y, a, c) /\ Run(R, S, Z, c, b)
<1> DEFINE k == Len(Y)  X == Y \o Z
<1>1. X \in Seq(C) /\ k \in 0..Len(X) /\ Len(X) = k + Len(Z)
  OBVIOUS
<1>2. SubSeq(X, 1, k) = Y
  OBVIOUS
<1>3. SubSeq(X, k + 1, Len(X)) = Z
  OBVIOUS
<1> HIDE DEF k, X
<1>4. Run(R, S, X, a, b)
  BY DEF X
<1> QED BY <1>1, <1>2, <1>3, <1>4, RunCut

\* Reading one cell is one step.
LEMMA RunOne ==
    ASSUME NEW R, NEW S, NEW c, NEW a \in S, NEW b \in S
    PROVE  Run(R, S, <<c>>, a, b) <=> <<a, c, b>> \in R
<1>1. Len(<<c>>) = 1 /\ <<c>>[1] = c
  OBVIOUS
<1>2. ASSUME Run(R, S, <<c>>, a, b) PROVE <<a, c, b>> \in R
  <2>1. PICK f \in [0..1 -> S] : RunAlong(R, <<c>>, f, a, b)
    BY <1>1, <1>2 DEF Run
  <2>2. f[0] = a /\ f[1] = b /\ <<f[1 - 1], <<c>>[1], f[1]>> \in R
    BY <1>1, <2>1 DEF RunAlong
  <2> QED BY <1>1, <2>2
<1>3. ASSUME <<a, c, b>> \in R PROVE Run(R, S, <<c>>, a, b)
  <2> DEFINE f == [i \in 0..1 |-> IF i = 0 THEN a ELSE b]
  <2>1. f \in [0..1 -> S] /\ f[0] = a /\ f[1] = b
    OBVIOUS
  <2>2. \A i \in 1..1 : <<f[i - 1], <<c>>[i], f[i]>> \in R
    BY <1>1, <1>3, <2>1
  <2> HIDE DEF f
  <2>3. RunAlong(R, <<c>>, f, a, b)
    BY <1>1, <2>1, <2>2 DEF RunAlong
  <2> QED BY <1>1, <2>1, <2>3 DEF Run
<1> QED BY <1>2, <1>3

\* A cell that leaves every state alone can be put anywhere.
LEMMA RunInsert ==
    ASSUME NEW R, NEW S, NEW C, NEW Y \in Seq(C), NEW Z \in Seq(C), NEW c \in C, NEW a, NEW b,
           Run(R, S, Y \o Z, a, b), \A s \in S : <<s, c, s>> \in R
    PROVE  Run(R, S, (Y \o <<c>>) \o Z, a, b)
<1>1. PICK s \in S : Run(R, S, Y, a, s) /\ Run(R, S, Z, s, b)
  BY RunParts
<1>2. Run(R, S, <<c>>, s, s)
  BY RunOne
<1>3. <<c>> \in Seq(C) /\ Y \o <<c>> \in Seq(C)
  OBVIOUS
<1>4. Run(R, S, Y \o <<c>>, a, s)
  BY <1>1, <1>2, <1>3, RunCat
<1> QED BY <1>1, <1>3, <1>4, RunCat

\* ... and a cell that leaves every state alone can be dropped.
LEMMA RunDrop ==
    ASSUME NEW R, NEW S, NEW C, NEW Y \in Seq(C), NEW Z \in Seq(C), NEW c \in C, NEW a, NEW b,
           Run(R, S, (Y \o <<c>>) \o Z, a, b),
           \A s \in S : \A t \in S : <<s, c, t>> \in R => s = t
    PROVE  Run(R, S, Y \o Z, a, b)
<1>1. <<c>> \in Seq(C) /\ Y \o <<c>> \in Seq(C)
  OBVIOUS
<1>2. PICK t \in S : Run(R, S, Y \o <<c>>, a, t) /\ Run(R, S, Z, t, b)
  BY <1>1, RunParts
<1>3. PICK s \in S : Run(R, S, Y, a, s) /\ Run(R, S, <<c>>, s, t)
  BY <1>1, <1>2, RunParts
<1>4. s = t
  BY <1>3, RunOne
<1> QED BY <1>2, <1>3, <1>4, RunCat

-----------------------------------------------------------------------------
(***************************************************************************)
(* The cells there are, and the three things that read them.               *)
(***************************************************************************)
Frame == [type : {"DATA"}, len : 0..MaxFrame, end : BOOLEAN]
         \cup [type : {"PING", "GOAWAY"}, len : {0}, end : {FALSE}]

RecordCell == [is : {"record"}, len : 1..MaxRecord]
HeaderCell == [is : {"frame"}, frame : Frame] \cup [is : {"frame2"}]
DataCell == [is : {"prefix", "body"}, of : DOMAIN Lengths]
PlainCell == HeaderCell \cup DataCell
Cell == RecordCell \cup PlainCell

\* Records: the number of cells still missing of the current one.
RecordStep(s, c, t) ==
    \/ c.is = "record" /\ s = 0 /\ t = c.len
    \/ c.is # "record" /\ s = t + 1
RecordSteps == {x \in Nat \X Cell \X Nat : RecordStep(x[1], x[2], x[3])}

\* Frames: the number of cells still missing of the current one, whether the
\* second half of its header is, and whether a frame that ended the stream was
\* seen; none after it carries anything.
FrameState == [left : Nat, at : {"frame", "header"}, ended : {"no", "yes"}]
FrameStep(s, c, t) ==
    \/ c.is = "record" /\ t = s
    \/ /\ c.is = "frame" /\ s.left = 0 /\ s.at = "frame"
       /\ s.ended = "yes" => c.frame.len = 0
       /\ t = [left |-> c.frame.len, at |-> "header",
               ended |-> IF c.frame.end THEN "yes" ELSE s.ended]
    \/ c.is = "frame2" /\ s.at = "header" /\ t = [left |-> s.left, at |-> "frame", ended |-> s.ended]
    \/ /\ c.is \in {"prefix", "body"} /\ s.at = "frame" /\ s.left > 0
       /\ t = [left |-> s.left - 1, at |-> "frame", ended |-> s.ended]
FrameSteps == {x \in FrameState \X Cell \X FrameState : FrameStep(x[1], x[2], x[3])}

\* Messages: how many have begun, and the cells still missing of the last one.
DataState == [seen : Nat, left : Nat]
DataStep(s, c, t) ==
    \/ c.is \notin {"prefix", "body"} /\ t = s
    \/ /\ c.is = "prefix" /\ s.left = 0 /\ c.of = s.seen + 1
       /\ t = [seen |-> c.of, left |-> Lengths[c.of]]
    \/ /\ c.is = "body" /\ c.of = s.seen /\ s.left > 0
       /\ t = [seen |-> s.seen, left |-> s.left - 1]
DataSteps == {x \in DataState \X Cell \X DataState : DataStep(x[1], x[2], x[3])}

\* What it is to be a step of each of the three.
LEMMA RecordStepIs ==
    ASSUME NEW s, NEW c, NEW t
    PROVE  <<s, c, t>> \in RecordSteps <=> s \in Nat /\ c \in Cell /\ t \in Nat /\ RecordStep(s, c, t)
BY DEF RecordSteps

\* ... of the frames.
LEMMA FrameStepIs ==
    ASSUME NEW s, NEW c, NEW t
    PROVE  <<s, c, t>> \in FrameSteps <=>
              s \in FrameState /\ c \in Cell /\ t \in FrameState /\ FrameStep(s, c, t)
BY DEF FrameSteps

\* ... of the messages.
LEMMA DataStepIs ==
    ASSUME NEW s, NEW c, NEW t
    PROVE  <<s, c, t>> \in DataSteps <=>
              s \in DataState /\ c \in Cell /\ t \in DataState /\ DataStep(s, c, t)
BY DEF DataSteps

\* Which cells there are shows in "is".
LEMMA CellKinds ==
    ASSUME NEW c \in Cell
    PROVE  /\ c.is \in {"record", "frame", "frame2", "prefix", "body"}
           /\ c.is = "record" <=> c \in RecordCell
           /\ c.is # "record" <=> c \in PlainCell
           /\ c.is \in {"prefix", "body"} <=> c \in DataCell
           /\ c.is = "frame" => c.frame \in Frame
           /\ c.is = "frame2" => c = [is |-> "frame2"]
BY DEF Cell, PlainCell, RecordCell, HeaderCell, DataCell

-----------------------------------------------------------------------------
(***************************************************************************)
(* What the three of them read.                                            *)
(***************************************************************************)
\* Induction up to n.
LEMMA UpTo ==
    ASSUME NEW n \in Nat, NEW S, 0 \in S, \A i \in 0..(n - 1) : i \in S => i + 1 \in S
    PROVE  0..n \subseteq S
<1> DEFINE T == {i \in Nat : i <= n => i \in S}
<1>1. 0 \in T
  OBVIOUS
<1>2. ASSUME NEW i \in Nat, i \in T PROVE i + 1 \in T
  <2>1. CASE i + 1 <= n
    <3>1. i \in 0..(n - 1) /\ i <= n
      BY <2>1
    <3>2. i \in S
      BY <1>2, <3>1
    <3>3. i + 1 \in S
      BY <3>1, <3>2
    <3> QED BY <3>3
  <2> QED BY <2>1
<1>3. Nat \subseteq T
  <2> HIDE DEF T
  <2> QED BY <1>1, <1>2, NatSetInduction
<1> QED BY <1>3

\* Cells inside a record are read one by one.
LEMMA RecordInside ==
    ASSUME NEW X \in Seq(PlainCell)
    PROVE  Run(RecordSteps, Nat, X, Len(X), 0)
<1> DEFINE n == Len(X)
           f == [i \in 0..n |-> n - i]
<1>1. n \in Nat /\ f \in [0..n -> Nat] /\ f[0] = n /\ f[n] = 0
  OBVIOUS
<1>2. ASSUME NEW i \in 1..n PROVE <<f[i - 1], X[i], f[i]>> \in RecordSteps
  <2>1. i - 1 \in 0..n /\ i \in 0..n
    BY <1>1
  <2>2. f[i - 1] = n - (i - 1) /\ f[i] = n - i
    BY <2>1
  <2>3. f[i - 1] \in Nat /\ f[i] \in Nat /\ f[i - 1] = f[i] + 1
    BY <1>1, <2>1, <2>2
  <2>4. X[i] \in PlainCell
    OBVIOUS
  <2>5. X[i] \in Cell /\ X[i].is # "record"
    <3>1. X[i] \in Cell
      BY <2>4 DEF Cell
    <3> QED BY <2>4, <3>1, CellKinds
  <2> HIDE DEF f
  <2> QED BY <2>3, <2>5, RecordStepIs DEF RecordStep
<1> HIDE DEF f
<1> QED BY <1>1, <1>2 DEF Run, RunAlong

\* The server's record is a whole one.
LEMMA RecordWritten ==
    ASSUME NEW X \in Seq(PlainCell), Len(X) \in 1..MaxRecord
    PROVE  Run(RecordSteps, Nat, <<[is |-> "record", len |-> Len(X)]>> \o X, 0, 0)
<1> DEFINE c == [is |-> "record", len |-> Len(X)]
<1>1. c \in RecordCell /\ c \in Cell /\ c.is = "record" /\ c.len = Len(X)
  BY DEF RecordCell, Cell
<1>2. X \in Seq(Cell)
  BY DEF Cell
<1>3. Len(X) \in Nat
  OBVIOUS
<1> HIDE DEF c
<1>4. <<0, c, Len(X)>> \in RecordSteps
  BY <1>1, <1>3, RecordStepIs DEF RecordStep
<1>5. Run(RecordSteps, Nat, <<c>>, 0, Len(X))
  BY <1>3, <1>4, RunOne
<1>6. <<c>> \in Seq(Cell)
  BY <1>1
<1>7. Run(RecordSteps, Nat, <<c>> \o X, 0, 0)
  BY <1>2, <1>5, <1>6, RecordInside, RunCat
<1> QED BY <1>7 DEF c

\* What follows a whole record begins with one.
LEMMA RecordFirst ==
    ASSUME NEW Y \in Seq(Cell), NEW b, Run(RecordSteps, Nat, Y, 0, b), Y # <<>>
    PROVE  Y[1] \in RecordCell
<1>1. PICK f \in [0..Len(Y) -> Nat] : RunAlong(RecordSteps, Y, f, 0, b)
  BY DEF Run
<1>2. 1 \in 1..Len(Y)
  OBVIOUS
<1>3. f[0] = 0 /\ <<f[1 - 1], Y[1], f[1]>> \in RecordSteps
  BY <1>1, <1>2 DEF RunAlong
<1>4. f[1] \in Nat
  BY <1>1, <1>2
<1>5. Y[1] \in Cell /\ RecordStep(0, Y[1], f[1])
  BY <1>3, RecordStepIs
<1>6. Y[1].is = "record"
  BY <1>4, <1>5 DEF RecordStep
<1> QED BY <1>5, <1>6, CellKinds

\* A record of the announced length is read to its end, and has no record
\* header inside.
LEMMA RecordRead ==
    ASSUME NEW Y \in Seq(Cell), NEW b, Run(RecordSteps, Nat, Y, 0, b),
           Y # <<>>, Len(Y) = 1 + Y[1].len
    PROVE  b = 0 /\ Tail(Y) \in Seq(PlainCell) /\ Y = <<Y[1]>> \o Tail(Y)
<1>1. PICK f \in [0..Len(Y) -> Nat] : RunAlong(RecordSteps, Y, f, 0, b)
  BY DEF Run
<1> DEFINE n == Y[1].len
<1>2. Y[1] \in RecordCell /\ n \in Nat /\ Len(Y) = n + 1
  <2>1. Y[1] \in RecordCell
    BY RecordFirst
  <2> QED BY <2>1, MapStreamAssumption DEF RecordCell
<1>3. f[0] = 0 /\ f[n + 1] = b
      /\ \A i \in 1..(n + 1) : <<f[i - 1], Y[i], f[i]>> \in RecordSteps
  BY <1>1, <1>2 DEF RunAlong
<1> HIDE DEF n
<1>4. \A i \in 1..(n + 1) : Y[i] \in Cell /\ RecordStep(f[i - 1], Y[i], f[i])
  BY <1>3, RecordStepIs
<1>5. \A i \in 0..(n + 1) : f[i] \in Nat
  BY <1>1, <1>2
<1> DEFINE S == {i \in Nat : f[1 + i] = n - i /\ (i > 0 => Y[1 + i] \in PlainCell)}
<1>6. 0 \in S
  <2>1. RecordStep(f[0], Y[1], f[1])
    BY <1>2, <1>4
  <2>2. Y[1].is = "record"
    BY <1>2 DEF RecordCell
  <2>3. f[1] = n
    BY <2>1, <2>2 DEF RecordStep, n
  <2> QED BY <1>2, <2>3
<1>7. ASSUME NEW i \in 0..(n - 1), i \in S PROVE i + 1 \in S
  <2>1. i + 2 \in 1..(n + 1) /\ (i + 2) - 1 = i + 1 /\ i + 1 \in 0..(n + 1) /\ i + 2 \in 0..(n + 1)
    BY <1>2
  <2>2. f[i + 1] = n - i /\ f[i + 1] # 0
    BY <1>2, <1>7
  <2>3. RecordStep(f[i + 1], Y[i + 2], f[i + 2]) /\ Y[i + 2] \in Cell
    BY <1>4, <2>1
  <2>4. Y[i + 2].is # "record" /\ f[i + 1] = f[i + 2] + 1
    BY <2>2, <2>3 DEF RecordStep
  <2>5. Y[i + 2] \in PlainCell
    BY <2>3, <2>4, CellKinds
  <2>6. f[i + 2] = n - (i + 1)
    BY <1>2, <1>5, <2>1, <2>2, <2>4
  <2>7. 1 + (i + 1) = i + 2 /\ i + 1 \in Nat
    OBVIOUS
  <2> QED BY <2>5, <2>6, <2>7
<1>8. 0..n \subseteq S
  <2> HIDE DEF S
  <2> QED BY <1>2, <1>6, <1>7, UpTo
<1>9. b = 0
  BY <1>2, <1>3, <1>8
<1>10. \A i \in 1..n : Y[1 + i] \in PlainCell
  BY <1>2, <1>8
<1>11. Tail(Y) \in Seq(PlainCell)
  <2>1. Len(Tail(Y)) = n /\ Tail(Y) \in Seq(Cell)
    BY <1>2
  <2>2. \A i \in 1..n : Tail(Y)[i] = Y[1 + i]
    BY <1>2
  <2>3. \A i \in 1..n : Tail(Y)[i] \in PlainCell
    BY <1>10, <2>2
  <2>4. Tail(Y) = [i \in 1..n |-> Tail(Y)[i]]
    BY <2>1
  <2> DEFINE Z == Tail(Y)
  <2> HIDE DEF Z
  <2>5. Z \in [1..n -> PlainCell]
    BY <2>3, <2>4 DEF Z
  <2> QED BY <1>2, <2>5 DEF Z
<1>12. Y = <<Y[1]>> \o Tail(Y)
  OBVIOUS
<1> QED BY <1>9, <1>11, <1>12

\* The cells of a frame are read one by one.
LEMMA FrameInside ==
    ASSUME NEW X \in Seq(DataCell), NEW e \in {"no", "yes"}
    PROVE  Run(FrameSteps, FrameState, X, [left |-> Len(X), at |-> "frame", ended |-> e],
               [left |-> 0, at |-> "frame", ended |-> e])
<1> DEFINE n == Len(X)
           s(i) == [left |-> n - i, at |-> "frame", ended |-> e]
           f == [i \in 0..n |-> s(i)]
<1>1. n \in Nat
  OBVIOUS
<1>2. \A i \in 0..n : s(i) \in FrameState /\ s(i).left = n - i /\ s(i).at = "frame" /\ s(i).ended = e
  BY <1>1 DEF FrameState
<1>3. f \in [0..n -> FrameState]
  BY <1>2
<1>4. ASSUME NEW i \in 1..n PROVE <<f[i - 1], X[i], f[i]>> \in FrameSteps
  <2>1. i - 1 \in 0..n /\ i \in 0..n
    BY <1>1
  <2>2. f[i - 1] = s(i - 1) /\ f[i] = s(i)
    BY <2>1
  <2>3. X[i] \in DataCell
    OBVIOUS
  <2>4. X[i] \in Cell
    BY <2>3 DEF Cell, PlainCell
  <2>5. X[i].is \in {"prefix", "body"}
    BY <2>3, <2>4, CellKinds
  <2>6. s(i) = [left |-> s(i - 1).left - 1, at |-> "frame", ended |-> s(i - 1).ended] /\ s(i - 1).left > 0
    BY <1>1
  <2>7. s(i - 1).at = "frame" /\ s(i - 1) \in FrameState /\ s(i) \in FrameState
    BY <1>2, <2>1
  <2> HIDE DEF s, f
  <2>8. FrameStep(s(i - 1), X[i], s(i))
    BY <2>5, <2>6, <2>7 DEF FrameStep
  <2>9. <<s(i - 1), X[i], s(i)>> \in FrameSteps
    BY <2>4, <2>7, <2>8, FrameStepIs
  <2> QED BY <2>2, <2>9
<1>5. f[0] = s(0) /\ f[n] = s(n)
  BY <1>1
<1>6. s(0) = [left |-> Len(X), at |-> "frame", ended |-> e] /\ s(n) = [left |-> 0, at |-> "frame", ended |-> e]
  BY <1>1
<1> HIDE DEF s, f
<1>7. RunAlong(FrameSteps, X, f, s(0), s(n))
  BY <1>4, <1>5 DEF RunAlong
<1>8. Run(FrameSteps, FrameState, X, s(0), s(n))
  BY <1>3, <1>7 DEF Run
<1> QED BY <1>6, <1>8

\* A frame is its header and as many cells as it says.
LEMMA FrameWritten ==
    ASSUME NEW type, NEW end \in BOOLEAN, NEW X \in Seq(DataCell),
           [type |-> type, len |-> Len(X), end |-> end] \in Frame,
           NEW e \in {"no", "yes"}, e = "yes" => X = <<>>
    PROVE  Run(FrameSteps, FrameState, Header(type, Len(X), end) \o X,
               [left |-> 0, at |-> "frame", ended |-> e],
               [left |-> 0, at |-> "frame", ended |-> IF end THEN "yes" ELSE e])
<1> DEFINE fr == [type |-> type, len |-> Len(X), end |-> end]
           c == [is |-> "frame", frame |-> fr]
           d == [is |-> "frame2"]
           e2 == IF end THEN "yes" ELSE e
           s == [left |-> 0, at |-> "frame", ended |-> e]
           t == [left |-> Len(X), at |-> "header", ended |-> e2]
           u == [left |-> Len(X), at |-> "frame", ended |-> e2]
           z == [left |-> 0, at |-> "frame", ended |-> e2]
<1>1. /\ c \in Cell /\ c.is = "frame" /\ c.frame = fr
      /\ d \in Cell /\ d.is = "frame2"
  BY DEF Cell, PlainCell, HeaderCell
<1>2. fr.len = Len(X) /\ fr.end = end /\ Len(X) \in Nat /\ e2 \in {"no", "yes"}
  OBVIOUS
<1>3. s \in FrameState /\ t \in FrameState /\ u \in FrameState
  BY <1>2 DEF FrameState
<1>4. FrameStep(s, c, t)
  <2>1. e = "yes" => Len(X) = 0
    OBVIOUS
  <2>2. t = [left |-> c.frame.len, at |-> "header", ended |-> IF c.frame.end THEN "yes" ELSE s.ended]
    BY <1>1, <1>2
  <2>3. s.left = 0 /\ s.at = "frame" /\ s.ended = e
    OBVIOUS
  <2>4. s.ended = "yes" => c.frame.len = 0
    BY <1>1, <1>2, <2>1, <2>3
  <2> HIDE DEF s, t, c
  <2> QED BY <1>1, <2>2, <2>3, <2>4 DEF FrameStep
<1>5. FrameStep(t, d, u)
  BY <1>1 DEF FrameStep
<1>6. X \in Seq(Cell)
  BY DEF Cell, PlainCell
<1>7. Run(FrameSteps, FrameState, X, u, z)
  BY <1>2, FrameInside
<1>8. Header(type, Len(X), end) = <<c>> \o <<d>>
  BY DEF Header
<1> HIDE DEF s, t, u, c, d, z
<1>9. Run(FrameSteps, FrameState, <<c>>, s, t) /\ Run(FrameSteps, FrameState, <<d>>, t, u)
  BY <1>1, <1>3, <1>4, <1>5, RunOne, FrameStepIs
<1>10. <<c>> \in Seq(Cell) /\ <<d>> \in Seq(Cell) /\ <<c>> \o <<d>> \in Seq(Cell)
  BY <1>1
<1>11. Run(FrameSteps, FrameState, <<c>> \o <<d>>, s, u)
  BY <1>9, <1>10, RunCat
<1>12. Run(FrameSteps, FrameState, (<<c>> \o <<d>>) \o X, s, z)
  BY <1>6, <1>7, <1>10, <1>11, RunCat
<1> QED BY <1>8, <1>12 DEF s, z

\* Between frames there is a header.
LEMMA HeaderRead ==
    ASSUME NEW X \in Seq(PlainCell), Len(X) = 2, NEW e \in {"no", "yes"}, NEW t,
           Run(FrameSteps, FrameState, X, [left |-> 0, at |-> "frame", ended |-> e], t)
    PROVE  /\ X[1] = [is |-> "frame", frame |-> X[1].frame] /\ X[1].frame \in Frame
           /\ X[2] = [is |-> "frame2"]
           /\ t = [left |-> X[1].frame.len, at |-> "frame",
                   ended |-> IF X[1].frame.end THEN "yes" ELSE e]
<1> DEFINE s == [left |-> 0, at |-> "frame", ended |-> e]
           c == X[1]
           d == X[2]
<1>1. c \in PlainCell /\ d \in PlainCell
  OBVIOUS
<1>2. c \in Cell /\ d \in Cell
  BY <1>1 DEF Cell
<1>3. s.left = 0 /\ s.at = "frame" /\ s.ended = e
  OBVIOUS
<1> HIDE DEF s
<1>4. PICK f \in [0..2 -> FrameState] : RunAlong(FrameSteps, X, f, s, t)
  BY DEF Run, s
<1>5. f[0] = s /\ f[2] = t /\ <<f[1 - 1], c, f[1]>> \in FrameSteps /\ <<f[2 - 1], d, f[2]>> \in FrameSteps
  BY <1>4 DEF RunAlong
<1> DEFINE m == f[1]
<1>6. FrameStep(s, c, m) /\ FrameStep(m, d, t)
  BY <1>5, FrameStepIs
<1>7. c.is # "record" /\ d.is # "record"
  BY <1>1, <1>2, CellKinds
<1> HIDE DEF m, c, d
<1>8. c.is = "frame" /\ m = [left |-> c.frame.len, at |-> "header",
                             ended |-> IF c.frame.end THEN "yes" ELSE e]
  BY <1>3, <1>6, <1>7 DEF FrameStep
<1>9. m.at = "header" /\ m.left = c.frame.len /\ m.ended = IF c.frame.end THEN "yes" ELSE e
  BY <1>8
<1>10. d.is = "frame2" /\ t = [left |-> m.left, at |-> "frame", ended |-> m.ended]
  BY <1>6, <1>7, <1>9 DEF FrameStep
<1>11. d = [is |-> "frame2"] /\ c.frame \in Frame
  BY <1>2, <1>8, <1>10, CellKinds
<1>12. c = [is |-> "frame", frame |-> c.frame]
  BY <1>1, <1>8 DEF PlainCell, HeaderCell, DataCell
<1> QED BY <1>9, <1>10, <1>11, <1>12 DEF c, d

\* The cells a header announces are cells of messages.
LEMMA FrameRead ==
    ASSUME NEW X \in Seq(PlainCell), NEW e \in {"no", "yes"}, NEW t,
           Run(FrameSteps, FrameState, X, [left |-> Len(X), at |-> "frame", ended |-> e], t)
    PROVE  X \in Seq(DataCell) /\ t = [left |-> 0, at |-> "frame", ended |-> e]
<1> DEFINE n == Len(X)
           s(i) == [left |-> n - i, at |-> "frame", ended |-> e]
<1>1. n \in Nat
  OBVIOUS
<1>2. PICK f \in [0..n -> FrameState] : RunAlong(FrameSteps, X, f, s(0), t)
  <2>1. s(0) = [left |-> Len(X), at |-> "frame", ended |-> e]
    BY <1>1
  <2> HIDE DEF s
  <2> QED BY <2>1 DEF Run
<1> DEFINE S == {i \in Nat : f[i] = s(i) /\ (i > 0 => X[i] \in DataCell)}
<1>3. \A i \in 1..n : FrameStep(f[i - 1], X[i], f[i])
  BY <1>2, FrameStepIs DEF RunAlong
<1>4. f[0] = s(0) /\ f[n] = t
  BY <1>2 DEF RunAlong
<1>5. 0 \in S
  BY <1>4
<1>6. ASSUME NEW i \in 0..(n - 1), i \in S PROVE i + 1 \in S
  <2>1. i + 1 \in 1..n /\ (i + 1) - 1 = i /\ i + 1 \in Nat
    BY <1>1
  <2>2. FrameStep(f[i], X[i + 1], f[i + 1])
    BY <1>3, <2>1
  <2>3. X[i + 1] \in PlainCell
    BY <2>1
  <2>4. X[i + 1] \in Cell
    BY <2>3 DEF Cell
  <2>5. X[i + 1].is \in {"frame", "frame2", "prefix", "body"}
    BY <2>3, <2>4, CellKinds
  <2>6. f[i].left = n - i /\ f[i].at = "frame" /\ f[i].ended = e /\ n - i > 0
    BY <1>1, <1>6
  <2>7. X[i + 1].is \in {"prefix", "body"} /\ f[i + 1] = [left |-> f[i].left - 1, at |-> "frame", ended |-> f[i].ended]
    BY <2>2, <2>5, <2>6 DEF FrameStep
  <2>8. f[i].left - 1 = n - (i + 1)
    BY <1>1, <2>6
  <2>9. f[i + 1] = s(i + 1)
    BY <2>6, <2>7, <2>8
  <2>10. X[i + 1] \in DataCell
    BY <2>4, <2>7, CellKinds
  <2> HIDE DEF s
  <2> QED BY <2>1, <2>9, <2>10
<1>7. 0..n \subseteq S
  <2> HIDE DEF S
  <2> QED BY <1>1, <1>5, <1>6, UpTo
<1>8. f[n] = s(n)
  BY <1>1, <1>7
<1>9. \A i \in 1..n : X[i] \in DataCell
  BY <1>1, <1>7
<1>10. X \in Seq(DataCell)
  <2>1. X = [i \in 1..n |-> X[i]]
    OBVIOUS
  <2>2. X \in [1..n -> DataCell]
    BY <1>9, <2>1
  <2> QED BY <1>1, <2>2
<1>11. s(n) = [left |-> 0, at |-> "frame", ended |-> e]
  BY <1>1
<1> QED BY <1>4, <1>8, <1>10, <1>11

\* Once the stream has ended no more cells of messages follow.
LEMMA NothingAfterEnd ==
    ASSUME NEW Y \in Seq(Cell), NEW z, z.left = 0, z.ended = "yes", NEW t,
           Run(FrameSteps, FrameState, Y, z, t)
    PROVE  (\A i \in 1..Len(Y) : Y[i] \notin DataCell) /\ t.left = 0 /\ t.ended = "yes"
<1> DEFINE n == Len(Y)
<1>1. n \in Nat
  OBVIOUS
<1>2. PICK f \in [0..n -> FrameState] : RunAlong(FrameSteps, Y, f, z, t)
  BY DEF Run
<1> DEFINE S == {i \in Nat : f[i].left = 0 /\ f[i].ended = "yes" /\ (i > 0 => Y[i] \notin DataCell)}
<1>3. \A i \in 1..n : FrameStep(f[i - 1], Y[i], f[i]) /\ Y[i] \in Cell
  BY <1>2, FrameStepIs DEF RunAlong
<1>4. f[0] = z /\ f[n] = t
  BY <1>2 DEF RunAlong
<1>5. 0 \in S
  BY <1>1, <1>4
<1>6. ASSUME NEW i \in 0..(n - 1), i \in S PROVE i + 1 \in S
  <2>1. i + 1 \in 1..n /\ (i + 1) - 1 = i /\ i + 1 \in Nat
    BY <1>1
  <2>2. FrameStep(f[i], Y[i + 1], f[i + 1]) /\ Y[i + 1] \in Cell
    BY <1>3, <2>1
  <2>3. f[i].left = 0 /\ f[i].ended = "yes"
    BY <1>6
  <2>4. Y[i + 1].is \notin {"prefix", "body"}
    BY <2>2, <2>3 DEF FrameStep
  <2>5. f[i + 1].left = 0 /\ f[i + 1].ended = "yes"
    BY <2>2, <2>3 DEF FrameStep
  <2>6. Y[i + 1] \notin DataCell
    BY <2>2, <2>4, CellKinds
  <2> QED BY <2>1, <2>5, <2>6
<1>7. 0..n \subseteq S
  <2> HIDE DEF S
  <2> QED BY <1>1, <1>5, <1>6, UpTo
<1>8. t.left = 0 /\ t.ended = "yes"
  BY <1>1, <1>4, <1>7
<1>9. \A i \in 1..n : Y[i] \notin DataCell
  BY <1>1, <1>7
<1> QED BY <1>8, <1>9

\* Headers mean nothing to the messages.
LEMMA DataSkips ==
    ASSUME NEW Y \in Seq(Cell), NEW s, NEW t, Run(DataSteps, DataState, Y, s, t),
           \A i \in 1..Len(Y) : Y[i] \notin DataCell
    PROVE  s = t
<1> DEFINE n == Len(Y)
<1>1. n \in Nat
  OBVIOUS
<1>2. PICK f \in [0..n -> DataState] : RunAlong(DataSteps, Y, f, s, t)
  BY DEF Run
<1> DEFINE S == {i \in Nat : f[i] = s}
<1>3. \A i \in 1..n : DataStep(f[i - 1], Y[i], f[i]) /\ Y[i] \in Cell
  BY <1>2, DataStepIs DEF RunAlong
<1>4. f[0] = s /\ f[n] = t
  BY <1>2 DEF RunAlong
<1>5. 0 \in S
  BY <1>4
<1>6. ASSUME NEW i \in 0..(n - 1), i \in S PROVE i + 1 \in S
  <2>1. i + 1 \in 1..n /\ (i + 1) - 1 = i /\ i + 1 \in Nat
    BY <1>1
  <2>2. DataStep(f[i], Y[i + 1], f[i + 1]) /\ Y[i + 1] \in Cell /\ Y[i + 1] \notin DataCell
    BY <1>3, <2>1
  <2>3. Y[i + 1].is \notin {"prefix", "body"}
    BY <2>2, CellKinds
  <2>4. f[i + 1] = f[i]
    BY <2>2, <2>3 DEF DataStep
  <2> QED BY <1>6, <2>1, <2>4
<1>7. 0..n \subseteq S
  <2> HIDE DEF S
  <2> QED BY <1>1, <1>5, <1>6, UpTo
<1> QED BY <1>1, <1>4, <1>7

\* Between messages there is the prefix of the next one, and behind it its
\* cells, as far as there are any.
LEMMA MessageRead ==
    ASSUME NEW X \in Seq(DataCell), X # <<>>, NEW m \in Nat, NEW t,
           Run(DataSteps, DataState, X, [seen |-> m, left |-> 0], t)
    PROVE  /\ m + 1 \in DOMAIN Lengths /\ X[1].of = m + 1
           /\ t.left = 0 => Len(X) >= 1 + Lengths[m + 1]
           /\ Len(X) = 1 + Lengths[m + 1] => X = Body(m + 1) /\ t = [seen |-> m + 1, left |-> 0]
<1> DEFINE n == Len(X)
           L == Lengths[m + 1]
           s0 == [seen |-> m, left |-> 0]
           s(i) == [seen |-> m + 1, left |-> L - i]
<1>1. n \in Nat /\ n >= 1 /\ s0.seen = m /\ s0.left = 0
  OBVIOUS
<1> HIDE DEF s0
<1>2. PICK f \in [0..n -> DataState] : RunAlong(DataSteps, X, f, s0, t)
  BY DEF Run, s0
<1>3. \A i \in 1..n : DataStep(f[i - 1], X[i], f[i])
  BY <1>2, DataStepIs DEF RunAlong
<1>4. f[0] = s0 /\ f[n] = t
  BY <1>2 DEF RunAlong
<1>5. \A i \in 1..n : X[i] \in DataCell /\ X[i] \in Cell
  BY DEF Cell, PlainCell
<1>6. \A i \in 1..n : X[i].is \in {"prefix", "body"}
  BY <1>5, CellKinds
<1>7. X[1].is = "prefix" /\ X[1].of = m + 1 /\ f[1] = [seen |-> X[1].of, left |-> Lengths[X[1].of]]
  <2>1. DataStep(s0, X[1], f[1]) /\ X[1].is \in {"prefix", "body"}
    <3>1. 1 \in 1..n
      BY <1>1
    <3> QED BY <1>3, <1>4, <1>6, <3>1
  <2> QED BY <1>1, <2>1 DEF DataStep
<1>8. m + 1 \in DOMAIN Lengths /\ L \in Nat
  <2>1. X[1] \in DataCell
    BY <1>1, <1>5
  <2>2. m + 1 \in DOMAIN Lengths
    BY <1>7, <2>1 DEF DataCell
  <2> QED BY <2>2, MapStreamAssumption
<1> HIDE DEF L
<1>9. f[1] = s(0)
  <2>1. f[1] = [seen |-> m + 1, left |-> L]
    BY <1>7 DEF L
  <2>2. L = L - 0
    BY <1>8
  <2> QED BY <2>1, <2>2
<1> DEFINE k == IF n - 1 < L THEN n - 1 ELSE L
           S == {i \in Nat : f[1 + i] = s(i)
                             /\ (i > 0 => X[1 + i] = [is |-> "body", of |-> m + 1])}
<1>10. k \in Nat /\ k <= n - 1 /\ k <= L
  BY <1>1, <1>8
<1>11. 0 \in S
  BY <1>9
<1>12. ASSUME NEW i \in 0..(k - 1), i \in S PROVE i + 1 \in S
  <2>1. i + 2 \in 1..n /\ (i + 2) - 1 = 1 + i /\ i + 1 \in Nat /\ 1 + (i + 1) = i + 2 /\ i < L
    BY <1>1, <1>8, <1>10
  <2>2. f[1 + i] = s(i)
    BY <1>12
  <2>3. DataStep(s(i), X[i + 2], f[i + 2]) /\ X[i + 2] \in DataCell /\ X[i + 2].is \in {"prefix", "body"}
    BY <1>3, <1>5, <1>6, <2>1, <2>2
  <2>4. s(i).left = L - i /\ s(i).left > 0 /\ s(i).seen = m + 1
    BY <1>8, <2>1
  <2>5. /\ X[i + 2].is = "body" /\ X[i + 2].of = s(i).seen
        /\ f[i + 2] = [seen |-> s(i).seen, left |-> s(i).left - 1]
    <3> HIDE DEF s
    <3> QED BY <2>3, <2>4 DEF DataStep
  <2>6. s(i).left - 1 = L - (i + 1)
    BY <1>8, <2>4
  <2>7. f[i + 2] = s(i + 1)
    BY <2>4, <2>5, <2>6
  <2>8. X[i + 2] = [is |-> "body", of |-> m + 1]
    BY <2>3, <2>4, <2>5 DEF DataCell
  <2> HIDE DEF s
  <2> QED BY <2>1, <2>7, <2>8
<1>13. 0..k \subseteq S
  <2> HIDE DEF S, k
  <2> QED BY <1>10, <1>11, <1>12, UpTo
<1>14. \A i \in 0..k : f[1 + i] = s(i) /\ (i > 0 => X[1 + i] = [is |-> "body", of |-> m + 1])
  BY <1>13
<1>15. t.left = 0 => n >= 1 + L
  <2>1. SUFFICES ASSUME n < 1 + L PROVE t.left # 0
    BY <1>1, <1>8
  <2>2. k = n - 1 /\ n - 1 \in 0..k /\ 1 + (n - 1) = n
    BY <1>1, <1>8, <2>1
  <2>3. f[n] = s(n - 1)
    BY <1>14, <2>2
  <2>4. s(n - 1).left = L - (n - 1)
    OBVIOUS
  <2> HIDE DEF s
  <2> QED BY <1>1, <1>4, <1>8, <2>1, <2>3, <2>4
<1>16. ASSUME n = 1 + L PROVE X = Body(m + 1) /\ t = [seen |-> m + 1, left |-> 0]
  <2>1. k = L /\ L \in 0..k /\ 1 + L = n
    BY <1>1, <1>8, <1>16
  <2>2. t = s(L)
    BY <1>4, <1>14, <2>1
  <2>3. s(L) = [seen |-> m + 1, left |-> 0]
    BY <1>8
  <2> DEFINE B == Body(m + 1)
             p == [is |-> "prefix", of |-> m + 1]
             q == [is |-> "body", of |-> m + 1]
             Q == [i \in 1..L |-> q]
  <2>4. B = <<p>> \o Q
    BY DEF Body, L
  <2>5. Q \in Seq({p, q}) /\ Len(Q) = L /\ \A i \in 1..L : Q[i] = q
    BY <1>8
  <2> HIDE DEF p, q, Q, B
  <2>6. Len(B) = n /\ B \in Seq({p, q})
    BY <1>8, <1>16, <2>4, <2>5
  <2>7. B[1] = p
    BY <2>4, <2>5
  <2>8. \A i \in 1..L : B[1 + i] = q
    BY <1>8, <2>4, <2>5
  <2>9. X[1] = p
    <3>1. X[1] \in DataCell
      BY <1>1, <1>5
    <3> QED BY <1>7, <3>1 DEF DataCell, p
  <2>10. \A i \in 1..L : X[1 + i] = q
    <3>1. \A i \in 1..L : i \in 0..k /\ i > 0
      BY <1>8, <2>1
    <3> QED BY <1>14, <3>1 DEF q
  <2>11. ASSUME NEW j \in 1..n PROVE X[j] = B[j]
    <3>1. CASE j = 1
      BY <2>7, <2>9, <3>1
    <3>2. CASE j # 1
      <4>1. j - 1 \in 1..L /\ 1 + (j - 1) = j
        BY <1>8, <1>16, <3>2
      <4> QED BY <2>8, <2>10, <4>1
    <3> QED BY <3>1, <3>2
  <2>12. X = [j \in 1..n |-> X[j]] /\ B = [j \in 1..n |-> B[j]]
    BY <2>6
  <2>13. X = B
    BY <2>11, <2>12
  <2> QED BY <2>2, <2>3, <2>13 DEF B
<1> QED BY <1>7, <1>8, <1>15, <1>16 DEF L

\* A message as the server writes it.
LEMMA BodyCells ==
    ASSUME NEW m \in DOMAIN Lengths
    PROVE  /\ Body(m) \in Seq(DataCell) /\ Len(Body(m)) = 1 + Lengths[m]
           /\ Body(m)[1] = [is |-> "prefix", of |-> m]
           /\ \A i \in 2..(1 + Lengths[m]) : Body(m)[i] = [is |-> "body", of |-> m]
<1> DEFINE L == Lengths[m]
           p == [is |-> "prefix", of |-> m]
           q == [is |-> "body", of |-> m]
           Q == [i \in 1..L |-> q]
           P == <<p>>
<1>1. L \in Nat
  BY MapStreamAssumption
<1>2. p \in DataCell /\ q \in DataCell
  BY DEF DataCell
<1>3. Body(m) = P \o Q
  BY DEF Body
<1> HIDE DEF p, q, L
<1>4. Q \in Seq(DataCell) /\ Len(Q) = L /\ \A i \in 1..L : Q[i] = q
  BY <1>1, <1>2
<1>5. P \in Seq(DataCell) /\ Len(P) = 1 /\ P[1] = p
  BY <1>2
<1> HIDE DEF P, Q
<1> DEFINE X == P \o Q
<1>6. /\ X \in Seq(DataCell) /\ Len(X) = Len(P) + Len(Q)
      /\ \A i \in 1..Len(P) : X[i] = P[i]
      /\ \A i \in 1..Len(Q) : X[Len(P) + i] = Q[i]
  <2>1. P \in Seq(DataCell) /\ Q \in Seq(DataCell)
    BY <1>4, <1>5
  <2> QED BY <2>1, Concatenated
<1> HIDE DEF X
<1>7. X[1] = p /\ Len(X) = 1 + L
  BY <1>1, <1>4, <1>5, <1>6
<1>8. ASSUME NEW i \in 2..(1 + L) PROVE X[i] = q
  <2>1. i - 1 \in 1..L /\ 1 + (i - 1) = i
    BY <1>1
  <2>2. X[1 + (i - 1)] = Q[i - 1]
    BY <1>4, <1>5, <1>6, <2>1
  <2> QED BY <1>4, <2>1, <2>2
<1> QED BY <1>3, <1>6, <1>7, <1>8 DEF p, q, L, X

\* ... is one message.
LEMMA MessageWritten ==
    ASSUME NEW m \in DOMAIN Lengths
    PROVE  Run(DataSteps, DataState, Body(m), [seen |-> m - 1, left |-> 0], [seen |-> m, left |-> 0])
<1> DEFINE L == Lengths[m]
           s(i) == IF i = 0 THEN [seen |-> m - 1, left |-> 0] ELSE [seen |-> m, left |-> L - (i - 1)]
           f == [i \in 0..(L + 1) |-> s(i)]
           B == Body(m)
<1>1. L \in Nat /\ m \in Nat /\ m >= 1
  BY MapStreamAssumption
<1>2. \A i \in 0..(L + 1) : s(i) \in DataState
  BY <1>1 DEF DataState
<1>3. f \in [0..(L + 1) -> DataState]
  BY <1>2
<1>4. B \in Seq(DataCell) /\ Len(B) = L + 1
  <2>1. B \in Seq(DataCell) /\ Len(B) = 1 + L
    BY BodyCells
  <2> QED BY <1>1, <2>1
<1>5. ASSUME NEW i \in 1..(L + 1) PROVE <<s(i - 1), B[i], s(i)>> \in DataSteps
  <2>1. i - 1 \in 0..(L + 1) /\ i \in 0..(L + 1) /\ i # 0
    BY <1>1
  <2>2. s(i - 1) \in DataState /\ s(i) \in DataState
    BY <1>2, <2>1
  <2>3. B[i] \in DataCell
    BY <1>4
  <2>4. B[i] \in Cell
    BY <2>3 DEF Cell, PlainCell
  <2>5. DataStep(s(i - 1), B[i], s(i))
    <3>1. CASE i = 1
      <4>1. B[i] = [is |-> "prefix", of |-> m]
        BY <3>1, BodyCells
      <4>2. B[i].is = "prefix" /\ B[i].of = m
        BY <4>1
      <4>3. s(i - 1) = [seen |-> m - 1, left |-> 0] /\ s(i) = [seen |-> m, left |-> L]
        BY <1>1, <3>1
      <4>4. s(i - 1).left = 0 /\ m = s(i - 1).seen + 1
        BY <1>1, <4>3
      <4> HIDE DEF s, B
      <4> QED BY <4>2, <4>3, <4>4 DEF DataStep
    <3>2. CASE i # 1
      <4>1. i \in 2..(1 + L)
        BY <1>1, <3>2
      <4>2. B[i] = [is |-> "body", of |-> m]
        BY <4>1, BodyCells
      <4>3. B[i].is = "body" /\ B[i].of = m
        BY <4>2
      <4>4. s(i - 1).seen = m /\ s(i - 1).left = L - (i - 2) /\ s(i) = [seen |-> m, left |-> L - (i - 1)]
        BY <1>1, <3>2, <4>1
      <4>5. s(i - 1).left > 0 /\ s(i - 1).left - 1 = L - (i - 1)
        BY <1>1, <4>1, <4>4
      <4> HIDE DEF s, B
      <4> QED BY <4>3, <4>4, <4>5 DEF DataStep
    <3> QED BY <3>1, <3>2
  <2> HIDE DEF s, B
  <2> QED BY <2>2, <2>4, <2>5, DataStepIs
<1>6. ASSUME NEW i \in 1..(L + 1) PROVE <<f[i - 1], B[i], f[i]>> \in DataSteps
  <2>1. i - 1 \in 0..(L + 1) /\ i \in 0..(L + 1)
    BY <1>1
  <2>2. f[i - 1] = s(i - 1) /\ f[i] = s(i)
    BY <2>1
  <2> HIDE DEF s, f, B
  <2> QED BY <1>5, <2>2
<1>7. f[0] = s(0) /\ f[L + 1] = s(L + 1)
  BY <1>1
<1>8. s(0) = [seen |-> m - 1, left |-> 0] /\ s(L + 1) = [seen |-> m, left |-> 0]
  BY <1>1
<1> HIDE DEF s, f, B
<1>9. RunAlong(DataSteps, B, f, s(0), s(L + 1))
  BY <1>4, <1>6, <1>7 DEF RunAlong
<1>10. Run(DataSteps, DataState, B, s(0), s(L + 1))
  BY <1>3, <1>4, <1>9 DEF Run
<1> QED BY <1>8, <1>10 DEF B

\* The server sends every message, once and in order.
LEMMA AllWritten ==
    /\ AllMessages \in Seq(DataCell)
    /\ Run(DataSteps, DataState, AllMessages, [seen |-> 0, left |-> 0],
           [seen |-> Len(Lengths), left |-> 0])
<1> DEFINE N == Len(Lengths)
           q == [m \in DOMAIN Lengths |-> Body(m)]
           s(i) == [seen |-> i, left |-> 0]
           Good(x, i) == x \in Seq(DataCell) /\ Run(DataSteps, DataState, x, s(0), s(i))
<1>1. N \in Nat /\ DOMAIN Lengths = 1..N
  BY MapStreamAssumption
<1>2. \A i \in 1..N : q[i] = Body(i) /\ q[i] \in Seq(DataCell)
  BY <1>1, BodyCells
<1>3. Len(q) = N
  BY <1>1
<1>4. \A i \in Nat : s(i) \in DataState
  BY DEF DataState
<1>5. \A i \in 1..N : Run(DataSteps, DataState, q[i], s(i - 1), s(i))
  BY <1>1, <1>2, MessageWritten
<1>6. CASE N = 0
  <2>1. q = <<>>
    BY <1>1, <1>6
  <2>2. AllMessages = <<>>
    BY <1>3, <1>6, <2>1 DEF AllMessages, FlattenSeq
  <2>3. Run(DataSteps, DataState, <<>>, s(0), s(N))
    <3> HIDE DEF s
    <3> QED BY <1>4, <1>6, RunEmpty
  <2> QED BY <2>2, <2>3
<1>7. CASE N # 0
  <2> DEFINE Eq(h) == h = [i \in 1..N |-> IF i = 1 THEN q[i] ELSE h[i - 1] \o q[i]]
             Table(n) == {h \in [1..n -> Seq(DataCell)] :
                             \A i \in 1..n : h[i] = IF i = 1 THEN q[i] ELSE h[i - 1] \o q[i]}
             S == {n \in Nat : n <= N => Table(n) # {}}
  <2> HIDE DEF q
  <2>1. 0 \in S
    <3>1. <<>> \in Table(0)
      OBVIOUS
    <3> QED BY <3>1
  <2>2. ASSUME NEW n \in Nat, n \in S PROVE n + 1 \in S
    <3>1. SUFFICES ASSUME n + 1 <= N PROVE Table(n + 1) # {}
      OBVIOUS
    <3>2. n <= N /\ n + 1 \in 1..N
      BY <1>1, <3>1
    <3>3. PICK h : h \in Table(n)
      BY <2>2, <3>2
    <3> DEFINE x == IF n = 0 THEN q[n + 1] ELSE h[n] \o q[n + 1]
               g == [i \in 1..(n + 1) |-> IF i = n + 1 THEN x ELSE h[i]]
    <3>4. h \in [1..n -> Seq(DataCell)] /\ \A i \in 1..n : h[i] = IF i = 1 THEN q[i] ELSE h[i - 1] \o q[i]
      BY <3>3
    <3>5. x \in Seq(DataCell)
      <4>1. n # 0 => h[n] \in Seq(DataCell)
        BY <3>4
      <4>2. q[n + 1] \in Seq(DataCell)
        BY <1>2, <3>2
      <4> QED BY <4>1, <4>2
    <3>6. g \in [1..(n + 1) -> Seq(DataCell)]
      <4> HIDE DEF x
      <4> QED BY <3>4, <3>5
    <3>7. ASSUME NEW i \in 1..(n + 1) PROVE g[i] = IF i = 1 THEN q[i] ELSE g[i - 1] \o q[i]
      <4>1. CASE i = n + 1
        <5>1. g[i] = x
          BY <4>1
        <5>2. n # 0 => g[i - 1] = h[n]
          BY <4>1
        <5> HIDE DEF g
        <5> QED BY <4>1, <5>1, <5>2
      <4>2. CASE i # n + 1
        <5>1. i \in 1..n /\ g[i] = h[i] /\ (i # 1 => g[i - 1] = h[i - 1])
          BY <4>2
        <5> HIDE DEF g
        <5> QED BY <3>4, <5>1
      <4> QED BY <4>1, <4>2
    <3> HIDE DEF g
    <3> QED BY <3>6, <3>7
  <2>3. Nat \subseteq S
    <3> HIDE DEF S
    <3> QED BY <2>1, <2>2, NatSetInduction
  <2>4. PICK h : h \in Table(N)
    <3>1. N \in S
      BY <1>1, <2>3
    <3> HIDE DEF Table
    <3> QED BY <1>1, <3>1
  <2>5. Eq(h)
    BY <2>4
  <2> DEFINE fl == CHOOSE h1 : Eq(h1)
  <2>6. AllMessages = fl[N]
    BY <1>3, <1>7 DEF AllMessages, FlattenSeq, q
  <2>7. Eq(fl)
    <3> HIDE DEF Eq
    <3> QED BY <2>5
  <2> HIDE DEF fl
  <2>8. \A i \in 1..N : fl[i] = IF i = 1 THEN q[i] ELSE fl[i - 1] \o q[i]
    BY <2>7
  <2> HIDE DEF s
  <2> DEFINE G == {i \in Nat : i + 1 <= N => Good(fl[i + 1], i + 1)}
  <2>9. 0 \in G
    <3>1. fl[1] = q[1] /\ 1 \in 1..N
      BY <1>1, <1>7, <2>8
    <3>2. Good(fl[1], 1)
      BY <1>2, <1>5, <3>1
    <3> QED BY <3>2
  <2>10. ASSUME NEW i \in Nat, i \in G PROVE i + 1 \in G
    <3>1. SUFFICES ASSUME i + 2 <= N PROVE Good(fl[i + 2], i + 2)
      OBVIOUS
    <3>2. i + 2 \in 1..N /\ i + 1 <= N /\ (i + 2) - 1 = i + 1 /\ i + 2 # 1
      BY <1>1, <3>1
    <3>3. fl[i + 2] = fl[i + 1] \o q[i + 2]
      BY <2>8, <3>2
    <3>4. Good(fl[i + 1], i + 1)
      BY <2>10, <3>2
    <3>5. q[i + 2] \in Seq(DataCell) /\ Run(DataSteps, DataState, q[i + 2], s(i + 1), s(i + 2))
      BY <1>2, <1>5, <3>2
    <3>6. fl[i + 1] \o q[i + 2] \in Seq(DataCell)
      BY <3>4, <3>5
    <3>7. Run(DataSteps, DataState, fl[i + 1] \o q[i + 2], s(0), s(i + 2))
      BY <3>4, <3>5, RunCat
    <3> QED BY <3>3, <3>6, <3>7
  <2>11. Nat \subseteq G
    <3> HIDE DEF G
    <3> QED BY <2>9, <2>10, NatSetInduction
  <2>12. N - 1 \in Nat /\ (N - 1) + 1 = N
    BY <1>1, <1>7
  <2>13. N - 1 \in G
    BY <2>11, <2>12
  <2>14. Good(fl[N], N)
    BY <2>12, <2>13
  <2> QED BY <2>6, <2>14 DEF s
<1> QED BY <1>6, <1>7

-----------------------------------------------------------------------------
(***************************************************************************)
(* Three sequences in a row: what the client has buffered, what was cut    *)
(* into records, what was not yet.                                         *)
(***************************************************************************)
Through(R, S, L, K, P, a, b) ==
    \E p, q \in S : Run(R, S, L, a, p) /\ Run(R, S, K, p, q) /\ Run(R, S, P, q, b)

\* Concatenation is associative, and <<>> is its unit.
LEMMA Associative ==
    ASSUME NEW C, NEW X \in Seq(C), NEW Y \in Seq(C), NEW Z \in Seq(C)
    PROVE  (X \o Y) \o Z = X \o (Y \o Z)
OBVIOUS

\* Nothing put before or after a sequence leaves it as it is.
LEMMA Unit ==
    ASSUME NEW C, NEW X \in Seq(C)
    PROVE  X \o <<>> = X /\ <<>> \o X = X /\ <<>> \in Seq(C)
OBVIOUS

\* A sequence cut in two.
LEMMA CutApart ==
    ASSUME NEW C, NEW X \in Seq(C), NEW k \in 0..Len(X)
    PROVE  /\ SubSeq(X, 1, k) \in Seq(C) /\ SubSeq(X, k + 1, Len(X)) \in Seq(C)
           /\ Len(SubSeq(X, 1, k)) = k /\ Len(SubSeq(X, k + 1, Len(X))) = Len(X) - k
           /\ SubSeq(X, 1, k) \o SubSeq(X, k + 1, Len(X)) = X
<1> DEFINE A == SubSeq(X, 1, k)
           B == SubSeq(X, k + 1, Len(X))
           n == Len(X)
<1>1. n \in Nat /\ k \in Nat /\ k <= n
  OBVIOUS
<1>2. A \in Seq(C) /\ Len(A) = k /\ \A i \in 1..k : A[i] = X[i]
  OBVIOUS
<1>3. B \in Seq(C)
  OBVIOUS
<1>4. Len(B) = n - k
  BY <1>1
<1>5. \A i \in 1..(n - k) : B[i] = X[k + i]
  BY <1>1
<1> HIDE DEF A, B, n
<1> DEFINE Z == A \o B
<1>6. /\ Z \in Seq(C) /\ Len(Z) = Len(A) + Len(B)
      /\ \A i \in 1..Len(A) : Z[i] = A[i]
      /\ \A i \in 1..Len(B) : Z[Len(A) + i] = B[i]
  <2>1. A \in Seq(C) /\ B \in Seq(C)
    BY <1>2, <1>3
  <2> QED BY <2>1, Concatenated
<1> HIDE DEF Z
<1>7. ASSUME NEW i \in 1..n PROVE Z[i] = X[i]
  <2>1. CASE i <= k
    BY <1>1, <1>2, <1>6, <2>1
  <2>2. CASE i > k
    <3>1. i - k \in 1..(n - k) /\ k + (i - k) = i
      BY <1>1, <2>2
    <3>2. Z[k + (i - k)] = B[i - k]
      BY <1>2, <1>4, <1>6, <3>1
    <3>3. B[i - k] = X[k + (i - k)]
      BY <1>5, <3>1
    <3> QED BY <3>1, <3>2, <3>3
  <2> QED BY <1>1, <2>1, <2>2
<1>8. Len(Z) = n
  BY <1>1, <1>2, <1>4, <1>6
<1>9. Z = [i \in 1..n |-> Z[i]] /\ X = [i \in 1..n |-> X[i]]
  BY <1>6, <1>8 DEF n
<1>10. Z = X
  BY <1>7, <1>9
<1> QED BY <1>2, <1>3, <1>4, <1>10 DEF A, B, n, Z

\* Moving the cut: what was taken from the front of B goes behind A.
LEMMA CutMoves ==
    ASSUME NEW C, NEW A \in Seq(C), NEW B \in Seq(C), NEW k \in 0..Len(B)
    PROVE  (A \o SubSeq(B, 1, k)) \o SubSeq(B, k + 1, Len(B)) = A \o B
<1> DEFINE X == SubSeq(B, 1, k)
           Y == SubSeq(B, k + 1, Len(B))
<1>1. X \in Seq(C) /\ Y \in Seq(C) /\ X \o Y = B
  BY CutApart
<1> HIDE DEF X, Y
<1>2. (A \o X) \o Y = A \o (X \o Y)
  <2>1. X \in Seq(C) /\ Y \in Seq(C)
    BY <1>1
  <2> QED BY <2>1, Associative
<1>3. (A \o X) \o Y = A \o B
  BY <1>1, <1>2
<1> QED BY <1>3 DEF X, Y

\* The server puts a record header before the first k cells of P.
LEMMA RecordPut ==
    ASSUME NEW R, NEW S, NEW C, NEW L \in Seq(C), NEW K \in Seq(C), NEW P \in Seq(C),
           NEW k \in 0..Len(P), NEW c \in C, NEW a, NEW b,
           \A s \in S : <<s, c, s>> \in R, Through(R, S, L, K, P, a, b)
    PROVE  Through(R, S, L, (K \o <<c>>) \o SubSeq(P, 1, k), SubSeq(P, k + 1, Len(P)), a, b)
<1> DEFINE X == SubSeq(P, 1, k)
           Y == SubSeq(P, k + 1, Len(P))
<1>1. PICK p \in S, q \in S : Run(R, S, L, a, p) /\ Run(R, S, K, p, q) /\ Run(R, S, P, q, b)
  BY DEF Through
<1>2. PICK r \in S : Run(R, S, X, q, r) /\ Run(R, S, Y, r, b)
  BY <1>1, RunCut
<1>3. X \in Seq(C) /\ Y \in Seq(C)
  BY CutApart
<1>4. Run(R, S, <<c>>, q, q)
  BY RunOne
<1>5. <<c>> \in Seq(C) /\ K \o <<c>> \in Seq(C)
  OBVIOUS
<1> HIDE DEF X, Y
<1>6. Run(R, S, K \o <<c>>, p, q)
  BY <1>1, <1>4, <1>5, RunCat
<1>7. Run(R, S, (K \o <<c>>) \o X, p, r)
  BY <1>2, <1>3, <1>5, <1>6, RunCat
<1>8. Through(R, S, L, (K \o <<c>>) \o X, Y, a, b)
  BY <1>1, <1>2, <1>7 DEF Through
<1> QED BY <1>8 DEF X, Y

\* A record leaves its header behind when it goes into the buffer.
LEMMA RecordOut ==
    ASSUME NEW R, NEW S, NEW C, NEW L \in Seq(C), NEW X \in Seq(C), NEW K \in Seq(C),
           NEW P \in Seq(C), NEW c \in C, NEW a, NEW b,
           \A s \in S : \A t \in S : <<s, c, t>> \in R => s = t,
           Through(R, S, L, (<<c>> \o X) \o K, P, a, b)
    PROVE  Through(R, S, L \o X, K, P, a, b)
<1>1. PICK p \in S, q \in S :
         Run(R, S, L, a, p) /\ Run(R, S, (<<c>> \o X) \o K, p, q) /\ Run(R, S, P, q, b)
  BY DEF Through
<1>2. <<c>> \in Seq(C) /\ <<c>> \o X \in Seq(C)
  OBVIOUS
<1>3. PICK r \in S : Run(R, S, <<c>> \o X, p, r) /\ Run(R, S, K, r, q)
  BY <1>1, <1>2, RunParts
<1>4. PICK t \in S : Run(R, S, <<c>>, p, t) /\ Run(R, S, X, t, r)
  BY <1>2, <1>3, RunParts
<1>5. p = t
  BY <1>4, RunOne
<1>6. Run(R, S, L \o X, a, r)
  BY <1>1, <1>4, <1>5, RunCat
<1> QED BY <1>1, <1>3, <1>6 DEF Through

\* A frame is added behind.
LEMMA FramePut ==
    ASSUME NEW R, NEW S, NEW L, NEW K, NEW P, NEW a, NEW b \in S, NEW d,
           Through(R, S, L, K, <<>>, a, b), Run(R, S, P, b, d)
    PROVE  Through(R, S, L, K, P, a, d)
<1>1. PICK p \in S, q \in S : Run(R, S, L, a, p) /\ Run(R, S, K, p, q) /\ Run(R, S, <<>>, q, b)
  BY DEF Through
<1>2. b = q
  BY <1>1, RunEmpty
<1> QED BY <1>1, <1>2 DEF Through

\* The first k cells of the buffer are read.
LEMMA FrontOut ==
    ASSUME NEW R, NEW S, NEW C, NEW L \in Seq(C), NEW K, NEW P, NEW k \in 0..Len(L), NEW a, NEW b,
           Through(R, S, L, K, P, a, b)
    PROVE  \E m \in S : /\ Run(R, S, SubSeq(L, 1, k), a, m)
                        /\ Through(R, S, SubSeq(L, k + 1, Len(L)), K, P, m, b)
<1>1. PICK p \in S, q \in S : Run(R, S, L, a, p) /\ Run(R, S, K, p, q) /\ Run(R, S, P, q, b)
  BY DEF Through
<1>2. PICK m \in S : Run(R, S, SubSeq(L, 1, k), a, m) /\ Run(R, S, SubSeq(L, k + 1, Len(L)), m, p)
  BY <1>1, RunCut
<1> QED BY <1>1, <1>2 DEF Through

\* Record headers mean nothing to frames and messages.
LEMMA RecordsSkipped ==
    ASSUME NEW c \in RecordCell
    PROVE  /\ c \in Cell
           /\ \A s \in FrameState : <<s, c, s>> \in FrameSteps
           /\ \A s \in FrameState : \A t \in FrameState : <<s, c, t>> \in FrameSteps => s = t
           /\ \A s \in DataState : <<s, c, s>> \in DataSteps
           /\ \A s \in DataState : \A t \in DataState : <<s, c, t>> \in DataSteps => s = t
<1>1. c \in Cell /\ c.is = "record"
  BY DEF Cell, RecordCell
<1>2. \A s \in FrameState : <<s, c, s>> \in FrameSteps
  BY <1>1, FrameStepIs DEF FrameStep
<1>3. \A s \in FrameState : \A t \in FrameState : <<s, c, t>> \in FrameSteps => s = t
  BY <1>1, FrameStepIs DEF FrameStep
<1>4. \A s \in DataState : <<s, c, s>> \in DataSteps
  BY <1>1, DataStepIs DEF DataStep
<1>5. \A s \in DataState : \A t \in DataState : <<s, c, t>> \in DataSteps => s = t
  BY <1>1, DataStepIs DEF DataStep
<1> QED BY <1>1, <1>2, <1>3, <1>4, <1>5

\* Frame headers mean nothing to messages.
LEMMA HeaderSkipped ==
    ASSUME NEW s \in DataState, NEW type, NEW n, NEW end,
           [type |-> type, len |-> n, end |-> end] \in Frame
    PROVE  /\ Header(type, n, end) \in Seq(PlainCell)
           /\ Run(DataSteps, DataState, Header(type, n, end), s, s)
<1> DEFINE c == [is |-> "frame", frame |-> [type |-> type, len |-> n, end |-> end]]
           d == [is |-> "frame2"]
<1>1. c \in PlainCell /\ d \in PlainCell /\ c.is = "frame" /\ d.is = "frame2"
  BY DEF PlainCell, HeaderCell
<1>2. Header(type, n, end) = <<c>> \o <<d>>
  BY DEF Header
<1> HIDE DEF c, d
<1>3. c \in Cell /\ d \in Cell
  BY <1>1 DEF Cell
<1>4. <<s, c, s>> \in DataSteps /\ <<s, d, s>> \in DataSteps
  BY <1>1, <1>3, DataStepIs DEF DataStep
<1>5. Run(DataSteps, DataState, <<c>>, s, s) /\ Run(DataSteps, DataState, <<d>>, s, s)
  BY <1>4, RunOne
<1>6. <<c>> \in Seq(PlainCell) /\ <<d>> \in Seq(PlainCell)
  BY <1>1
<1>7. Run(DataSteps, DataState, <<c>> \o <<d>>, s, s)
  BY <1>5, <1>6, RunCat
<1>8. <<c>> \o <<d>> \in Seq(PlainCell)
  BY <1>6
<1> QED BY <1>2, <1>7, <1>8

-----------------------------------------------------------------------------
(***************************************************************************)
(* The inductive invariant.                                                *)
(***************************************************************************)
\* The cells cut into records that are not in the buffer yet.
Carried == (part \o fPending) \o wire

StreamType ==
    /\ unsent \in Seq(DataCell) /\ fAcc \in Seq(DataCell)
    /\ plain \in Seq(PlainCell) /\ fBuf \in Seq(PlainCell)
    /\ wire \in Seq(Cell) /\ fPending \in Seq(Cell) /\ part \in Seq(Cell)
    /\ fBufOff \in 0..Len(fBuf)
    /\ frame \in Frame \cup {NoFrame} /\ fReqEnded \in BOOLEAN

\* Before the Noise response nothing is read, and what follows it fits behind it.
QuietHandshake == phase = "handshake" => fPending = <<>> /\ Len(wire) <= MaxBundle

\* A frame is begun before the stream has ended; if nothing belongs to it, its
\* header is what was read last.
FrameBegun ==
    frame # NoFrame =>
        /\ ~fReqEnded
        /\ frame.len = 0 =>
            /\ fBufOff >= 2 /\ fBuf[fBufOff] = [is |-> "frame2"]
            /\ fBuf[fBufOff - 1].frame = frame

Boundary(e) == [left |-> 0, at |-> "frame", ended |-> e]
FrameStart == [left |-> frame.len, at |-> "frame",
               ended |-> IF fReqEnded \/ frame.end THEN "yes" ELSE "no"]
Between(m) == [seen |-> m, left |-> 0]

\* The cells under way are whole records ...
RecordsWhole == Run(RecordSteps, Nat, Carried, 0, 0)

\* ... with the buffer and what the server has ready, whole frames, nothing
\* being left to send once a frame says so ...
FramesWhole ==
    \E e \in {"no", "yes"} :
        /\ Through(FrameSteps, FrameState, Live, Carried, plain, FrameStart, Boundary(e))
        /\ e = "yes" => unsent = <<>>

\* ... and from the accumulator on, every message not yet returned.
MessagesWhole ==
    \E p, q \in DataState :
        /\ Run(DataSteps, DataState, fAcc, Between(Len(delivered)), p)
        /\ Through(DataSteps, DataState, Live, Carried, plain, p, q)
        /\ Run(DataSteps, DataState, unsent, q, Between(Len(Lengths)))

StreamSound ==
    /\ StreamType /\ QuietHandshake /\ FrameBegun
    /\ RecordsWhole /\ FramesWhole /\ MessagesWhole

\* A stream that runs is sound, and one that does not has failed for a cause.
StreamInv ==
    /\ MessagesIntact /\ FailsForCause
    /\ delivered \in Seq(Seq(DataCell))
    /\ phase \in {"handshake", "reading", "ended", "failed"}
    /\ phase \in {"handshake", "reading"} => StreamSound

\* What is plain, and what is data, is a cell too.
LEMMA CellsToo ==
    ASSUME StreamType
    PROVE  /\ unsent \in Seq(Cell) /\ fAcc \in Seq(Cell) /\ plain \in Seq(Cell) /\ fBuf \in Seq(Cell)
           /\ Live \in Seq(PlainCell) /\ Live \in Seq(Cell)
           /\ Len(Live) = Len(fBuf) - fBufOff
           /\ \A i \in 1..Len(Live) : Live[i] = fBuf[fBufOff + i]
           /\ Carried \in Seq(Cell)
<1>1. unsent \in Seq(Cell) /\ fAcc \in Seq(Cell)
  BY DEF StreamType, Cell, PlainCell
<1>2. plain \in Seq(Cell) /\ fBuf \in Seq(Cell)
  BY DEF StreamType, Cell
<1>3. fBuf \in Seq(PlainCell) /\ fBufOff \in 0..Len(fBuf)
  BY DEF StreamType
<1>4. Live \in Seq(PlainCell)
  BY <1>3 DEF Live
<1>5. Len(Live) = Len(fBuf) - fBufOff
  BY <1>3 DEF Live
<1>6. \A i \in 1..(Len(fBuf) - fBufOff) : Live[i] = fBuf[fBufOff + i]
  BY <1>3 DEF Live
<1>7. Live \in Seq(Cell)
  BY <1>4 DEF Cell
<1>8. Carried \in Seq(Cell)
  BY DEF StreamType, Carried
<1> QED BY <1>1, <1>2, <1>4, <1>5, <1>6, <1>7, <1>8

\* What a frame's header says.
LEMMA FrameParts ==
    ASSUME NEW f \in Frame
    PROVE  /\ f.len \in 0..MaxFrame /\ f.end \in BOOLEAN /\ f.type \in {"DATA", "PING", "GOAWAY"}
           /\ f.type # "DATA" => f.len = 0 /\ f.end = FALSE
           /\ f # NoFrame
<1>1. MaxFrame \in Nat
  BY MapStreamAssumption
<1>2. CASE f \in [type : {"DATA"}, len : 0..MaxFrame, end : BOOLEAN]
  <2>1. f.len \in 0..MaxFrame /\ f.end \in BOOLEAN /\ f.type = "DATA"
    BY <1>2
  <2> QED BY <2>1 DEF NoFrame
<1>3. CASE f \in [type : {"PING", "GOAWAY"}, len : {0}, end : {FALSE}]
  <2>1. f.len = 0 /\ f.end = FALSE /\ f.type \in {"PING", "GOAWAY"}
    BY <1>3
  <2>2. f # NoFrame
    BY <2>1 DEF NoFrame
  <2>3. f.len \in 0..MaxFrame
    BY <1>1, <2>1
  <2>4. f.end \in BOOLEAN
    BY <2>1, Zenon
  <2> QED BY <2>1, <2>2, <2>3, <2>4, Zenon
<1> QED BY <1>2, <1>3 DEF Frame

\* The start of the frame run is a state.
LEMMA FrameStartIs ==
    ASSUME StreamType
    PROVE  /\ FrameStart \in FrameState /\ frame.len \in Nat
           /\ \A e \in {"no", "yes"} : Boundary(e) \in FrameState
<1>1. frame.len \in Nat
  <2>1. frame \in Frame \cup {NoFrame} /\ MaxFrame \in Nat
    BY MapStreamAssumption DEF StreamType
  <2>2. CASE frame \in Frame
    <3>1. frame.len \in 0..MaxFrame
      BY <2>2, FrameParts
    <3> QED BY <2>1, <3>1
  <2>3. CASE frame = NoFrame
    BY <2>3 DEF NoFrame
  <2> QED BY <2>1, <2>2, <2>3
<1> QED BY <1>1 DEF FrameStart, FrameState, Boundary

\* A connection starts sound.
NewConnection ==
    /\ unsent = AllMessages /\ plain = <<>> /\ wire = <<>> /\ fPending = <<>> /\ part = <<>>
    /\ fBuf = <<>> /\ fBufOff = 0 /\ frame = NoFrame /\ fReqEnded = FALSE /\ fAcc = <<>>
    /\ delivered = <<>>

\* A new connection has nothing buffered and nothing on the wire.
LEMMA SoundStart == NewConnection => StreamSound
<1> SUFFICES ASSUME NewConnection PROVE StreamSound
  OBVIOUS
<1> USE DEF NewConnection
<1>1. StreamType
  <2>1. unsent \in Seq(DataCell)
    BY AllWritten
  <2>2. \A C : <<>> \in Seq(C)
    OBVIOUS
  <2>3. Len(<<>>) = 0 /\ 0 \in 0..0
    OBVIOUS
  <2> QED BY <2>1, <2>2, <2>3 DEF StreamType
<1>2. QuietHandshake /\ FrameBegun
  BY MapStreamAssumption DEF QuietHandshake, FrameBegun
<1>3. Carried = <<>>
  BY DEF Carried
<1>4. Live = <<>>
  BY DEF Live
<1>5. RecordsWhole
  BY <1>3, RunEmpty DEF RecordsWhole
<1>6. FrameStart = Boundary("no") /\ Boundary("no") \in FrameState
  BY DEF FrameStart, Boundary, NoFrame, FrameState
<1>7. Through(FrameSteps, FrameState, <<>>, <<>>, <<>>, Boundary("no"), Boundary("no"))
  BY <1>6, RunEmpty DEF Through
<1>8. FramesWhole
  BY <1>3, <1>4, <1>6, <1>7 DEF FramesWhole
<1>9. Between(0) \in DataState /\ Len(delivered) = 0
  BY DEF Between, DataState
<1>10. Through(DataSteps, DataState, <<>>, <<>>, <<>>, Between(0), Between(0))
  BY <1>9, RunEmpty DEF Through
<1>11. Run(DataSteps, DataState, <<>>, Between(0), Between(0))
  BY <1>9, RunEmpty
<1>12. Run(DataSteps, DataState, unsent, Between(0), Between(Len(Lengths)))
  BY AllWritten DEF Between
<1>13. MessagesWhole
  BY <1>3, <1>4, <1>9, <1>10, <1>11, <1>12 DEF MessagesWhole
<1> QED BY <1>1, <1>2, <1>5, <1>8, <1>13 DEF StreamSound

\* The server frames the next n cells, or none.
LEMMA FrameSent ==
    ASSUME StreamSound, phase \in {"handshake", "reading"},
           plain = <<>>, NEW n \in 0..Len(unsent), NEW type, NEW end \in BOOLEAN,
           [type |-> type, len |-> n, end |-> end] \in Frame, end => n = Len(unsent),
           plain' = Header(type, n, end) \o SubSeq(unsent, 1, n),
           unsent' = SubSeq(unsent, n + 1, Len(unsent)),
           UNCHANGED <<wire, clientVars, delivered>>
    PROVE  StreamSound'
<1> DEFINE X == SubSeq(unsent, 1, n)
           Y == SubSeq(unsent, n + 1, Len(unsent))
           H == Header(type, n, end)
<1>1. StreamType
  BY DEF StreamSound
<1>2. unsent \in Seq(DataCell)
  BY <1>1 DEF StreamType
<1>3. X \in Seq(DataCell) /\ Y \in Seq(DataCell) /\ Len(X) = n /\ Len(Y) = Len(unsent) - n
  BY <1>2, CutApart
<1>4. Between(0) \in DataState
  BY DEF Between, DataState
<1>5. H \in Seq(PlainCell)
  BY <1>4, HeaderSkipped
<1> HIDE DEF X, Y, H
<1>6. X \in Seq(PlainCell)
  BY <1>3 DEF PlainCell
<1>7. plain' = H \o X /\ unsent' = Y
  BY DEF X, Y, H
<1>8. H \o X \in Seq(PlainCell)
  BY <1>5, <1>6
<1>9. StreamType'
  BY <1>1, <1>3, <1>7, <1>8 DEF StreamType, clientVars
<1>10. Carried' = Carried /\ Live' = Live /\ FrameStart' = FrameStart
  BY DEF Carried, Live, FrameStart, clientVars
<1>11. QuietHandshake' /\ FrameBegun' /\ RecordsWhole'
  BY <1>10 DEF StreamSound, QuietHandshake, FrameBegun, RecordsWhole, clientVars
<1>12. FramesWhole'
  <2>1. PICK e \in {"no", "yes"} :
           /\ Through(FrameSteps, FrameState, Live, Carried, <<>>, FrameStart, Boundary(e))
           /\ e = "yes" => unsent = <<>>
    BY DEF StreamSound, FramesWhole
  <2> DEFINE e2 == IF end THEN "yes" ELSE e
  <2>2. e = "yes" => X = <<>>
    BY <1>2, <1>3, <2>1
  <2>3. Run(FrameSteps, FrameState, H \o X, Boundary(e), Boundary(e2))
    <3>1. Run(FrameSteps, FrameState, Header(type, Len(X), end) \o X, Boundary(e), Boundary(e2))
      BY <1>3, <2>2, FrameWritten DEF Boundary
    <3> QED BY <1>3, <3>1 DEF H
  <2>4. Boundary(e) \in FrameState
    BY <1>1, FrameStartIs
  <2>5. Through(FrameSteps, FrameState, Live, Carried, H \o X, FrameStart, Boundary(e2))
    BY <2>1, <2>3, <2>4, FramePut
  <2>6. e2 = "yes" => Y = <<>>
    BY <1>2, <1>3, <2>1
  <2>7. e2 \in {"no", "yes"}
    OBVIOUS
  <2> HIDE DEF e2
  <2> QED BY <1>7, <1>10, <2>5, <2>6, <2>7 DEF FramesWhole
<1>13. MessagesWhole'
  <2>1. PICK p \in DataState, q \in DataState :
           /\ Run(DataSteps, DataState, fAcc, Between(Len(delivered)), p)
           /\ Through(DataSteps, DataState, Live, Carried, <<>>, p, q)
           /\ Run(DataSteps, DataState, unsent, q, Between(Len(Lengths)))
    BY DEF StreamSound, MessagesWhole
  <2>2. PICK r \in DataState : /\ Run(DataSteps, DataState, X, q, r)
                               /\ Run(DataSteps, DataState, Y, r, Between(Len(Lengths)))
    BY <1>2, <2>1, RunCut DEF X, Y
  <2>3. Run(DataSteps, DataState, H, q, q)
    BY HeaderSkipped DEF H
  <2>4. Run(DataSteps, DataState, H \o X, q, r)
    BY <1>5, <1>6, <2>2, <2>3, RunCat
  <2>5. Through(DataSteps, DataState, Live, Carried, H \o X, p, r)
    BY <2>1, <2>4, FramePut
  <2>6. fAcc' = fAcc /\ delivered' = delivered
    BY DEF clientVars
  <2> QED BY <1>7, <1>10, <2>1, <2>2, <2>5, <2>6 DEF MessagesWhole
<1> QED BY <1>9, <1>11, <1>12, <1>13 DEF StreamSound

\* The server cuts the next k cells into a record.
LEMMA RecordSent ==
    ASSUME StreamSound, phase \in {"handshake", "reading"}, NEW k \in 1..MaxRecord, ServerRecord(k)
    PROVE  StreamSound'
<1> DEFINE X == SubSeq(plain, 1, k)
           Y == SubSeq(plain, k + 1, Len(plain))
           c == [is |-> "record", len |-> k]
           w == (wire \o <<c>>) \o X
<1>1. StreamType
  BY DEF StreamSound
<1>2. plain \in Seq(PlainCell) /\ wire \in Seq(Cell) /\ part \in Seq(Cell) /\ fPending \in Seq(Cell)
  BY <1>1 DEF StreamType
<1>3. k \in 0..Len(plain)
  BY <1>2, MapStreamAssumption DEF ServerRecord
<1>4. X \in Seq(PlainCell) /\ Y \in Seq(PlainCell) /\ Len(X) = k
  BY <1>2, <1>3, CutApart
<1>5. c \in RecordCell
  BY DEF RecordCell
<1>6. wire' = w /\ plain' = Y
  BY DEF ServerRecord
<1>7. /\ UNCHANGED <<unsent, delivered, phase, fPending, part, fBuf, fBufOff, frame, fReqEnded, fAcc>>
      /\ phase = "handshake" => Len(wire) + k + 1 <= MaxBundle
  BY DEF ServerRecord, clientVars
<1> HIDE DEF X, Y, c
<1>8. c \in Cell /\ <<c>> \in Seq(Cell) /\ X \in Seq(Cell) /\ Y \in Seq(Cell)
  <2>1. c \in Cell
    BY <1>5, RecordsSkipped
  <2>2. X \in Seq(Cell) /\ Y \in Seq(Cell)
    BY <1>4 DEF Cell
  <2> QED BY <2>1, <2>2
<1>9. wire \o <<c>> \in Seq(Cell) /\ Len(wire \o <<c>>) = Len(wire) + 1
  BY <1>2, <1>8
<1>10. w \in Seq(Cell) /\ Len(w) = Len(wire) + 1 + k
  <2> DEFINE v == wire \o <<c>>
  <2> HIDE DEF v
  <2>1. v \in Seq(Cell) /\ Len(v) = Len(wire) + 1
    BY <1>9 DEF v
  <2>2. v \o X \in Seq(Cell) /\ Len(v \o X) = Len(v) + Len(X)
    BY <1>8, <2>1
  <2> QED BY <1>4, <2>1, <2>2 DEF v
<1>11. StreamType'
  <2> HIDE DEF w
  <2> QED BY <1>1, <1>4, <1>6, <1>7, <1>10 DEF StreamType
<1>12. QuietHandshake'
  <2> HIDE DEF w
  <2>1. k \in Nat /\ Len(wire) \in Nat
    BY <1>2
  <2> QED BY <1>6, <1>7, <1>10, <2>1, MapStreamAssumption DEF StreamSound, QuietHandshake
<1>13. FrameBegun'
  BY <1>7 DEF StreamSound, FrameBegun
<1> DEFINE A == part \o fPending
<1>14. A \in Seq(Cell) /\ Carried = A \o wire /\ Carried \in Seq(Cell)
  BY <1>1, <1>2, CellsToo DEF Carried
<1>15. Carried' = A \o w
  BY <1>6, <1>7 DEF Carried
<1> HIDE DEF A
<1>16. A \o w = (Carried \o <<c>>) \o X
  <2>1. A \o w = (A \o (wire \o <<c>>)) \o X
    <3> DEFINE D == wire \o <<c>>
    <3>1. D \in Seq(Cell) /\ X \in Seq(Cell) /\ A \in Seq(Cell)
      BY <1>8, <1>9, <1>14
    <3> HIDE DEF D
    <3>2. (A \o D) \o X = A \o (D \o X)
      BY <3>1, Associative
    <3> QED BY <3>2 DEF D
  <2>2. A \o (wire \o <<c>>) = (A \o wire) \o <<c>>
    BY <1>2, <1>8, <1>14, Associative
  <2> QED BY <1>14, <2>1, <2>2
<1>17. Live' = Live /\ FrameStart' = FrameStart /\ Live \in Seq(Cell)
  BY <1>1, <1>7, CellsToo DEF Live, FrameStart
<1>18. RecordsWhole'
  <2>1. Run(RecordSteps, Nat, <<c>> \o X, 0, 0)
    BY <1>4, RecordWritten DEF c
  <2>2. Run(RecordSteps, Nat, Carried, 0, 0)
    BY DEF StreamSound, RecordsWhole
  <2>3. <<c>> \o X \in Seq(Cell)
    BY <1>8
  <2>4. Run(RecordSteps, Nat, Carried \o (<<c>> \o X), 0, 0)
    BY <1>14, <2>1, <2>2, <2>3, RunCat
  <2>5. (Carried \o <<c>>) \o X = Carried \o (<<c>> \o X)
    <3> DEFINE D == <<c>>
    <3>1. D \in Seq(Cell) /\ X \in Seq(Cell) /\ Carried \in Seq(Cell)
      BY <1>8, <1>14
    <3> HIDE DEF D
    <3>2. (Carried \o D) \o X = Carried \o (D \o X)
      BY <3>1, Associative
    <3> QED BY <3>2 DEF D
  <2> QED BY <1>15, <1>16, <2>4, <2>5 DEF RecordsWhole
<1>19. plain \in Seq(Cell)
  BY <1>1, CellsToo
<1>20. FramesWhole'
  <2>1. PICK e \in {"no", "yes"} :
           /\ Through(FrameSteps, FrameState, Live, Carried, plain, FrameStart, Boundary(e))
           /\ e = "yes" => unsent = <<>>
    BY DEF StreamSound, FramesWhole
  <2>2. \A s \in FrameState : <<s, c, s>> \in FrameSteps
    BY <1>5, RecordsSkipped
  <2>3. Through(FrameSteps, FrameState, Live, (Carried \o <<c>>) \o X, Y, FrameStart, Boundary(e))
    BY <1>3, <1>8, <1>14, <1>17, <1>19, <2>1, <2>2, RecordPut DEF X, Y
  <2> QED BY <1>6, <1>7, <1>15, <1>16, <1>17, <2>1, <2>3 DEF FramesWhole
<1>21. MessagesWhole'
  <2>1. PICK p \in DataState, q \in DataState :
           /\ Run(DataSteps, DataState, fAcc, Between(Len(delivered)), p)
           /\ Through(DataSteps, DataState, Live, Carried, plain, p, q)
           /\ Run(DataSteps, DataState, unsent, q, Between(Len(Lengths)))
    BY DEF StreamSound, MessagesWhole
  <2>2. \A s \in DataState : <<s, c, s>> \in DataSteps
    BY <1>5, RecordsSkipped
  <2>3. Through(DataSteps, DataState, Live, (Carried \o <<c>>) \o X, Y, p, q)
    BY <1>3, <1>8, <1>14, <1>17, <1>19, <2>1, <2>2, RecordPut DEF X, Y
  <2> QED BY <1>6, <1>7, <1>15, <1>16, <1>17, <2>1, <2>3 DEF MessagesWhole
<1> QED BY <1>11, <1>12, <1>13, <1>18, <1>20, <1>21 DEF StreamSound

\* Reading moves cells, and changes none.
LEMMA CellsMove ==
    ASSUME StreamSound, Carried' = Carried, StreamType', QuietHandshake',
           UNCHANGED <<unsent, plain, fBuf, fBufOff, frame, fReqEnded, fAcc, delivered>>
    PROVE  StreamSound'
<1>1. Live' = Live /\ FrameStart' = FrameStart
  BY DEF Live, FrameStart
<1>2. FrameBegun'
  BY DEF StreamSound, FrameBegun
<1>3. RecordsWhole'
  BY DEF StreamSound, RecordsWhole
<1>4. FramesWhole'
  BY <1>1 DEF StreamSound, FramesWhole
<1>5. MessagesWhole'
  BY <1>1 DEF StreamSound, MessagesWhole
<1> QED BY <1>2, <1>3, <1>4, <1>5 DEF StreamSound

\* The handshake keeps every cell it has read, for the bundle fits.
LEMMA HandshakeStep ==
    ASSUME StreamSound, Handshake, MaxBundle <= PushbackSize
    PROVE  StreamSound'
<1>1. StreamType /\ QuietHandshake
  BY DEF StreamSound
<1>2. wire \in Seq(Cell) /\ part \in Seq(Cell) /\ fPending = <<>> /\ Len(wire) <= PushbackSize
  BY <1>1, MapStreamAssumption DEF StreamType, QuietHandshake, Handshake
<1>3. PICK n \in 0..Len(wire) : fPending' = Pushback(n) /\ wire' = SubSeq(wire, n + 1, Len(wire))
  BY DEF Handshake
<1>4. Pushback(n) = SubSeq(wire, 1, n)
  <2>1. n <= PushbackSize /\ (n < PushbackSize \/ n = PushbackSize)
    BY <1>2, MapStreamAssumption
  <2> QED BY <2>1 DEF Pushback
<1> DEFINE X == SubSeq(wire, 1, n)
           Y == SubSeq(wire, n + 1, Len(wire))
<1>5. X \in Seq(Cell) /\ Y \in Seq(Cell)
  BY <1>2, CutApart
<1>6. Carried' = (part \o X) \o Y
  BY <1>3, <1>4 DEF Carried, Handshake
<1>7. (part \o X) \o Y = part \o wire
  BY <1>2, CutMoves
<1>8. Carried = part \o wire
  BY <1>2 DEF Carried
<1> HIDE DEF X, Y
<1>9. Carried' = Carried
  BY <1>6, <1>7, <1>8
<1>10. fPending' = X /\ wire' = Y
  BY <1>3, <1>4 DEF X, Y
<1>11. StreamType'
  BY <1>1, <1>5, <1>10 DEF StreamType, Handshake, serverVars
<1>12. QuietHandshake'
  BY DEF QuietHandshake, Handshake
<1> QED BY <1>9, <1>11, <1>12, CellsMove DEF Handshake, serverVars

\* _ReadFull moves cells from the front, and the first is a record's header.
LEMMA ReadSomeStep ==
    ASSUME StreamSound, ReadSome
    PROVE  StreamSound' /\ UNCHANGED <<phase, pausedInside>>
<1>1. StreamType
  BY DEF StreamSound
<1>2. wire \in Seq(Cell) /\ part \in Seq(Cell) /\ fPending \in Seq(Cell)
  BY <1>1 DEF StreamType
<1> DEFINE wanted == IF part = <<>> THEN 1 ELSE 1 + part[1].len - Len(part)
           A(k) == /\ k <= Len(fPending)
                   /\ part' = part \o SubSeq(fPending, 1, k)
                   /\ fPending' = SubSeq(fPending, k + 1, Len(fPending))
                   /\ UNCHANGED wire
           B(k) == /\ fPending = <<>> /\ k <= Len(wire)
                   /\ part' = part \o SubSeq(wire, 1, k)
                   /\ wire' = SubSeq(wire, k + 1, Len(wire))
                   /\ UNCHANGED fPending
<1>3. PICK k \in 1..wanted : A(k) \/ B(k)
  BY DEF ReadSome
<1>4. phase = "reading" /\ UNCHANGED <<unsent, plain, over, fBuf, fBufOff, frame, fReqEnded, fAcc, delivered>>
  BY DEF ReadSome, WantsRecord, WantsMessage, Reading, serverVars
<1>5. k \in Nat /\ k >= 1
  OBVIOUS
<1> HIDE DEF wanted
<1>6. /\ Carried' = Carried /\ part' \in Seq(Cell) /\ part' # <<>>
      /\ wire' \in Seq(Cell) /\ fPending' \in Seq(Cell)
  <2>1. CASE A(k)
    <3> DEFINE X == SubSeq(fPending, 1, k)
               Y == SubSeq(fPending, k + 1, Len(fPending))
    <3>1. k \in 0..Len(fPending)
      BY <1>2, <1>5, <2>1
    <3>2. X \in Seq(Cell) /\ Y \in Seq(Cell) /\ Len(X) = k
      BY <1>2, <3>1, CutApart
    <3>3. (part \o X) \o Y = part \o fPending
      BY <1>2, <3>1, CutMoves
    <3>4. part' = part \o X /\ fPending' = Y /\ wire' = wire
      BY <2>1
    <3> HIDE DEF X, Y
    <3>5. part \o X \in Seq(Cell) /\ Len(part \o X) = Len(part) + k
      <4>1. part \in Seq(Cell) /\ X \in Seq(Cell)
        BY <1>2, <3>2
      <4>2. part \o X \in Seq(Cell) /\ Len(part \o X) = Len(part) + Len(X)
        BY <4>1
      <4> QED BY <3>2, <4>2
    <3>6. part' # <<>>
      BY <1>2, <1>5, <3>4, <3>5
    <3>7. Carried' = Carried
      BY <3>3, <3>4 DEF Carried
    <3> QED BY <1>2, <3>2, <3>4, <3>5, <3>6, <3>7
  <2>2. CASE B(k)
    <3> DEFINE X == SubSeq(wire, 1, k)
               Y == SubSeq(wire, k + 1, Len(wire))
    <3>1. k \in 0..Len(wire)
      BY <1>2, <1>5, <2>2
    <3>2. X \in Seq(Cell) /\ Y \in Seq(Cell) /\ Len(X) = k
      BY <1>2, <3>1, CutApart
    <3>3. (part \o X) \o Y = part \o wire
      BY <1>2, <3>1, CutMoves
    <3>4. part' = part \o X /\ wire' = Y /\ fPending' = <<>> /\ fPending = <<>>
      BY <2>2
    <3> HIDE DEF X, Y
    <3>5. part \o X \in Seq(Cell) /\ Len(part \o X) = Len(part) + k
      <4>1. part \in Seq(Cell) /\ X \in Seq(Cell)
        BY <1>2, <3>2
      <4>2. part \o X \in Seq(Cell) /\ Len(part \o X) = Len(part) + Len(X)
        BY <4>1
      <4> QED BY <3>2, <4>2
    <3>6. part' # <<>>
      BY <1>2, <1>5, <3>4, <3>5
    <3>7. (part \o X) \o <<>> = part \o X /\ part \o <<>> = part
      BY <1>2, <3>5, Unit
    <3>8. Carried' = Carried
      BY <3>3, <3>4, <3>7 DEF Carried
    <3> QED BY <1>2, <3>2, <3>4, <3>5, <3>6, <3>8
  <2> QED BY <1>3, <2>1, <2>2
<1>7. StreamType' /\ QuietHandshake'
  <2>1. StreamType'
    BY <1>1, <1>4, <1>6 DEF StreamType
  <2>2. phase' # "handshake"
    BY <1>4 DEF ReadSome, Fails
  <2> QED BY <2>1, <2>2 DEF QuietHandshake
<1>8. StreamSound'
  BY <1>4, <1>6, <1>7, CellsMove
<1>9. part'[1] \in RecordCell
  <2> DEFINE Z == fPending' \o wire'
  <2>1. Z \in Seq(Cell)
    BY <1>6
  <2>2. Carried' = part' \o Z
    <3>1. (part' \o fPending') \o wire' = part' \o (fPending' \o wire')
      BY <1>6, Associative
    <3> QED BY <3>1 DEF Carried
  <2>3. Run(RecordSteps, Nat, part' \o Z, 0, 0)
    BY <1>8, <2>2 DEF StreamSound, RecordsWhole
  <2> HIDE DEF Z
  <2>4. PICK m \in Nat : Run(RecordSteps, Nat, part', 0, m)
    BY <1>6, <2>1, <2>3, RunParts
  <2> QED BY <1>6, <2>4, RecordFirst
<1>10. Head(part') = part'[1]
  BY <1>6
<1>11. Head(part').is = "record"
  BY <1>9, <1>10 DEF RecordCell
<1>12. UNCHANGED <<phase, pausedInside>>
  BY <1>11 DEF ReadSome
<1> QED BY <1>8, <1>12

\* The buffer grows behind its unread part ...
LEMMA TailGrows ==
    ASSUME NEW C, NEW B \in Seq(C), NEW T \in Seq(C), NEW o \in 0..Len(B)
    PROVE  SubSeq(B \o T, o + 1, Len(B \o T)) = SubSeq(B, o + 1, Len(B)) \o T
<1> DEFINE X == SubSeq(B, 1, o)
           Y == SubSeq(B, o + 1, Len(B))
           W == Y \o T
<1>1. X \in Seq(C) /\ Y \in Seq(C) /\ Len(X) = o /\ X \o Y = B
  BY CutApart
<1> HIDE DEF X, Y
<1>2. W \in Seq(C)
  <2>1. Y \in Seq(C)
    BY <1>1
  <2> QED BY <2>1
<1>3. (X \o Y) \o T = X \o W
  <2>1. X \in Seq(C) /\ Y \in Seq(C)
    BY <1>1
  <2> QED BY <2>1, Associative
<1> HIDE DEF W
<1>4. SubSeq(X \o W, Len(X) + 1, Len(X \o W)) = W
  <2>1. X \in Seq(C)
    BY <1>1
  <2> QED BY <1>2, <2>1
<1> QED BY <1>1, <1>3, <1>4 DEF W, Y

\* ... and is read from its front.
LEMMA TailShrinks ==
    ASSUME NEW C, NEW B \in Seq(C), NEW o \in 0..Len(B), NEW k \in 0..(Len(B) - o)
    PROVE  SubSeq(B, (o + k) + 1, Len(B))
              = SubSeq(SubSeq(B, o + 1, Len(B)), k + 1, Len(SubSeq(B, o + 1, Len(B))))
<1> DEFINE n == Len(B)
           L == SubSeq(B, o + 1, n)
           X == SubSeq(B, (o + k) + 1, n)
           Y == SubSeq(L, k + 1, n - o)
           d == n - (o + k)
<1>1. n \in Nat /\ o \in Nat /\ k \in Nat /\ o + k <= n /\ o + k \in 0..n /\ d \in Nat
  OBVIOUS
<1>2. L \in Seq(C) /\ Len(L) = n - o
  BY CutApart
<1>3. \A i \in 1..(n - o) : L[i] = B[o + i]
  BY <1>1
<1>4. X \in Seq(C) /\ Len(X) = d
  BY <1>1, CutApart
<1>5. \A i \in 1..d : X[i] = B[(o + k) + i]
  BY <1>1
<1> HIDE DEF L
<1>6. k \in 0..Len(L)
  BY <1>1, <1>2
<1>7. SubSeq(L, k + 1, Len(L)) \in Seq(C) /\ Len(SubSeq(L, k + 1, Len(L))) = Len(L) - k
  BY <1>2, <1>6, CutApart
<1>8. Y \in Seq(C) /\ Len(Y) = d
  BY <1>1, <1>2, <1>7
<1>9. \A i \in 1..d : Y[i] = L[k + i]
  BY <1>1, <1>2
<1> HIDE DEF X, Y, d
<1>10. ASSUME NEW i \in 1..d PROVE X[i] = Y[i]
  <2>1. k + i \in 1..(n - o) /\ o + (k + i) = (o + k) + i
    BY <1>1 DEF d
  <2> QED BY <1>3, <1>5, <1>9, <2>1
<1>11. X = [i \in 1..d |-> X[i]] /\ Y = [i \in 1..d |-> Y[i]]
  BY <1>1, <1>4, <1>8
<1>12. X = Y
  BY <1>10, <1>11
<1> QED BY <1>2, <1>12 DEF X, Y, L

\* ReadRecord: a whole record goes into the buffer, which has room for it.
LEMMA TakeRecordStep ==
    ASSUME StreamSound, TakeRecord
    PROVE  StreamSound' /\ UNCHANGED <<phase, pausedInside>>
<1>1. StreamType
  BY DEF StreamSound
<1>2. /\ wire \in Seq(Cell) /\ part \in Seq(Cell) /\ fPending \in Seq(Cell)
      /\ fBuf \in Seq(PlainCell) /\ fBufOff \in 0..Len(fBuf)
  BY <1>1 DEF StreamType
<1> DEFINE Z == fPending \o wire
           T == Tail(part)
           c == part[1]
<1>3. Z \in Seq(Cell) /\ Carried = part \o Z
  <2>1. (part \o fPending) \o wire = part \o (fPending \o wire)
    BY <1>2, Associative
  <2> QED BY <1>2, <2>1 DEF Carried
<1>4. part # <<>> /\ Len(part) = 1 + part[1].len /\ phase = "reading" /\ Len(Live) < Need
  BY DEF TakeRecord, WantsRecord, WantsMessage, Reading
<1>5. Run(RecordSteps, Nat, part \o Z, 0, 0)
  BY <1>3 DEF StreamSound, RecordsWhole
<1> HIDE DEF Z
<1>6. PICK m \in Nat : Run(RecordSteps, Nat, part, 0, m) /\ Run(RecordSteps, Nat, Z, m, 0)
  BY <1>2, <1>3, <1>5, RunParts
<1>7. m = 0 /\ T \in Seq(PlainCell) /\ part = <<c>> \o T
  BY <1>2, <1>4, <1>6, RecordRead
<1>8. c \in RecordCell
  BY <1>2, <1>4, <1>6, RecordFirst
<1>9. c.len \in 1..MaxRecord /\ Len(T) = c.len
  <2>1. c.len \in 1..MaxRecord
    BY <1>8 DEF RecordCell
  <2>2. Len(T) = Len(part) - 1
    BY <1>2, <1>4
  <2> HIDE DEF T
  <2> QED BY <1>4, <2>1, <2>2
<1> HIDE DEF T, c
<1>10. /\ Live \in Seq(PlainCell) /\ Live \in Seq(Cell) /\ Carried \in Seq(Cell) /\ plain \in Seq(Cell)
       /\ Len(Live) = Len(fBuf) - fBufOff
  BY <1>1, CellsToo
<1>11. Len(Live) + 1 <= MaxFrame \/ Len(Live) <= 1
  <2>1. Len(Live) \in Nat /\ MaxFrame \in Nat
    BY <1>10, MapStreamAssumption
  <2>2. CASE frame = NoFrame
    BY <1>4, <2>1, <2>2 DEF Need
  <2>3. CASE frame # NoFrame
    <3>1. frame.len \in 0..MaxFrame
      BY <1>1, <2>3, FrameParts DEF StreamType
    <3> QED BY <1>4, <2>1, <2>3, <3>1 DEF Need
  <2> QED BY <2>2, <2>3
<1> DEFINE room == Compacted
<1>12. c.len <= BufSize - Len(room)
  <2>1. Len(Live) \in Nat /\ Len(fBuf) \in Nat /\ fBufOff \in Nat
    BY <1>2, <1>10
  <2>2. c.len <= MaxFrame /\ c.len \in Nat
    BY <1>9, MapStreamAssumption
  <2>3. MaxFrame \in Nat /\ MaxFrame >= 1 /\ BufSize >= 2 * MaxFrame
    BY MapStreamAssumption
  <2>a. Len(Live) + MaxFrame <= 2 * MaxFrame
    BY <1>11, <2>1, <2>3
  <2>4. BufSize \in Int
    BY MapStreamAssumption
  <2>5. CASE fBufOff > 0 /\ Len(fBuf) + MaxFrame > BufSize
    <3>1. room = Live
      BY <2>5 DEF Compacted
    <3> QED BY <2>1, <2>2, <2>3, <2>a, <2>4, <3>1
  <2>6. CASE fBufOff = 0
    <3>1. room = fBuf /\ Len(fBuf) = Len(Live)
      BY <1>10, <2>1, <2>6 DEF Compacted
    <3> QED BY <2>1, <2>2, <2>3, <2>a, <2>4, <3>1
  <2>7. CASE fBufOff # 0 /\ Len(fBuf) + MaxFrame <= BufSize
    <3>1. room = fBuf
      BY <2>1, <2>3, <2>4, <2>7 DEF Compacted
    <3> QED BY <2>1, <2>2, <2>3, <2>4, <2>7, <3>1
  <2> QED BY <2>1, <2>3, <2>4, <2>5, <2>6, <2>7
<1>13. ~ (part[1].len > BufSize - Len(room))
  <2>1. c.len \in Int /\ BufSize - Len(room) \in Int
    <3>1. Len(room) \in Nat
      BY <1>2, <1>10 DEF Compacted
    <3> QED BY <1>9, <3>1, MapStreamAssumption
  <2> QED BY <1>12, <2>1 DEF c
<1>14. /\ fBuf' = room \o T
       /\ fBufOff' = IF room = fBuf THEN fBufOff ELSE 0
       /\ UNCHANGED <<phase, pausedInside>>
  BY <1>13 DEF TakeRecord, T
<1>15. /\ part' = <<>>
       /\ UNCHANGED <<unsent, plain, wire, fPending, frame, fReqEnded, fAcc, delivered>>
  BY DEF TakeRecord, serverVars
<1>16. Live' = Live \o T /\ fBuf' \in Seq(PlainCell) /\ fBufOff' \in 0..Len(fBuf')
  <2>1. CASE room = fBuf
    <3>1. fBuf' = fBuf \o T /\ fBufOff' = fBufOff
      BY <1>14, <2>1
    <3>2. fBuf \o T \in Seq(PlainCell) /\ Len(fBuf \o T) = Len(fBuf) + Len(T)
      <4>1. fBuf \in Seq(PlainCell) /\ T \in Seq(PlainCell)
        BY <1>2, <1>7
      <4> QED BY <4>1
    <3>3. SubSeq(fBuf \o T, fBufOff + 1, Len(fBuf \o T)) = Live \o T
      BY <1>2, <1>7, TailGrows DEF Live
    <3>4. Live' = Live \o T
      BY <3>1, <3>3 DEF Live
    <3>5. fBufOff' \in 0..Len(fBuf')
      <4>1. Len(T) \in Nat
        BY <1>7
      <4> QED BY <1>2, <3>1, <3>2, <4>1
    <3> QED BY <3>1, <3>2, <3>4, <3>5
  <2>2. CASE room # fBuf
    <3>1. room = Live
      BY <2>2 DEF Compacted
    <3>2. fBuf' = Live \o T /\ fBufOff' = 0
      BY <1>14, <2>2, <3>1
    <3> DEFINE W == Live \o T
    <3>3. W \in Seq(PlainCell)
      <4>1. Live \in Seq(PlainCell) /\ T \in Seq(PlainCell)
        BY <1>7, <1>10
      <4> QED BY <4>1
    <3> HIDE DEF W
    <3>4. SubSeq(W, 0 + 1, Len(W)) = W
      BY <3>3
    <3>5. Live' = W
      BY <3>2, <3>4 DEF Live, W
    <3>6. 0 \in 0..Len(W)
      BY <3>3
    <3> QED BY <3>2, <3>3, <3>5, <3>6 DEF W
  <2> QED BY <2>1, <2>2
<1>17. Carried' = Z
  <2>1. Carried' = (<<>> \o fPending) \o wire
    BY <1>15 DEF Carried
  <2>2. <<>> \o fPending = fPending
    BY <1>2, Unit
  <2> QED BY <2>1, <2>2 DEF Z
<1>18. StreamType'
  <2>1. <<>> \in Seq(Cell)
    OBVIOUS
  <2> QED BY <1>1, <1>15, <1>16, <2>1 DEF StreamType
<1>19. QuietHandshake'
  BY <1>4, <1>14 DEF QuietHandshake
<1>20. FrameBegun'
  <2>1. frame # NoFrame => ~fReqEnded /\ frame.len # 0
    <3>1. Len(Live) \in Nat
      BY <1>10
    <3> QED BY <1>4, <3>1 DEF StreamSound, FrameBegun, Need
  <2> QED BY <1>15, <2>1 DEF FrameBegun
<1>21. RecordsWhole'
  BY <1>6, <1>7, <1>17 DEF RecordsWhole
<1>22. FrameStart' = FrameStart
  BY <1>15 DEF FrameStart
<1>23. c \in Cell /\ T \in Seq(Cell)
  <2>1. T \in Seq(Cell)
    BY <1>7 DEF Cell
  <2> QED BY <1>8, <2>1, RecordsSkipped
<1>24. Carried = (<<c>> \o T) \o Z
  BY <1>3, <1>7
<1>25. FramesWhole'
  <2>1. PICK e \in {"no", "yes"} :
           /\ Through(FrameSteps, FrameState, Live, (<<c>> \o T) \o Z, plain, FrameStart, Boundary(e))
           /\ e = "yes" => unsent = <<>>
    BY <1>24 DEF StreamSound, FramesWhole
  <2>2. \A s \in FrameState : \A t \in FrameState : <<s, c, t>> \in FrameSteps => s = t
    BY <1>8, RecordsSkipped
  <2>3. Through(FrameSteps, FrameState, Live \o T, Z, plain, FrameStart, Boundary(e))
    BY <1>3, <1>10, <1>23, <2>1, <2>2, RecordOut
  <2> QED BY <1>15, <1>16, <1>17, <1>22, <2>1, <2>3 DEF FramesWhole
<1>26. MessagesWhole'
  <2>1. PICK p \in DataState, q \in DataState :
           /\ Run(DataSteps, DataState, fAcc, Between(Len(delivered)), p)
           /\ Through(DataSteps, DataState, Live, (<<c>> \o T) \o Z, plain, p, q)
           /\ Run(DataSteps, DataState, unsent, q, Between(Len(Lengths)))
    BY <1>24 DEF StreamSound, MessagesWhole
  <2>2. \A s \in DataState : \A t \in DataState : <<s, c, t>> \in DataSteps => s = t
    BY <1>8, RecordsSkipped
  <2>3. Through(DataSteps, DataState, Live \o T, Z, plain, p, q)
    BY <1>3, <1>10, <1>23, <2>1, <2>2, RecordOut
  <2> QED BY <1>15, <1>16, <1>17, <2>1, <2>3 DEF MessagesWhole
<1> QED BY <1>14, <1>18, <1>19, <1>20, <1>21, <1>25, <1>26 DEF StreamSound

\* ReadFrame's first half: a header is there, whole.
LEMMA TakeHeaderStep ==
    ASSUME StreamSound, TakeHeader
    PROVE  StreamSound'
<1>1. StreamType
  BY DEF StreamSound
<1>2. fBuf \in Seq(PlainCell) /\ fBufOff \in 0..Len(fBuf)
  BY <1>1 DEF StreamType
<1>3. /\ Live \in Seq(PlainCell) /\ Live \in Seq(Cell) /\ Len(Live) = Len(fBuf) - fBufOff
      /\ \A i \in 1..Len(Live) : Live[i] = fBuf[fBufOff + i]
  BY <1>1, CellsToo
<1>4. /\ frame = NoFrame /\ ~fReqEnded /\ Len(Live) >= 2 /\ phase = "reading"
      /\ frame' = Live[1].frame /\ fBufOff' = fBufOff + 2
      /\ UNCHANGED <<unsent, plain, wire, phase, fPending, part, fBuf, fReqEnded, fAcc, delivered>>
  BY DEF TakeHeader, FrameReady, WantsMessage, Reading, Need, serverVars
<1> DEFINE X == SubSeq(Live, 1, 2)
           Y == SubSeq(Live, 3, Len(Live))
<1>5. 2 \in 0..Len(Live) /\ 2 + 1 = 3
  BY <1>3, <1>4
<1>6. X \in Seq(PlainCell) /\ X \in Seq(Cell) /\ Len(X) = 2 /\ X[1] = Live[1] /\ X[2] = Live[2]
  <2>1. X \in Seq(PlainCell) /\ Len(X) = 2
    BY <1>3, <1>5, CutApart
  <2>2. X \in Seq(Cell)
    BY <1>3, <1>5, CutApart
  <2>3. X[1] = Live[1] /\ X[2] = Live[2]
    BY <1>3, <1>5
  <2> QED BY <2>1, <2>2, <2>3
<1>7. Live' = Y
  <2>1. 2 \in 0..(Len(fBuf) - fBufOff)
    BY <1>3, <1>5
  <2>2. SubSeq(fBuf, (fBufOff + 2) + 1, Len(fBuf)) = SubSeq(Live, 2 + 1, Len(Live))
    BY <1>2, <2>1, TailShrinks DEF Live
  <2>3. Live' = SubSeq(fBuf, (fBufOff + 2) + 1, Len(fBuf))
    BY <1>4 DEF Live
  <2> QED BY <1>5, <2>2, <2>3
<1>8. PICK e \in {"no", "yes"} :
         /\ Through(FrameSteps, FrameState, Live, Carried, plain, FrameStart, Boundary(e))
         /\ e = "yes" => unsent = <<>>
  BY DEF StreamSound, FramesWhole
<1>9. PICK m \in FrameState :
         /\ Run(FrameSteps, FrameState, X, FrameStart, m)
         /\ Through(FrameSteps, FrameState, Y, Carried, plain, m, Boundary(e))
  BY <1>3, <1>5, <1>8, FrontOut
<1>10. FrameStart = [left |-> 0, at |-> "frame", ended |-> "no"]
  BY <1>4 DEF FrameStart, NoFrame
<1> HIDE DEF X, Y
<1>11. /\ X[1] = [is |-> "frame", frame |-> X[1].frame] /\ X[1].frame \in Frame
       /\ X[2] = [is |-> "frame2"]
       /\ m = [left |-> X[1].frame.len, at |-> "frame",
               ended |-> IF X[1].frame.end THEN "yes" ELSE "no"]
  BY <1>6, <1>9, <1>10, HeaderRead
<1>12. frame' = X[1].frame /\ frame' \in Frame /\ frame' # NoFrame
  BY <1>4, <1>6, <1>11, FrameParts
<1>13. m = FrameStart'
  BY <1>4, <1>11, <1>12 DEF FrameStart
<1>14. Carried' = Carried
  BY <1>4 DEF Carried
<1>15. StreamType'
  <2>1. fBufOff + 2 \in 0..Len(fBuf)
    BY <1>2, <1>3, <1>4
  <2> QED BY <1>1, <1>4, <1>12, <2>1 DEF StreamType
<1>16. QuietHandshake'
  BY <1>4 DEF QuietHandshake
<1>17. FrameBegun'
  <2>1. fBuf[fBufOff + 2] = X[2] /\ fBuf[fBufOff + 1] = X[1]
    BY <1>3, <1>4, <1>6
  <2>2. fBufOff' >= 2 /\ fBufOff' = fBufOff + 2 /\ fBufOff' - 1 = fBufOff + 1
    BY <1>2, <1>4
  <2> QED BY <1>4, <1>11, <1>12, <2>1, <2>2 DEF FrameBegun
<1>18. RecordsWhole'
  BY <1>14 DEF StreamSound, RecordsWhole
<1>19. FramesWhole'
  BY <1>4, <1>7, <1>8, <1>9, <1>13, <1>14 DEF FramesWhole
<1>20. MessagesWhole'
  <2>1. PICK p \in DataState, q \in DataState :
           /\ Run(DataSteps, DataState, fAcc, Between(Len(delivered)), p)
           /\ Through(DataSteps, DataState, Live, Carried, plain, p, q)
           /\ Run(DataSteps, DataState, unsent, q, Between(Len(Lengths)))
    BY DEF StreamSound, MessagesWhole
  <2>2. PICK r \in DataState :
           /\ Run(DataSteps, DataState, X, p, r)
           /\ Through(DataSteps, DataState, Y, Carried, plain, r, q)
    BY <1>3, <1>5, <2>1, FrontOut DEF X, Y
  <2>3. \A i \in 1..Len(X) : X[i] \notin DataCell
    <3>1. X[1] \in Cell /\ X[2] \in Cell
      <4>1. X \in Seq(Cell) /\ 1 \in 1..Len(X) /\ 2 \in 1..Len(X)
        BY <1>6
      <4> QED BY <4>1
    <3>2. X[1].is = "frame" /\ X[2].is = "frame2"
      BY <1>11
    <3>3. X[1] \notin DataCell /\ X[2] \notin DataCell
      BY <3>1, <3>2, CellKinds
    <3> QED BY <1>6, <3>3
  <2>4. p = r
    BY <1>6, <2>2, <2>3, DataSkips
  <2> QED BY <1>4, <1>7, <1>14, <2>1, <2>2, <2>4 DEF MessagesWhole
<1> QED BY <1>15, <1>16, <1>17, <1>18, <1>19, <1>20 DEF StreamSound

\* ReadFrame's second half: what it takes from the buffer are cells of messages.
LEMMA TakeFrameStep ==
    ASSUME StreamSound, TakeFrame
    PROVE  /\ StreamSound' /\ phase' \in {"reading", "ended", "failed"}
           /\ phase' = "failed" => FailsForCause'
<1>1. StreamType
  BY DEF StreamSound
<1>2. fBuf \in Seq(PlainCell) /\ fBufOff \in 0..Len(fBuf) /\ fAcc \in Seq(DataCell)
  BY <1>1 DEF StreamType
<1>3. Live \in Seq(PlainCell) /\ Live \in Seq(Cell) /\ Len(Live) = Len(fBuf) - fBufOff
  BY <1>1, CellsToo
<1> DEFINE n == frame.len
           X == SubSeq(Live, 1, n)
           Y == SubSeq(Live, n + 1, Len(Live))
<1>4. /\ frame # NoFrame /\ ~fReqEnded /\ Len(Live) >= n /\ phase = "reading"
      /\ frame' = NoFrame /\ fBufOff' = fBufOff + n
      /\ fAcc' = IF frame.type = "DATA" THEN fAcc \o X ELSE fAcc
      /\ UNCHANGED <<unsent, plain, over, wire, fPending, part, fBuf, delivered>>
  BY DEF TakeFrame, FrameReady, WantsMessage, Reading, Need, serverVars
<1>5. frame \in Frame
  BY <1>1, <1>4 DEF StreamType
<1>6. n \in 0..MaxFrame /\ frame.end \in BOOLEAN /\ frame.type \in {"DATA", "PING", "GOAWAY"}
      /\ (frame.type # "DATA" => n = 0 /\ frame.end = FALSE)
  BY <1>5, FrameParts
<1>7. fReqEnded' = frame.end
  <2>1. fReqEnded' = (frame.type = "DATA" /\ frame.end)
    BY DEF TakeFrame
  <2>2. CASE frame.type = "DATA"
    BY <1>6, <2>1, <2>2, Zenon
  <2>3. CASE frame.type # "DATA"
    BY <1>6, <2>1, <2>3, Zenon
  <2> QED BY <2>2, <2>3
<1> HIDE DEF n
<1>8. n \in 0..Len(Live)
  BY <1>3, <1>4, <1>6, MapStreamAssumption
<1>9. X \in Seq(PlainCell) /\ Len(X) = n /\ Y \in Seq(PlainCell) /\ X \o Y = Live
  BY <1>3, <1>8, CutApart
<1>10. Live' = Y
  <2>1. n \in 0..(Len(fBuf) - fBufOff)
    BY <1>3, <1>8
  <2>2. SubSeq(fBuf, (fBufOff + n) + 1, Len(fBuf)) = Y
    BY <1>2, <2>1, TailShrinks DEF Live
  <2>3. Live' = SubSeq(fBuf, (fBufOff + n) + 1, Len(fBuf))
    BY <1>4 DEF Live
  <2> QED BY <2>2, <2>3
<1>11. PICK e \in {"no", "yes"} :
         /\ Through(FrameSteps, FrameState, Live, Carried, plain, FrameStart, Boundary(e))
         /\ e = "yes" => unsent = <<>>
  BY DEF StreamSound, FramesWhole
<1>12. PICK m \in FrameState :
         /\ Run(FrameSteps, FrameState, X, FrameStart, m)
         /\ Through(FrameSteps, FrameState, Y, Carried, plain, m, Boundary(e))
  BY <1>3, <1>8, <1>11, FrontOut
<1> DEFINE e1 == IF frame.end THEN "yes" ELSE "no"
<1>13. FrameStart = [left |-> Len(X), at |-> "frame", ended |-> e1]
  BY <1>4, <1>9 DEF FrameStart, n
<1>14. e1 \in {"no", "yes"}
  OBVIOUS
<1> HIDE DEF X, Y, e1
<1>15. X \in Seq(DataCell) /\ m = [left |-> 0, at |-> "frame", ended |-> e1]
  BY <1>9, <1>12, <1>13, <1>14, FrameRead
<1>16. FrameStart' = m
  BY <1>4, <1>7, <1>15 DEF FrameStart, NoFrame, e1
<1>17. Carried' = Carried
  BY <1>4 DEF Carried
<1>18. fAcc' = fAcc \o X
  <2>1. CASE frame.type # "DATA"
    <3>1. X = <<>>
      BY <1>6, <1>9, <2>1
    <3>2. fAcc \o <<>> = fAcc
      BY <1>2, Unit
    <3> QED BY <1>4, <2>1, <3>1, <3>2
  <2> QED BY <1>4, <2>1
<1>19. fAcc \o X \in Seq(DataCell)
  <2>1. X \in Seq(DataCell) /\ fAcc \in Seq(DataCell)
    BY <1>2, <1>15
  <2> QED BY <2>1
<1>20. StreamType'
  <2>1. fBufOff + n \in 0..Len(fBuf)
    BY <1>2, <1>3, <1>8
  <2>2. fReqEnded' \in BOOLEAN
    BY <1>6, <1>7
  <2> QED BY <1>1, <1>4, <1>18, <1>19, <2>1, <2>2 DEF StreamType
<1>21. phase' \in {"reading", "ended", "failed"}
  BY <1>4 DEF TakeFrame, Fails
<1>22. QuietHandshake' /\ FrameBegun'
  BY <1>4, <1>21 DEF QuietHandshake, FrameBegun
<1>23. RecordsWhole'
  BY <1>17 DEF StreamSound, RecordsWhole
<1>24. FramesWhole'
  BY <1>4, <1>10, <1>11, <1>12, <1>16, <1>17 DEF FramesWhole
<1>25. MessagesWhole'
  <2>1. PICK p \in DataState, q \in DataState :
           /\ Run(DataSteps, DataState, fAcc, Between(Len(delivered)), p)
           /\ Through(DataSteps, DataState, Live, Carried, plain, p, q)
           /\ Run(DataSteps, DataState, unsent, q, Between(Len(Lengths)))
    BY DEF StreamSound, MessagesWhole
  <2>2. PICK r \in DataState :
           /\ Run(DataSteps, DataState, X, p, r)
           /\ Through(DataSteps, DataState, Y, Carried, plain, r, q)
    BY <1>3, <1>8, <2>1, FrontOut DEF X, Y
  <2>3. Run(DataSteps, DataState, fAcc \o X, Between(Len(delivered)), r)
    BY <1>2, <1>15, <2>1, <2>2, RunCat
  <2> QED BY <1>4, <1>10, <1>17, <1>18, <2>1, <2>2, <2>3 DEF MessagesWhole
<1>26. ASSUME phase' = "failed" PROVE FailsForCause'
  <2>1. frame.type \in {"GOAWAY", "DATA"} /\ n = 0
    <3>1. CASE frame.type = "GOAWAY"
      BY <1>6, <3>1
    <3>2. CASE frame.type = "DATA" /\ n = 0
      BY <3>2
    <3>3. CASE frame.type # "GOAWAY" /\ ~ (frame.type = "DATA" /\ n = 0)
      <4>1. phase' = phase
        BY <3>3 DEF TakeFrame, n
      <4> QED BY <1>4, <1>26, <4>1
    <3> QED BY <3>1, <3>2, <3>3
  <2>2. fBufOff >= 2 /\ fBuf[fBufOff] = [is |-> "frame2"] /\ fBuf[fBufOff - 1].frame = frame
    BY <1>4, <2>1 DEF StreamSound, FrameBegun, n
  <2>3. fBufOff' = fBufOff /\ fBuf' = fBuf
    BY <1>2, <1>4, <2>1
  <2>4. fBuf # <<>>
    BY <1>2, <2>2
  <2> QED BY <2>1, <2>2, <2>3, <2>4 DEF FailsForCause
<1> QED BY <1>20, <1>21, <1>22, <1>23, <1>24, <1>25, <1>26 DEF StreamSound

\* ReadMessage returns the next message, and nothing of the one after it.
LEMMA ReadMessageStep ==
    ASSUME StreamInv, phase = "reading", ReadMessage
    PROVE  StreamSound' /\ MessagesIntact' /\ delivered' \in Seq(Seq(DataCell))
<1>1. StreamSound /\ StreamType /\ MessagesIntact /\ delivered \in Seq(Seq(DataCell))
  BY DEF StreamInv, StreamSound
<1>2. fAcc \in Seq(DataCell)
  BY <1>1 DEF StreamType
<1> DEFINE m == Len(delivered)
           k == MessageNeed
           X == SubSeq(fAcc, 1, k)
           Y == SubSeq(fAcc, k + 1, Len(fAcc))
<1>3. /\ fAcc # <<>> /\ Len(fAcc) >= k
      /\ delivered' = Append(delivered, X) /\ fAcc' = Y
      /\ UNCHANGED <<unsent, plain, wire, phase, fPending, part, fBuf, fBufOff, frame, fReqEnded>>
  BY DEF ReadMessage, serverVars
<1>4. PICK p \in DataState, q \in DataState :
         /\ Run(DataSteps, DataState, fAcc, Between(m), p)
         /\ Through(DataSteps, DataState, Live, Carried, plain, p, q)
         /\ Run(DataSteps, DataState, unsent, q, Between(Len(Lengths)))
  BY <1>1 DEF StreamSound, MessagesWhole
<1>5. m \in Nat
  BY <1>1
<1>6. m + 1 \in DOMAIN Lengths /\ fAcc[1].of = m + 1
  BY <1>2, <1>3, <1>4, <1>5, MessageRead DEF Between
<1>7. k = 1 + Lengths[m + 1] /\ Lengths[m + 1] \in Nat
  <2>1. Lengths[m + 1] \in Nat
    BY <1>6, MapStreamAssumption
  <2>2. MessageNeed = 1 + Lengths[fAcc[1].of]
    BY <1>3 DEF MessageNeed
  <2> QED BY <1>6, <2>1, <2>2
<1> HIDE DEF m, k
<1>8. k \in 0..Len(fAcc) /\ k >= 1
  BY <1>2, <1>3, <1>7
<1>9. X \in Seq(DataCell) /\ Y \in Seq(DataCell) /\ Len(X) = k
  BY <1>2, <1>8, CutApart
<1>10. PICK r \in DataState : /\ Run(DataSteps, DataState, X, Between(m), r)
                              /\ Run(DataSteps, DataState, Y, r, p)
  BY <1>2, <1>4, <1>8, RunCut
<1> HIDE DEF X, Y
<1>11. X # <<>>
  BY <1>8, <1>9
<1>12. X = Body(m + 1) /\ r = Between(m + 1)
  BY <1>5, <1>7, <1>9, <1>10, <1>11, MessageRead DEF Between
<1>13. delivered' \in Seq(Seq(DataCell)) /\ Len(delivered') = m + 1
  BY <1>1, <1>3, <1>9 DEF m
<1>14. \A i \in 1..m : delivered'[i] = delivered[i]
  BY <1>1, <1>3 DEF m
<1>15. delivered'[m + 1] = X
  BY <1>1, <1>3 DEF m
<1>16. MessagesIntact'
  <2>1. m + 1 <= Len(Lengths)
    BY <1>6, MapStreamAssumption
  <2>2. ASSUME NEW i \in DOMAIN delivered' PROVE delivered'[i] = Body(i)
    <3>1. i \in 1..(m + 1)
      BY <1>13
    <3>2. CASE i = m + 1
      BY <1>12, <1>15, <3>2
    <3>3. CASE i # m + 1
      <4>1. i \in 1..m /\ i \in DOMAIN delivered
        BY <1>1, <1>5, <3>1, <3>3 DEF m
      <4> QED BY <1>1, <1>14, <4>1 DEF MessagesIntact
    <3> QED BY <3>2, <3>3
  <2> QED BY <1>13, <2>1, <2>2 DEF MessagesIntact
<1>17. StreamType' /\ QuietHandshake' /\ FrameBegun'
  <2>1. StreamType'
    BY <1>1, <1>3, <1>9 DEF StreamType
  <2>2. QuietHandshake' /\ FrameBegun'
    BY <1>1, <1>3 DEF StreamSound, QuietHandshake, FrameBegun
  <2> QED BY <2>1, <2>2
<1>18. Carried' = Carried /\ Live' = Live /\ FrameStart' = FrameStart
  BY <1>3 DEF Carried, Live, FrameStart
<1>19. RecordsWhole' /\ FramesWhole'
  BY <1>1, <1>3, <1>18 DEF StreamSound, RecordsWhole, FramesWhole
<1>20. MessagesWhole'
  BY <1>3, <1>4, <1>10, <1>12, <1>13, <1>18 DEF MessagesWhole
<1> QED BY <1>13, <1>16, <1>17, <1>19, <1>20 DEF StreamSound

\* A stream that has ended leaves no part of a message behind.
LEMMA EndsBetweenMessages ==
    ASSUME StreamSound, WantsMessage, fReqEnded, delivered \in Seq(Seq(DataCell))
    PROVE  fAcc = <<>>
<1>1. StreamType
  BY DEF StreamSound
<1>2. fAcc \in Seq(DataCell)
  BY <1>1 DEF StreamType
<1>3. frame = NoFrame
  BY DEF StreamSound, FrameBegun
<1> DEFINE z == Boundary("yes")
<1>4. FrameStart = z /\ z.left = 0 /\ z.ended = "yes"
  BY <1>3 DEF FrameStart, NoFrame, Boundary
<1>5. Live \in Seq(Cell) /\ Carried \in Seq(Cell) /\ plain \in Seq(Cell) /\ unsent \in Seq(Cell)
  BY <1>1, CellsToo
<1>6. PICK e \in {"no", "yes"} :
         /\ Through(FrameSteps, FrameState, Live, Carried, plain, z, Boundary(e))
         /\ e = "yes" => unsent = <<>>
  BY <1>4 DEF StreamSound, FramesWhole
<1> HIDE DEF z
<1>7. PICK a \in FrameState, b \in FrameState :
         /\ Run(FrameSteps, FrameState, Live, z, a)
         /\ Run(FrameSteps, FrameState, Carried, a, b)
         /\ Run(FrameSteps, FrameState, plain, b, Boundary(e))
  BY <1>6 DEF Through
<1>8. (\A i \in 1..Len(Live) : Live[i] \notin DataCell) /\ a.left = 0 /\ a.ended = "yes"
  BY <1>4, <1>5, <1>7, NothingAfterEnd
<1>9. (\A i \in 1..Len(Carried) : Carried[i] \notin DataCell) /\ b.left = 0 /\ b.ended = "yes"
  BY <1>5, <1>7, <1>8, NothingAfterEnd
<1>10. (\A i \in 1..Len(plain) : plain[i] \notin DataCell) /\ Boundary(e).ended = "yes"
  BY <1>5, <1>7, <1>9, NothingAfterEnd
<1>11. unsent = <<>>
  BY <1>6, <1>10 DEF Boundary
<1>12. PICK p \in DataState, q \in DataState :
         /\ Run(DataSteps, DataState, fAcc, Between(Len(delivered)), p)
         /\ Through(DataSteps, DataState, Live, Carried, plain, p, q)
         /\ Run(DataSteps, DataState, <<>>, q, Between(Len(Lengths)))
  BY <1>11 DEF StreamSound, MessagesWhole
<1>13. PICK u \in DataState, v \in DataState :
         /\ Run(DataSteps, DataState, Live, p, u)
         /\ Run(DataSteps, DataState, Carried, u, v)
         /\ Run(DataSteps, DataState, plain, v, q)
  BY <1>12 DEF Through
<1>14. p = u /\ u = v /\ v = q
  BY <1>5, <1>8, <1>9, <1>10, <1>13, DataSkips
<1>15. Between(Len(Lengths)) = q
  BY <1>12, RunEmpty
<1>16. p.left = 0
  BY <1>14, <1>15 DEF Between
<1>17. SUFFICES ASSUME fAcc # <<>> PROVE FALSE
  OBVIOUS
<1> DEFINE m == Len(delivered)
<1>18. m \in Nat
  OBVIOUS
<1>19. m + 1 \in DOMAIN Lengths /\ fAcc[1].of = m + 1 /\ Len(fAcc) >= 1 + Lengths[m + 1]
  BY <1>2, <1>12, <1>16, <1>17, <1>18, MessageRead DEF Between
<1>20. MessageNeed = 1 + Lengths[m + 1] /\ Lengths[m + 1] \in Nat /\ Len(fAcc) \in Nat
  BY <1>2, <1>17, <1>19, MapStreamAssumption DEF MessageNeed
<1>21. Len(fAcc) < MessageNeed
  BY DEF WantsMessage
<1> QED BY <1>19, <1>20, <1>21

MapStreamSpec == MapStreamInit /\ [][MapStreamNext]_mapStreamVars

\* The inductive invariant holds initially.
LEMMA StreamStart == MapStreamInit => StreamInv
<1> SUFFICES ASSUME MapStreamInit PROVE StreamInv
  OBVIOUS
<1>1. StreamSound
  BY SoundStart DEF MapStreamInit, NewConnection
<1>2. MessagesIntact /\ delivered \in Seq(Seq(DataCell))
  <2>1. delivered = <<>> /\ Len(Lengths) \in Nat
    BY MapStreamAssumption DEF MapStreamInit
  <2>2. Len(<<>>) = 0 /\ DOMAIN <<>> = {}
    OBVIOUS
  <2> QED BY <2>1, <2>2 DEF MessagesIntact
<1>3. phase = "handshake"
  BY DEF MapStreamInit
<1> QED BY <1>1, <1>2, <1>3 DEF StreamInv, FailsForCause

\* Steps that leave the phase alone and return no message.
LEMMA SoundStep ==
    ASSUME StreamInv, delivered' = delivered, phase' = phase,
           phase \in {"handshake", "reading"} => StreamSound',
           phase \in {"ended", "failed"} =>
               /\ over => over'
               /\ UNCHANGED <<pausedInside, fBuf, fBufOff>>
    PROVE  StreamInv'
<1>1. MessagesIntact'
  BY DEF StreamInv, MessagesIntact
<1>2. FailsForCause'
  BY DEF StreamInv, FailsForCause
<1> QED BY <1>1, <1>2 DEF StreamInv

\* A reader that gives up: for a cause, if it calls that a failure.
LEMMA StoppedStep ==
    ASSUME StreamInv, delivered' = delivered, phase' \in {"ended", "failed"}, FailsForCause'
    PROVE  StreamInv'
<1>1. MessagesIntact'
  BY DEF StreamInv, MessagesIntact
<1> QED BY <1>1 DEF StreamInv

\* Every step keeps the stream sound.
LEMMA StreamStep ==
    ASSUME MaxBundle <= PushbackSize, StreamInv, [MapStreamNext]_mapStreamVars
    PROVE  StreamInv'
<1> DEFINE runs == phase \in {"handshake", "reading"}
<1>1. /\ runs => StreamSound
      /\ phase \in {"handshake", "reading", "ended", "failed"}
      /\ delivered \in Seq(Seq(DataCell))
  BY DEF StreamInv
<1>2. ASSUME NEW n \in 0..MaxFrame, ServerData(n) PROVE StreamInv'
  <2>1. PICK end \in {FALSE, n = Len(unsent)} :
           plain' = Header("DATA", n, end) \o SubSeq(unsent, 1, n)
    BY <1>2 DEF ServerData
  <2>2. /\ plain = <<>> /\ n <= Len(unsent)
        /\ unsent' = SubSeq(unsent, n + 1, Len(unsent))
        /\ UNCHANGED <<over, wire, clientVars, delivered, pausedInside>>
    BY <1>2 DEF ServerData
  <2>3. end \in BOOLEAN /\ (end => n = Len(unsent))
    OBVIOUS
  <2>4. [type |-> "DATA", len |-> n, end |-> end] \in Frame
    BY <2>3 DEF Frame
  <2>5. ASSUME runs PROVE StreamSound'
    <3>1. Len(unsent) \in Nat
      BY <1>1, <2>5 DEF StreamSound, StreamType
    <3>2. n \in 0..Len(unsent)
      BY <2>2, <3>1, MapStreamAssumption
    <3> QED BY <1>1, <2>1, <2>2, <2>3, <2>4, <2>5, <3>2, FrameSent
  <2> QED BY <2>2, <2>5, SoundStep DEF clientVars
<1>3. ASSUME NEW k \in 1..MaxRecord, ServerRecord(k) PROVE StreamInv'
  <2>1. UNCHANGED <<over, clientVars, delivered, pausedInside>>
    BY <1>3 DEF ServerRecord
  <2>2. runs => StreamSound'
    BY <1>1, <1>3, RecordSent
  <2> QED BY <2>1, <2>2, SoundStep DEF clientVars
<1>4. ASSUME ServerControl PROVE StreamInv'
  <2>1. PICK type \in {"PING", "GOAWAY"} : plain' = Header(type, 0, FALSE)
    BY <1>4 DEF ServerControl
  <2>2. plain = <<>> /\ UNCHANGED <<unsent, over, wire, clientVars, delivered, pausedInside>>
    BY <1>4 DEF ServerControl
  <2>3. ASSUME runs PROVE StreamSound'
    <3>1. unsent \in Seq(DataCell)
      BY <1>1, <2>3 DEF StreamSound, StreamType
    <3>2. 0 \in 0..Len(unsent) /\ 0 + 1 = 1
      BY <3>1
    <3>3. SubSeq(unsent, 1, 0) = <<>> /\ SubSeq(unsent, 1, Len(unsent)) = unsent
      BY <3>1
    <3>4. [type |-> type, len |-> 0, end |-> FALSE] \in Frame
      BY DEF Frame
    <3>5. Header(type, 0, FALSE) \in Seq(PlainCell)
      <4>1. Between(0) \in DataState
        BY DEF Between, DataState
      <4> QED BY <3>4, <4>1, HeaderSkipped
    <3>6. Header(type, 0, FALSE) \o <<>> = Header(type, 0, FALSE)
      BY <3>5, Unit
    <3>7. plain' = Header(type, 0, FALSE) \o SubSeq(unsent, 1, 0)
      BY <2>1, <3>3, <3>6
    <3>8. unsent' = SubSeq(unsent, 0 + 1, Len(unsent))
      BY <2>2, <3>2, <3>3
    <3>9. FALSE \in BOOLEAN
      OBVIOUS
    <3> QED BY <1>1, <2>2, <2>3, <3>2, <3>4, <3>7, <3>8, <3>9, FrameSent
  <2> QED BY <2>2, <2>3, SoundStep DEF clientVars
<1>5. ASSUME ServerCloses PROVE StreamInv'
  <2>1. over' /\ UNCHANGED <<unsent, plain, wire, clientVars, delivered, pausedInside>>
    BY <1>5 DEF ServerCloses
  <2>2. ASSUME runs PROVE StreamSound'
    <3>1. StreamType' /\ QuietHandshake' /\ Carried' = Carried
      BY <1>1, <2>1, <2>2 DEF StreamSound, StreamType, QuietHandshake, Carried, clientVars
    <3> QED BY <1>1, <2>1, <2>2, <3>1, CellsMove DEF clientVars
  <2> QED BY <2>1, <2>2, SoundStep DEF clientVars
<1>6. ASSUME Handshake PROVE StreamInv'
  <2>1. phase = "handshake" /\ phase' = "reading" /\ delivered' = delivered
    BY <1>6 DEF Handshake
  <2>2. StreamSound'
    BY <1>1, <1>6, <2>1, HandshakeStep
  <2>3. MessagesIntact' /\ FailsForCause'
    BY <2>1 DEF StreamInv, MessagesIntact, FailsForCause
  <2> QED BY <1>1, <2>1, <2>2, <2>3 DEF StreamInv
<1>7. ASSUME ReadSome PROVE StreamInv'
  <2>1. phase = "reading" /\ delivered' = delivered
    BY <1>7 DEF ReadSome, WantsRecord, WantsMessage, Reading
  <2>2. StreamSound' /\ phase' = phase
    BY <1>1, <1>7, <2>1, ReadSomeStep
  <2> QED BY <2>1, <2>2, SoundStep
<1>8. ASSUME ReadTimesOut PROVE StreamInv'
  <2>1. phase' = "failed" /\ pausedInside' /\ delivered' = delivered
    BY <1>8 DEF ReadTimesOut, PausesQuietly, Fails
  <2> QED BY <2>1, StoppedStep DEF FailsForCause
<1>9. ASSUME ReadHitsEnd PROVE StreamInv'
  <2>1. phase' = "failed" /\ over' /\ delivered' = delivered
    BY <1>9 DEF ReadHitsEnd, Fails, serverVars
  <2> QED BY <2>1, StoppedStep DEF FailsForCause
<1>10. ASSUME TakeRecord PROVE StreamInv'
  <2>1. phase = "reading" /\ delivered' = delivered
    BY <1>10 DEF TakeRecord, WantsRecord, WantsMessage, Reading
  <2>2. StreamSound' /\ phase' = phase
    BY <1>1, <1>10, <2>1, TakeRecordStep
  <2> QED BY <2>1, <2>2, SoundStep
<1>11. ASSUME TakeHeader PROVE StreamInv'
  <2>1. phase = "reading" /\ phase' = phase /\ delivered' = delivered
    BY <1>11 DEF TakeHeader, FrameReady, WantsMessage, Reading
  <2>2. StreamSound'
    BY <1>1, <1>11, <2>1, TakeHeaderStep
  <2> QED BY <2>1, <2>2, SoundStep
<1>12. ASSUME TakeFrame PROVE StreamInv'
  <2>1. phase = "reading" /\ delivered' = delivered
    BY <1>12 DEF TakeFrame, FrameReady, WantsMessage, Reading
  <2>2. StreamSound' /\ phase' \in {"reading", "ended", "failed"} /\ (phase' = "failed" => FailsForCause')
    BY <1>1, <1>12, <2>1, TakeFrameStep
  <2>3. CASE phase' = "reading"
    BY <2>1, <2>2, <2>3, SoundStep
  <2>4. CASE phase' # "reading"
    <3>1. FailsForCause'
      BY <2>2 DEF FailsForCause
    <3> QED BY <2>1, <2>2, <2>4, <3>1, StoppedStep
  <2> QED BY <2>3, <2>4
<1>13. ASSUME StreamEnds PROVE StreamInv'
  <2>1. phase = "reading" /\ delivered' = delivered /\ WantsMessage /\ fReqEnded
    BY <1>13 DEF StreamEnds, WantsMessage, Reading
  <2>2. fAcc = <<>>
    BY <1>1, <2>1, EndsBetweenMessages
  <2>3. phase' = "ended"
    BY <1>13, <2>2 DEF StreamEnds
  <2> QED BY <2>1, <2>3, StoppedStep DEF FailsForCause
<1>14. ASSUME ReadMessage PROVE StreamInv'
  <2>1. phase = "reading" /\ phase' = "reading"
    BY <1>14 DEF ReadMessage, Reading
  <2>2. StreamSound' /\ MessagesIntact' /\ delivered' \in Seq(Seq(DataCell))
    BY <1>14, <2>1, ReadMessageStep
  <2> QED BY <2>1, <2>2 DEF StreamInv, FailsForCause
<1>15. ASSUME Reestablish PROVE StreamInv'
  <2>1. /\ phase' = "handshake" /\ delivered' = <<>>
        /\ unsent' = AllMessages /\ plain' = <<>> /\ wire' = <<>>
        /\ fPending' = <<>> /\ part' = <<>> /\ fBuf' = <<>> /\ fBufOff' = 0
        /\ frame' = NoFrame /\ fReqEnded' = FALSE /\ fAcc' = <<>>
    BY <1>15 DEF Reestablish, FreshClient
  <2>2. StreamSound'
    <3>1. NewConnection'
      BY <2>1 DEF NewConnection
    <3> QED BY <3>1, SoundStart, PTL
  <2>3. MessagesIntact' /\ delivered' \in Seq(Seq(DataCell))
    <3>1. Len(Lengths) \in Nat
      BY MapStreamAssumption
    <3>2. Len(<<>>) = 0 /\ DOMAIN <<>> = {}
      OBVIOUS
    <3> QED BY <2>1, <3>1, <3>2 DEF MessagesIntact
  <2> QED BY <2>1, <2>2, <2>3 DEF StreamInv, FailsForCause
<1>16. CASE UNCHANGED mapStreamVars
  <2>1. UNCHANGED <<unsent, plain, over, wire, clientVars, delivered, pausedInside>>
    BY <1>16 DEF mapStreamVars, serverVars
  <2>2. ASSUME runs PROVE StreamSound'
    <3>1. StreamType' /\ QuietHandshake' /\ Carried' = Carried
      BY <1>1, <2>1, <2>2 DEF StreamSound, StreamType, QuietHandshake, Carried, clientVars
    <3> QED BY <1>1, <2>1, <2>2, <3>1, CellsMove DEF clientVars
  <2> QED BY <2>1, <2>2, SoundStep DEF clientVars
<1> QED BY <1>2, <1>3, <1>4, <1>5, <1>6, <1>7, <1>8, <1>9, <1>10, <1>11, <1>12, <1>13, <1>14,
           <1>15, <1>16 DEF MapStreamNext

\* However the server cuts its messages into frames and records, and the client's
\* reads cut those, ReadMessage returns them whole, in order and once each: for
\* messages of any number and length, frames and records of any size.  What the
\* server sends behind its Noise response must fit Handshake's body[256], which
\* keeps no more of it.
THEOREM MessagesStayIntact ==
    ASSUME MaxBundle <= PushbackSize
    PROVE  MapStreamSpec => []MessagesIntact
<1>1. StreamInv => MessagesIntact
  BY DEF StreamInv
<1> QED BY StreamStart, StreamStep, <1>1, PTL DEF MapStreamSpec

\* A map stream fails only because the server closed it, sent GOAWAY or ended a
\* message half way, or paused inside a record or a frame: no cut of the bytes
\* alone breaks it (ReadSome, TakeFrame, ReadMessage), again if what is sent
\* behind the Noise response fits.
THEOREM StreamsFailForCause ==
    ASSUME MaxBundle <= PushbackSize
    PROVE  MapStreamSpec => []FailsForCause
<1>1. StreamInv => FailsForCause
  BY DEF StreamInv
<1> QED BY StreamStart, StreamStep, <1>1, PTL DEF MapStreamSpec

=============================================================================
