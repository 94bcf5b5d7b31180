---------------------------- MODULE WrapperProofs ----------------------------
(***************************************************************************)
(* Proofs about module Wrapper, for every number of countries, every host  *)
(* list and every set of skipped pairs.                                    *)
(***************************************************************************)
EXTENDS Wrapper, TLAPS

Cells(S) == [Country -> [Country -> S]]

(* The loops over k and the assignments to a pair of cells keep the shape  *)
(* of the matrix.                                                          *)
LEMMA ChangeType ==
    ASSUME NEW m \in Cells(0 .. 5), NEW c \in Country,
           NEW from \in 0 .. 5, NEW to \in 0 .. 5
    PROVE  Change(m, c, from, to) \in Cells(0 .. 5)
  BY DEF Change, Cells

(* Both cells of a pair. *)
LEMMA SetPairType ==
    ASSUME NEW S, NEW m \in Cells(S), NEW v \in S,
           NEW a \in Country, NEW b \in Country
    PROVE  SetPair(m, a, b, v) \in Cells(S)
  BY DEF SetPair, Cells

(* The pair of an experiment. *)
LEMMA ExperimentPair ==
    ASSUME TypeOK, Experiment
    PROVE  /\ i \in Country /\ j \in Country
           /\ HasHost(i) /\ HasHost(j)
           /\ matrix[i][j] \in {1, 2}
<1>1. i \in Country /\ j \in Country /\ HasHost(i) /\ HasHost(j)
  BY NAssumption DEF Experiment, TypeOK, Country
<1>2. matrix[i][j] \in 0 .. 5
  BY <1>1 DEF TypeOK
<1> QED
  BY <1>1, <1>2 DEF Experiment

-----------------------------------------------------------------------------

(* Every variable keeps its type; in particular no hostname is popped from *)
(* an empty list and the row and the column stay inside the matrix.        *)
THEOREM TypeCorrect == Spec => []TypeOK
<1>1. Init => TypeOK
  BY NAssumption, HostsAssumption, NumberAssumption
     DEF Init, TypeOK, Country, NoHost, NoNumber
<1>2. TypeOK /\ [Next]_vars => TypeOK'
  <2> SUFFICES ASSUME TypeOK, [Next]_vars
               PROVE  TypeOK'
    OBVIOUS
  <2> USE NAssumption, HostsAssumption
  <2>0. /\ matrix \in Cells(0 .. 5)
        /\ number \in Cells(Nat \cup {NoNumber})
        /\ measured \in Cells(Nat \X Nat)
        /\ 0 \in 0 .. 5 /\ 2 \in 0 .. 5 /\ 3 \in 0 .. 5 /\ 4 \in 0 .. 5
    BY DEF TypeOK, Cells
  <2>1. CASE InitStep
    BY <2>1 DEF InitStep, TypeOK, HasHost, history
  <2>2. CASE InitStepFails
    BY <2>2 DEF InitStepFails, TypeOK, HasHost, history
  <2>3. CASE StartLoop
    BY <2>3 DEF StartLoop, TypeOK, HasHost, history
  <2>4. CASE StartRow
    <3>1. i \in Country
      BY <2>4 DEF StartRow, TypeOK, Country
    <3> QED
      BY <2>4, <3>1 DEF StartRow, TypeOK, HasHost, history
  <2>5. CASE ExhaustedRow
    <3>1. i \in Country
      BY <2>5 DEF ExhaustedRow, TypeOK, Country
    <3>2. matrix' \in Cells(0 .. 5)
      BY <2>0, <2>5, <3>1, ChangeType DEF ExhaustedRow
    <3> QED
      BY <2>5, <3>2 DEF ExhaustedRow, TypeOK, HasHost, history, Cells
  <2>6. CASE EndRow
    BY <2>6 DEF EndRow, TypeOK, HasHost, history
  <2>7. CASE ExhaustedColumn
    <3>1. j \in Country
      BY <2>7 DEF ExhaustedColumn, TypeOK, Country
    <3>2. matrix' \in Cells(0 .. 5)
      BY <2>0, <2>7, <3>1, ChangeType DEF ExhaustedColumn
    <3> QED
      BY <2>7, <3>2 DEF ExhaustedColumn, TypeOK, HasHost, history, Cells
  <2>8. CASE SkipPair
    BY <2>8 DEF SkipPair, TypeOK, HasHost, history
  <2>9. CASE Outcome
    <3> SUFFICES ASSUME Outcome, Experiment PROVE TypeOK'
      BY <2>9 DEF Outcome, Success, SmallException, Host1Exception,
                  Host2Exception, FatalException, OtherException
    <3>1. i \in Country /\ j \in Country /\ HasHost(i) /\ HasHost(j)
      BY ExperimentPair
    <3>2. CASE Success
      <4>1. matrix' \in Cells(0 .. 5)
        BY <2>0, <3>1, <3>2, SetPairType DEF Success
      <4>2. number' \in Cells(Nat \cup {NoNumber})
        BY <2>0, <3>1, <3>2, SetPairType DEF Success, TypeOK
      <4>3. measured' \in Cells(Nat \X Nat)
        BY <3>1, <3>2 DEF Success, TypeOK, Cells
      <4>4. j' \in 0 .. N
        BY <3>1, <3>2 DEF Success, Country
      <4>5. pc' = "inner" => i' < N /\ HasHost(i)'
        BY <3>2 DEF Success, TypeOK, HasHost
      <4>6. counter' \in Nat
        BY <3>2 DEF Success, TypeOK
      <4> QED
        BY <3>2, <4>1, <4>2, <4>3, <4>4, <4>5, <4>6
           DEF Success, TypeOK, Cells
    <3>3. CASE SmallException
      <4>1. matrix' \in Cells(0 .. 5)
        BY <2>0, <3>1, <3>3, SetPairType DEF SmallException
      <4>2. j' \in 0 .. N
        BY <3>1, <3>3 DEF SmallException, Country
      <4> QED
        BY <3>1, <3>3, <4>1, <4>2 DEF SmallException, TypeOK, HasHost, Cells
    <3>4. CASE Host1Exception
      <4>1. matrix' \in Cells(0 .. 5)
        BY <2>0, <3>1, <3>4, ChangeType DEF Host1Exception
      <4>2. /\ head' \in [Country -> Nat]
            /\ \A c \in Country : 1 <= head'[c] /\ head'[c] <= Hosts[c] + 1
        BY <3>1, <3>4 DEF Host1Exception, TypeOK, HasHost
      <4> QED
        BY <3>4, <4>1, <4>2 DEF Host1Exception, TypeOK, Cells
    <3>5. CASE Host2Exception
      <4>1. matrix' \in Cells(0 .. 5)
        BY <2>0, <3>1, <3>5, ChangeType DEF Host2Exception
      <4>2. dropped' \subseteq Country
        BY <3>1, <3>5 DEF Host2Exception, TypeOK
      <4>3. i' \in 0 .. N /\ j' \in 0 .. N
        BY <3>1, <3>5 DEF Host2Exception, TypeOK, Country
      <4>4. /\ head' \in [Country -> Nat]
            /\ \A c \in Country : 1 <= head'[c] /\ head'[c] <= Hosts[c] + 1
        BY <3>1, <3>5 DEF Host2Exception, TypeOK, HasHost
      <4> QED
        BY <3>5, <4>1, <4>2, <4>3, <4>4 DEF Host2Exception, TypeOK, Cells
    <3>6. CASE FatalException
      BY <3>6 DEF FatalException, TypeOK, HasHost, history
    <3>7. CASE OtherException
      BY <3>7 DEF OtherException, TypeOK, HasHost, history
    <3> QED
      BY <3>2, <3>3, <3>4, <3>5, <3>6, <3>7 DEF Outcome
  <2>10. CASE EndLoop
    BY <2>10 DEF EndLoop, TypeOK, HasHost, history
  <2>11. CASE CompletionStep
    BY <2>11 DEF CompletionStep, TypeOK, HasHost, history
  <2>12. CASE CompletionStepFails
    BY <2>12 DEF CompletionStepFails, TypeOK, HasHost, history
  <2>13. CASE LogResult
    BY <2>13 DEF LogResult, TypeOK, HasHost, history
  <2>14. CASE UNCHANGED vars
    BY <2>14 DEF vars, TypeOK, HasHost
  <2> QED
    BY <2>1, <2>2, <2>3, <2>4, <2>5, <2>6, <2>7, <2>8, <2>9, <2>10, <2>11,
       <2>12, <2>13, <2>14 DEF Next, Terminated
<1> QED
  BY <1>1, <1>2, PTL DEF Spec

-----------------------------------------------------------------------------
(* The meaning of the matrix.                                              *)

(* What the properties need to be inductive: numbers are those of earlier  *)
(* experiments, the same for both orders of a pair, and hostnames are only *)
(* ever replaced by later ones of the list.                                *)
Recorded ==
    \A a, b \in Country :
        /\ number[a][b] = number[b][a]
        /\ number[a][b] < counter
        /\ matrix[a][b] = 3 => number[a][b] # NoNumber
        /\ measured[a][b][1] <= head[a]
        /\ measured[a][b][2] <= head[b]

MatrixInv ==
    /\ Symmetric
    /\ FreshHostname
    /\ OneHostname
    /\ Legend
    /\ MeasuredNumbersDiffer
    /\ Recorded

(* The steps that leave the matrix, the host lists and the records alone   *)
(* and do not enter a row.                                                 *)
LEMMA QuietStep ==
    ASSUME MatrixInv,
           UNCHANGED <<head, matrix, counter, measured, number>>,
           pc' = "inner" => pc = "inner" /\ UNCHANGED <<i, hostname1>>
    PROVE  MatrixInv'
  BY DEF MatrixInv, Symmetric, FreshHostname, OneHostname, Legend, HasHost,
         MeasuredNumbersDiffer, Recorded

(* Marking a country without a hostname as failed. *)
LEMMA ExhaustedStep ==
    ASSUME TypeOK, MatrixInv, NEW c \in Country, ~HasHost(c),
           matrix' = Change(matrix, c, 1, 0),
           UNCHANGED <<head, counter, measured, number>>,
           pc' = "inner" => pc = "inner" /\ UNCHANGED <<i, hostname1>>
    PROVE  MatrixInv'
<1>1. \A a, b \in Country :
         matrix'[a][b] = IF (a = c \/ b = c) /\ matrix[a][b] = 1
                         THEN 0 ELSE matrix[a][b]
  BY DEF Change
<1>2. Symmetric'
  BY <1>1 DEF MatrixInv, Symmetric
<1>3. OneHostname' /\ Recorded' /\ MeasuredNumbersDiffer' /\ FreshHostname'
  BY <1>1 DEF MatrixInv, OneHostname, Recorded, MeasuredNumbersDiffer,
              FreshHostname
<1>4. Legend'
  BY <1>1 DEF MatrixInv, Legend, HasHost
<1> QED
  BY <1>2, <1>3, <1>4 DEF MatrixInv

(* Replacing the hostname of country c. *)
LEMMA ReplaceStep ==
    ASSUME TypeOK, MatrixInv, NEW c \in Country,
           head' = [head EXCEPT ![c] = @ + 1],
           matrix' = Change(matrix, c, 3, 2),
           UNCHANGED <<counter, measured, number>>,
           pc' # "inner"
    PROVE  MatrixInv'
<1>1. \A a, b \in Country :
         matrix'[a][b] = IF (a = c \/ b = c) /\ matrix[a][b] = 3
                         THEN 2 ELSE matrix[a][b]
  BY DEF Change
<1>2. \A a \in Country : head'[a] = IF a = c THEN head[a] + 1 ELSE head[a]
  BY DEF TypeOK
<1>3. Symmetric'
  BY <1>1 DEF MatrixInv, Symmetric
<1>4. OneHostname'
  BY <1>1, <1>2 DEF MatrixInv, OneHostname
<1>5. Recorded'
  <2> SUFFICES ASSUME NEW a \in Country, NEW b \in Country
               PROVE  /\ measured[a][b][1] <= head'[a]
                      /\ measured[a][b][2] <= head'[b]
    BY <1>1 DEF MatrixInv, Recorded
  <2>1. measured[a][b][1] \in Nat /\ measured[a][b][2] \in Nat
    BY DEF TypeOK
  <2> QED
    BY <1>2, <2>1 DEF MatrixInv, Recorded, TypeOK
<1>6. Legend'
  <2> SUFFICES ASSUME NEW a \in Country, NEW b \in Country
               PROVE  /\ matrix'[a][b] \in {0, 1} => number[a][b] = NoNumber
                      /\ matrix'[a][b] = 0 => ~HasHost(a)' \/ ~HasHost(b)'
                      /\ matrix'[a][b] = 2 =>
                            /\ number[a][b] # NoNumber
                            /\ measured[a][b] # <<head'[a], head'[b]>>
    BY DEF Legend
  <2>1. matrix'[a][b] \in {0, 1} => number[a][b] = NoNumber
    BY <1>1 DEF MatrixInv, Legend
  <2>2. matrix'[a][b] = 0 => ~HasHost(a)' \/ ~HasHost(b)'
    <3>1. head[a] \in Nat /\ head[b] \in Nat /\ Hosts[a] \in Nat /\ Hosts[b] \in Nat
      BY HostsAssumption DEF TypeOK
    <3>2. head'[a] >= head[a] /\ head'[b] >= head[b]
      BY <1>2, <3>1
    <3>3. matrix'[a][b] = 0 => matrix[a][b] = 0
      BY <1>1
    <3>4. head'[a] \in Nat /\ head'[b] \in Nat
      BY <1>2, <3>1
    <3> QED
      BY <3>1, <3>2, <3>3, <3>4 DEF MatrixInv, Legend, HasHost
  <2>3. ASSUME matrix'[a][b] = 2
        PROVE  number[a][b] # NoNumber
    BY <1>1, <2>3 DEF MatrixInv, Legend, Recorded
  <2>4. ASSUME matrix'[a][b] = 2
        PROVE  measured[a][b] # <<head'[a], head'[b]>>
    <3> DEFINE g == measured[a][b][1]
               h == measured[a][b][2]
    <3>1. g \in Nat /\ h \in Nat /\ measured[a][b] = <<g, h>>
      BY DEF TypeOK
    <3>2. g <= head[a] /\ h <= head[b]
      BY DEF MatrixInv, Recorded
    <3>3. CASE a = c \/ b = c
      BY <3>1, <3>2, <3>3, <1>2 DEF TypeOK
    <3>4. CASE a # c /\ b # c
      BY <3>4, <1>1, <1>2, <2>4 DEF MatrixInv, Legend
    <3> QED
      BY <3>3, <3>4
  <2> QED
    BY <2>1, <2>2, <2>3, <2>4
<1> QED
  BY <1>3, <1>4, <1>5, <1>6
     DEF MatrixInv, MeasuredNumbersDiffer, FreshHostname

(* A successful experiment of the pair i, j. *)
LEMMA MeasureStep ==
    ASSUME TypeOK, MatrixInv, Success
    PROVE  MatrixInv'
<1> DEFINE Here(a, b) == (a = i /\ b = j) \/ (a = j /\ b = i)
<1>1. i \in Country /\ j \in Country /\ hostname1 = head[i] /\ counter \in Nat
  BY ExperimentPair DEF Success, Experiment, TypeOK, MatrixInv, FreshHostname
<1>2. \A a, b \in Country :
         matrix'[a][b] = IF Here(a, b) THEN 3 ELSE matrix[a][b]
  BY <1>1 DEF Success, SetPair, TypeOK
<1>3. \A a, b \in Country :
         number'[a][b] = IF Here(a, b) THEN counter ELSE number[a][b]
  BY <1>1 DEF Success, SetPair, TypeOK
<1>4. \A a, b \in Country :
         measured'[a][b] = IF Here(a, b) THEN <<head[a], head[b]>>
                           ELSE measured[a][b]
  BY <1>1 DEF Success, TypeOK
<1>5. counter' = counter + 1 /\ head' = head /\ i' = i /\ hostname1' = hostname1
      /\ pc = "inner"
  BY DEF Success, Experiment
<1>6. \A a, b \in Country : number[a][b] \in Nat \cup {NoNumber}
  BY DEF TypeOK
<1>7. Symmetric' /\ FreshHostname'
  BY <1>1, <1>2, <1>5 DEF MatrixInv, Symmetric, FreshHostname
<1>8. OneHostname'
  <2> SUFFICES ASSUME NEW a \in Country, NEW b \in Country, matrix'[a][b] = 3
               PROVE  measured'[a][b] = <<head[a], head[b]>>
    BY <1>5 DEF OneHostname
  <2>1. CASE Here(a, b)
    BY <2>1, <1>4
  <2>2. CASE ~Here(a, b)
    <3>1. matrix'[a][b] = matrix[a][b] /\ measured'[a][b] = measured[a][b]
      BY <2>2, <1>2, <1>4
    <3> QED
      BY <3>1 DEF MatrixInv, OneHostname
  <2> QED
    BY <2>1, <2>2
<1>9. counter # NoNumber
  BY <1>1 DEF NoNumber
<1>10. Legend'
  <2> SUFFICES ASSUME NEW a \in Country, NEW b \in Country
               PROVE  /\ matrix'[a][b] \in {0, 1} => number'[a][b] = NoNumber
                      /\ matrix'[a][b] = 0 => ~HasHost(a)' \/ ~HasHost(b)'
                      /\ matrix'[a][b] = 2 =>
                            /\ number'[a][b] # NoNumber
                            /\ measured'[a][b] # <<head'[a], head'[b]>>
    BY DEF Legend
  <2>1. CASE Here(a, b)
    <3>1. matrix'[a][b] = 3
      BY <2>1, <1>2
    <3> QED
      BY <3>1
  <2>2. CASE ~Here(a, b)
    <3>1. /\ matrix'[a][b] = matrix[a][b]
          /\ number'[a][b] = number[a][b]
          /\ measured'[a][b] = measured[a][b]
      BY <2>2, <1>2, <1>3, <1>4
    <3> QED
      BY <3>1, <1>5 DEF MatrixInv, Legend, HasHost
  <2> QED
    BY <2>1, <2>2
<1>11. MeasuredNumbersDiffer'
  <2> SUFFICES ASSUME NEW a \in Country, NEW b \in Country,
                      NEW c \in Country, NEW d \in Country,
                      number'[a][b] # NoNumber, number'[a][b] = number'[c][d]
               PROVE  Pair(a, b) = Pair(c, d)
    BY DEF MeasuredNumbersDiffer
  <2>1. CASE Here(a, b) /\ Here(c, d)
    BY <2>1 DEF Pair
  <2>2. CASE ~Here(a, b) /\ ~Here(c, d)
    BY <2>2, <1>3 DEF MatrixInv, MeasuredNumbersDiffer
  <2>3. number[a][b] < counter /\ number[c][d] < counter
    BY DEF MatrixInv, Recorded
  <2>4. number[a][b] # counter /\ number[c][d] # counter
    BY <2>3, <1>1, <1>6
  <2> QED
    BY <2>1, <2>2, <2>4, <1>3
<1>12. Recorded'
  <2> SUFFICES ASSUME NEW a \in Country, NEW b \in Country
               PROVE  /\ number'[a][b] = number'[b][a]
                      /\ number'[a][b] < counter'
                      /\ matrix'[a][b] = 3 => number'[a][b] # NoNumber
                      /\ measured'[a][b][1] <= head'[a]
                      /\ measured'[a][b][2] <= head'[b]
    BY DEF Recorded
  <2>1. number'[a][b] = number'[b][a]
    BY <1>3 DEF MatrixInv, Recorded
  <2>2. number'[a][b] < counter'
    BY <1>1, <1>3, <1>5, <1>6 DEF MatrixInv, Recorded, NoNumber
  <2>3. matrix'[a][b] = 3 => number'[a][b] # NoNumber
    BY <1>2, <1>3, <1>9 DEF MatrixInv, Recorded
  <2>4. measured'[a][b][1] <= head'[a] /\ measured'[a][b][2] <= head'[b]
    <3>1. head[a] \in Nat /\ head[b] \in Nat
      BY DEF TypeOK
    <3>2. CASE Here(a, b)
      <4>1. measured'[a][b] = <<head[a], head[b]>>
        BY <3>2, <1>4
      <4> QED
        BY <3>1, <4>1, <1>5
    <3>3. CASE ~Here(a, b)
      <4>1. measured'[a][b] = measured[a][b]
        BY <3>3, <1>4
      <4> QED
        BY <4>1, <1>5 DEF MatrixInv, Recorded
    <3> QED
      BY <3>2, <3>3
  <2> QED
    BY <2>1, <2>2, <2>3, <2>4
<1> QED
  BY <1>7, <1>8, <1>10, <1>11, <1>12 DEF MatrixInv

(* A small error of the pair i, j. *)
LEMMA SmallStep ==
    ASSUME TypeOK, MatrixInv, SmallException
    PROVE  MatrixInv'
<1>1. i \in Country /\ j \in Country /\ counter \in Nat
  BY ExperimentPair DEF SmallException, TypeOK
<1>2. \A a, b \in Country :
         matrix'[a][b] = IF (a = i /\ b = j) \/ (a = j /\ b = i)
                         THEN 4 ELSE matrix[a][b]
  BY <1>1 DEF SmallException, SetPair, TypeOK
<1>3. counter' = counter + 1
      /\ UNCHANGED <<pc, head, i, hostname1, measured, number>>
  BY DEF SmallException
<1>4. Symmetric' /\ FreshHostname'
  BY <1>2, <1>3 DEF MatrixInv, Symmetric, FreshHostname
<1>5. OneHostname' /\ MeasuredNumbersDiffer'
  BY <1>2, <1>3 DEF MatrixInv, OneHostname, MeasuredNumbersDiffer
<1>6. Legend'
  BY <1>2, <1>3 DEF MatrixInv, Legend, HasHost
<1>7. \A a, b \in Country : number[a][b] < counter'
  <2>1. \A a, b \in Country : number[a][b] \in Int
    BY DEF TypeOK, NoNumber
  <2> QED
    BY <1>1, <1>3, <2>1 DEF MatrixInv, Recorded
<1>8. Recorded'
  BY <1>2, <1>3, <1>7 DEF MatrixInv, Recorded
<1> QED
  BY <1>4, <1>5, <1>6, <1>8 DEF MatrixInv

(* The matrix at the start. *)
LEMMA MatrixInvInit == Init => MatrixInv
<1> SUFFICES ASSUME Init PROVE MatrixInv
  OBVIOUS
<1>1. \A a, b \in Country :
         /\ matrix[a][b] = IF <<a, b>> \in skipped THEN 5 ELSE 1
         /\ number[a][b] = NoNumber
         /\ measured[a][b] = <<NoHost, NoHost>>
         /\ head[a] = 1
  BY DEF Init
<1>2. Symmetric
  <2> SUFFICES ASSUME NEW a \in Country, NEW b \in Country
               PROVE  matrix[a][b] = matrix[b][a]
    BY DEF Symmetric
  <2>1. <<a, b>> \in skipped <=> <<b, a>> \in skipped
    BY SkippedAssumption DEF Init
  <2> QED
    BY <1>1, <2>1
<1>3. FreshHostname
  BY DEF Init, FreshHostname
<1>4. OneHostname /\ Legend /\ MeasuredNumbersDiffer
  <2>1. \A a, b \in Country : matrix[a][b] \in {1, 5}
    BY <1>1
  <2>2. OneHostname
    BY <2>1 DEF OneHostname
  <2>3. Legend
    <3>1. \A a, b \in Country : matrix[a][b] # 0 /\ matrix[a][b] # 2
      BY <2>1
    <3>2. \A a, b \in Country : number[a][b] = NoNumber
      BY <1>1
    <3> QED
      BY <3>1, <3>2 DEF Legend
  <2>4. MeasuredNumbersDiffer
    BY <1>1 DEF MeasuredNumbersDiffer
  <2> QED
    BY <2>2, <2>3, <2>4
<1>5. Recorded
  BY <1>1, NumberAssumption DEF Init, Recorded, NoNumber, NoHost
<1> QED
  BY <1>2, <1>3, <1>4, <1>5 DEF MatrixInv

(* Every step of the wrapper keeps the matrix right. *)
LEMMA MatrixInvNext == TypeOK /\ MatrixInv /\ [Next]_vars => MatrixInv'
<1> SUFFICES ASSUME TypeOK, MatrixInv, [Next]_vars PROVE MatrixInv'
  OBVIOUS
<1>1. CASE InitStep \/ InitStepFails \/ StartLoop \/ EndLoop \/ CompletionStep
           \/ CompletionStepFails \/ LogResult
  BY <1>1, QuietStep
     DEF InitStep, InitStepFails, StartLoop, EndLoop, CompletionStep,
         CompletionStepFails, LogResult, history
<1>2. CASE EndRow \/ SkipPair \/ FatalException \/ OtherException
  BY <1>2, QuietStep
     DEF EndRow, SkipPair, FatalException, OtherException, history
<1>3. CASE StartRow
  BY <1>3 DEF StartRow, history, MatrixInv, Symmetric, FreshHostname,
              OneHostname, Legend, HasHost, MeasuredNumbersDiffer, Recorded
<1>4. CASE ExhaustedRow
  <2>1. i \in Country
    BY <1>4, NAssumption DEF ExhaustedRow, TypeOK, Country
  <2> QED
    BY <1>4, <2>1, ExhaustedStep DEF ExhaustedRow, history
<1>5. CASE ExhaustedColumn
  <2>1. j \in Country
    BY <1>5, NAssumption DEF ExhaustedColumn, TypeOK, Country
  <2> QED
    BY <1>5, <2>1, ExhaustedStep DEF ExhaustedColumn, history
<1>6. CASE Success
  BY <1>6, MeasureStep
<1>7. CASE SmallException
  BY <1>7, SmallStep
<1>8. CASE Host1Exception
  <2>1. i \in Country
    BY <1>8, ExperimentPair DEF Host1Exception
  <2> QED
    BY <1>8, <2>1, ReplaceStep DEF Host1Exception
<1>9. CASE Host2Exception
  <2>1. j \in Country
    BY <1>9, ExperimentPair DEF Host2Exception
  <2> QED
    BY <1>9, <2>1, ReplaceStep DEF Host2Exception
<1>10. CASE UNCHANGED vars
  BY <1>10, QuietStep DEF vars
<1> QED
  BY <1>1, <1>2, <1>3, <1>4, <1>5, <1>6, <1>7, <1>8, <1>9, <1>10
     DEF Next, Outcome, Terminated

(* A pair is marked as measured only with the hostnames both countries use *)
(* now, whatever hostnames failed in between.                              *)
THEOREM MeasuredWithOneHostname == Spec => []OneHostname
<1>1. Spec => []MatrixInv
  BY MatrixInvInit, MatrixInvNext, TypeCorrect, PTL DEF Spec
<1>2. MatrixInv => OneHostname
  BY DEF MatrixInv
<1> QED
  BY <1>1, <1>2, PTL

(* Every value of the matrix means what its legend says, both cells of a   *)
(* pair agree, experiments start with the hostname in use, and measured    *)
(* pairs have numbers of their own.                                        *)
LEMMA MatrixMeaning ==
    Spec => [](Symmetric /\ Legend /\ FreshHostname /\ MeasuredNumbersDiffer)
<1>1. Spec => []MatrixInv
  BY MatrixInvInit, MatrixInvNext, TypeCorrect, PTL DEF Spec
<1>2. MatrixInv => Symmetric /\ Legend /\ FreshHostname /\ MeasuredNumbersDiffer
  BY DEF MatrixInv
<1> QED
  BY <1>1, <1>2, PTL

-----------------------------------------------------------------------------
(* The steps that touch neither the matrix nor the host lists.             *)

Quiet ==
    \/ InitStep \/ InitStepFails \/ StartLoop \/ EndLoop
    \/ CompletionStep \/ CompletionStepFails \/ LogResult
    \/ StartRow \/ EndRow \/ SkipPair
    \/ FatalException \/ OtherException
    \/ UNCHANGED vars

(* Steps that record nothing. *)
LEMMA QuietKeeps ==
    ASSUME Quiet
    PROVE  head' = head /\ matrix' = matrix /\ number' = number /\ dropped' = dropped
<1>1. CASE InitStep \/ InitStepFails \/ StartLoop \/ EndLoop
  BY <1>1 DEF InitStep, InitStepFails, StartLoop, EndLoop, history
<1>2. CASE CompletionStep \/ CompletionStepFails \/ LogResult
  BY <1>2 DEF CompletionStep, CompletionStepFails, LogResult, history
<1>3. CASE StartRow \/ EndRow \/ SkipPair
  BY <1>3 DEF StartRow, EndRow, SkipPair, history
<1>4. CASE FatalException \/ OtherException
  BY <1>4 DEF FatalException, OtherException
<1>5. CASE UNCHANGED vars
  BY <1>5 DEF vars
<1> QED
  BY <1>1, <1>2, <1>3, <1>4, <1>5 DEF Quiet

(* Every step is one of these. *)
LEMMA KindsOfSteps ==
    ASSUME [Next]_vars
    PROVE  \/ Quiet \/ ExhaustedRow \/ ExhaustedColumn \/ Success
           \/ SmallException \/ Host1Exception \/ Host2Exception
  BY DEF Next, Outcome, Terminated, Quiet

-----------------------------------------------------------------------------
(* The loop leaves no pair behind.                                         *)

Done(a, b) == Settled(a, b) \/ a \in dropped \/ b \in dropped

Marked(a) ==
    ~HasHost(a) /\ a \notin dropped => \A b \in Country : matrix[a][b] # 1

(* The pairs of the countries before row i are done, and in row i those of *)
(* the columns before j, whatever rows the loop went back to.              *)
ScanInv ==
    /\ pc = "initialization" => i = 0
    /\ pc \in {"outer", "inner"} =>
          \A a \in Country : a < i =>
              Marked(a) /\ \A b \in Country : b < i => Done(a, b)
    /\ pc = "inner" => \A b \in Country : b < j => Done(i, b)
    /\ pc = "completion" => \A a \in Country : Marked(a) /\ \A b \in Country : Done(a, b)

(* Which of the two countries is named first does not matter. *)
LEMMA DoneSymmetric ==
    ASSUME Symmetric, NEW a \in Country, NEW b \in Country, Done(a, b)
    PROVE  Done(b, a)
  BY DEF Symmetric, Done, Settled

(* A pair stays done when neither its hostnames nor its state change. *)
LEMMA DoneStays ==
    ASSUME NEW a \in Country, NEW b \in Country, Done(a, b),
           head'[a] = head[a], head'[b] = head[b],
           matrix'[a][b] = matrix[a][b] \/ matrix'[a][b] \notin {1, 2},
           dropped \subseteq dropped'
    PROVE  Done(a, b)'
  BY DEF Done, Settled, HasHost

(* A country stays marked when its hostname does not change and none of    *)
(* its pairs becomes unused.                                               *)
LEMMA MarkedStays ==
    ASSUME NEW a \in Country, Marked(a), head'[a] = head[a],
           \A b \in Country : matrix'[a][b] = 1 => matrix[a][b] = 1,
           dropped \subseteq dropped'
    PROVE  Marked(a)'
  BY DEF Marked, HasHost

(* Every step keeps what the scan of the pairs has established. *)
LEMMA ScanInvNext ==
    TypeOK /\ Symmetric /\ ScanInv /\ [Next]_vars => ScanInv'
<1> SUFFICES ASSUME TypeOK, Symmetric, ScanInv, [Next]_vars PROVE ScanInv'
  OBVIOUS
<1> USE NAssumption
<1>0. /\ i \in Int /\ j \in Int
      /\ \A a \in Country : a \in Int /\ 0 <= a /\ a < N
      /\ \A x \in Int : 0 <= x /\ x < N => x \in Country
  BY DEF TypeOK, Country
<1>1. CASE InitStep \/ InitStepFails \/ StartLoop \/ CompletionStep
           \/ CompletionStepFails \/ LogResult \/ FatalException \/ OtherException
           \/ UNCHANGED vars
  <2>1. /\ UNCHANGED <<head, matrix, dropped, i, j>>
        /\ pc' = pc \/ pc' = "exited" \/ (pc = "initialization" /\ pc' = "outer")
    BY <1>1 DEF InitStep, InitStepFails, StartLoop, CompletionStep,
                CompletionStepFails, LogResult, FatalException, OtherException,
                history, vars
  <2> QED
    BY <2>1, <1>0 DEF ScanInv, Done, Marked, Settled, HasHost
<1>2. CASE EndLoop
  <2>1. UNCHANGED <<head, matrix, dropped>> /\ pc = "outer" /\ i >= N
        /\ pc' = "completion"
    BY <1>2 DEF EndLoop, history
  <2>2. \A a \in Country : a < i
    BY <1>0, <2>1
  <2> QED
    BY <2>1, <2>2 DEF ScanInv, Done, Marked, Settled, HasHost
<1>3. CASE StartRow
  <2>1. UNCHANGED <<head, matrix, dropped, i>> /\ pc = "outer" /\ j' = 0
        /\ pc' = "inner"
    BY <1>3 DEF StartRow, history
  <2> QED
    BY <2>1, <1>0 DEF ScanInv, Done, Marked, Settled, HasHost
<1>4. CASE ExhaustedRow
  <2>1. UNCHANGED <<pc, head, dropped>> /\ pc = "outer" /\ i' = i + 1
        /\ ~HasHost(i) /\ i \in Country
    BY <1>4, <1>0 DEF ExhaustedRow, history, TypeOK
  <2>2. \A a, b \in Country :
           matrix'[a][b] = IF (a = i \/ b = i) /\ matrix[a][b] = 1
                           THEN 0 ELSE matrix[a][b]
    BY <1>4 DEF ExhaustedRow, Change
  <2>3. \A a \in Country : a < i' => a = i \/ a < i
    BY <2>1, <1>0
  <2> PICK r \in Country : r = i
    BY <2>1
  <2>4. Marked(r)' /\ \A b \in Country : Done(r, b)' /\ Done(b, r)'
    BY <2>1, <2>2 DEF Marked, Done, Settled, HasHost
  <2>5. ASSUME NEW a \in Country, a < i, NEW b \in Country, b < i
        PROVE  Done(a, b)'
    BY <2>1, <2>2, <2>5, DoneStays DEF ScanInv
  <2>6. ASSUME NEW a \in Country, a < i
        PROVE  Marked(a)'
    BY <2>1, <2>2, <2>6, MarkedStays DEF ScanInv
  <2> QED
    BY <2>1, <2>3, <2>4, <2>5, <2>6 DEF ScanInv
<1>5. CASE EndRow
  <2>1. UNCHANGED <<head, matrix, dropped>> /\ pc = "inner" /\ pc' = "outer"
        /\ i' = i + 1 /\ j >= N
    BY <1>5 DEF EndRow, history
  <2>2. i \in Country /\ HasHost(i) /\ \A b \in Country : b < j
    BY <2>1, <1>0 DEF TypeOK
  <2>3. \A b \in Country : Done(i, b) /\ Done(b, i)
    BY <2>1, <2>2, DoneSymmetric DEF ScanInv
  <2>4. Marked(i)
    BY <2>2 DEF Marked
  <2>5. \A a \in Country : a < i' => a = i \/ a < i
    BY <2>1, <1>0
  <2>6. \A a \in Country : a < i' =>
            Marked(a) /\ \A b \in Country : b < i' => Done(a, b)
    BY <2>1, <2>3, <2>4, <2>5 DEF ScanInv
  <2> QED
    BY <2>1, <2>6 DEF ScanInv, Done, Marked, Settled, HasHost
<1>6. CASE ExhaustedColumn \/ SkipPair \/ Success \/ SmallException
  <2>1. UNCHANGED <<pc, head, dropped, i>> /\ pc = "inner" /\ j' = j + 1
        /\ i \in Country /\ j \in Country
    BY <1>6, <1>0 DEF ExhaustedColumn, SkipPair, Success, SmallException,
                      Experiment, history, TypeOK
  <2>2. /\ \A a, b \in Country : \/ matrix'[a][b] = matrix[a][b]
                                  \/ matrix'[a][b] \notin {1, 2}
        /\ \A a, b \in Country : a = i /\ b = j => Done(a, b)'
    <3>1. CASE ExhaustedColumn
      BY <3>1, <2>1 DEF ExhaustedColumn, Change, Done, Settled, HasHost
    <3>2. CASE SkipPair
      BY <3>2, <2>1 DEF SkipPair, Done, Settled, TypeOK
    <3>3. CASE Success
      <4>1. \A a, b \in Country :
               matrix'[a][b] = IF (a = i /\ b = j) \/ (a = j /\ b = i)
                               THEN 3 ELSE matrix[a][b]
        BY <3>3, <2>1 DEF Success, SetPair, TypeOK
      <4> QED
        BY <4>1 DEF Done, Settled
    <3>4. CASE SmallException
      <4>1. \A a, b \in Country :
               matrix'[a][b] = IF (a = i /\ b = j) \/ (a = j /\ b = i)
                               THEN 4 ELSE matrix[a][b]
        BY <3>4, <2>1 DEF SmallException, SetPair, TypeOK
      <4> QED
        BY <4>1 DEF Done, Settled
    <3> QED
      BY <1>6, <3>1, <3>2, <3>3, <3>4
  <2>3. \A b \in Country : b < j' => b = j \/ b < j
    BY <2>1, <1>0
  <2>4. ASSUME NEW a \in Country, NEW b \in Country, Done(a, b)
        PROVE  Done(a, b)'
    BY <2>1, <2>2, <2>4, DoneStays
  <2>5. ASSUME NEW a \in Country, Marked(a)
        PROVE  Marked(a)'
    BY <2>1, <2>2, <2>5, MarkedStays
  <2> PICK r \in Country : r = i
    BY <2>1
  <2>6. \A b \in Country : b < j' => Done(r, b)'
    BY <2>1, <2>2, <2>3, <2>4 DEF ScanInv
  <2>7. \A b \in Country : b < j' => Done(i, b)'
    BY <2>1, <2>6
  <2> QED
    BY <2>1, <2>4, <2>5, <2>7 DEF ScanInv
<1>7. CASE Host1Exception
  <2>1. UNCHANGED <<dropped, i>> /\ pc = "inner" /\ pc' = "outer"
        /\ i \in Country
    BY <1>7, <1>0 DEF Host1Exception, Experiment, TypeOK
  <2>2. \A a, b \in Country : a # i /\ b # i => matrix'[a][b] = matrix[a][b]
    BY <1>7 DEF Host1Exception, Change
  <2>3. \A a, b \in Country : matrix'[a][b] = 1 => matrix[a][b] = 1
    BY <1>7 DEF Host1Exception, Change
  <2>4. \A a \in Country : a # i => head'[a] = head[a]
    BY <1>7 DEF Host1Exception, TypeOK
  <2>5. \A a \in Country : a < i => a # i
    BY <1>0
  <2>6. ASSUME NEW a \in Country, a < i, NEW b \in Country, b < i
        PROVE  Done(a, b)'
    BY <2>1, <2>2, <2>4, <2>5, <2>6, DoneStays DEF ScanInv
  <2>7. ASSUME NEW a \in Country, a < i
        PROVE  Marked(a)'
    BY <2>1, <2>3, <2>4, <2>5, <2>7, MarkedStays DEF ScanInv
  <2> QED
    BY <2>1, <2>6, <2>7 DEF ScanInv
<1>8. CASE Host2Exception
  <2>1. /\ pc = "inner" /\ pc' = "outer" /\ i \in Country /\ j \in Country
        /\ HasHost(i)
        /\ dropped' = IF i = j THEN dropped \cup {i} ELSE dropped
        /\ i' = IF i > j THEN j ELSE i + 1
    BY <1>8, <1>0 DEF Host2Exception, Experiment, TypeOK
  <2>2. \A a, b \in Country : a # j /\ b # j => matrix'[a][b] = matrix[a][b]
    BY <1>8 DEF Host2Exception, Change
  <2>3. \A a, b \in Country : matrix'[a][b] = 1 => matrix[a][b] = 1
    BY <1>8 DEF Host2Exception, Change
  <2>4. \A a \in Country : a # j => head'[a] = head[a]
    BY <1>8 DEF Host2Exception, TypeOK
  <2>5. dropped \subseteq dropped'
    BY <2>1
  <2>6. ASSUME NEW a \in Country, a # j, NEW b \in Country, b # j, Done(a, b)
        PROVE  Done(a, b)'
    BY <2>2, <2>4, <2>5, <2>6, DoneStays
  <2>7. ASSUME NEW a \in Country, a # j, Marked(a)
        PROVE  Marked(a)'
    BY <2>3, <2>4, <2>5, <2>7, MarkedStays
  <2>8. CASE i > j
    <3>1. \A a \in Country : a < i' => a # j /\ a < i
      BY <2>1, <2>8, <1>0
    <3> QED
      BY <2>1, <2>6, <2>7, <3>1 DEF ScanInv
  <2>9. CASE i = j
    <3>1. \A a \in Country : a < i' => a = i \/ (a # j /\ a < i)
      BY <2>1, <2>9, <1>0
    <3> PICK r \in Country : r = i
      BY <2>1
    <3>2. Marked(r)' /\ \A b \in Country : Done(r, b)' /\ Done(b, r)'
      BY <2>1, <2>9 DEF Marked, Done
    <3> QED
      BY <2>1, <2>6, <2>7, <3>1, <3>2 DEF ScanInv
  <2>10. CASE i < j
    <3>1. \A a \in Country : a < i' => a # j /\ a < j /\ (a = i \/ a < i)
      BY <2>1, <2>10, <1>0
    <3>2. Marked(i)
      BY <2>1 DEF Marked
    <3>3. \A b \in Country : b < j => Done(i, b) /\ Done(b, i)
      BY <2>1, DoneSymmetric DEF ScanInv
    <3> QED
      BY <2>1, <2>6, <2>7, <3>1, <3>2, <3>3 DEF ScanInv
  <2> QED
    BY <2>8, <2>9, <2>10, <1>0
<1> QED
  BY <1>1, <1>2, <1>3, <1>4, <1>5, <1>6, <1>7, <1>8 DEF Next, Outcome, Terminated

(* When the loop ends, every pair that still has hostnames was measured    *)
(* with them or failed, except those of a country dropped by the pair with *)
(* itself.                                                                 *)
LEMMA NoPairLeftBehind == Spec => []AllPairsTried
<1>1. Init => ScanInv
  BY DEF Init, ScanInv
<1>2. MatrixInv => Symmetric
  BY DEF MatrixInv
<1>3. Spec => []ScanInv
  BY <1>1, <1>2, ScanInvNext, MatrixInvInit, MatrixInvNext, TypeCorrect, PTL
     DEF Spec
<1>4. ScanInv => AllPairsTried
  BY DEF ScanInv, AllPairsTried, Done
<1> QED
  BY <1>3, <1>4, PTL

(* When the loop ends, no pair of a country without hostnames is reported  *)
(* as never used, except for dropped countries.                            *)
LEMMA FailedCountriesAreMarked == Spec => []FailedCountriesMarked
<1>1. Init => ScanInv
  BY DEF Init, ScanInv
<1>2. MatrixInv => Symmetric
  BY DEF MatrixInv
<1>3. Spec => []ScanInv
  BY <1>1, <1>2, ScanInvNext, MatrixInvInit, MatrixInvNext, TypeCorrect, PTL
     DEF Spec
<1>4. ScanInv => FailedCountriesMarked
  BY DEF ScanInv, FailedCountriesMarked, Marked
<1> QED
  BY <1>3, <1>4, PTL

(* A finished pair is reopened only by the step that replaces one of its   *)
(* hostnames.                                                              *)
THEOREM FinishedPairsStay == Spec => FinishedStays
<1> DEFINE Kept(a, b) ==
      /\ matrix[a][b] \in {0, 4, 5} => matrix'[a][b] = matrix[a][b]
      /\ matrix[a][b] = 3 =>
            IF head'[a] = head[a] /\ head'[b] = head[b]
            THEN matrix'[a][b] = 3
            ELSE matrix'[a][b] = 2
<1>1. TypeOK /\ MatrixInv /\ [Next]_vars => [\A a, b \in Country : Kept(a, b)]_vars
  <2> SUFFICES ASSUME TypeOK, Symmetric, Next, NEW a \in Country, NEW b \in Country
               PROVE  Kept(a, b)
    BY DEF vars, MatrixInv
  <2> USE NAssumption
  <2>1. CASE Quiet
    BY <2>1, QuietKeeps
  <2>2. CASE ExhaustedRow \/ ExhaustedColumn
    <3>1. head' = head
      BY <2>2 DEF ExhaustedRow, ExhaustedColumn
    <3>2. matrix'[a][b] = matrix[a][b] \/ matrix[a][b] = 1
      BY <2>2 DEF ExhaustedRow, ExhaustedColumn, Change
    <3> QED
      BY <3>1, <3>2
  <2>3. CASE Success \/ SmallException
    <3>1. head' = head /\ i \in Country /\ j \in Country
      BY <2>3, ExperimentPair DEF Success, SmallException
    <3>2. matrix[i][j] \in {1, 2} /\ matrix[j][i] = matrix[i][j]
      BY <2>3, ExperimentPair DEF Success, SmallException, Symmetric
    <3>3. matrix'[a][b] = matrix[a][b] \/ (a = i /\ b = j) \/ (a = j /\ b = i)
      BY <2>3, <3>1 DEF Success, SmallException, SetPair, TypeOK
    <3> QED
      BY <3>1, <3>2, <3>3
  <2>4. ASSUME NEW c \in Country, head' = [head EXCEPT ![c] = @ + 1],
               matrix' = Change(matrix, c, 3, 2)
        PROVE  Kept(a, b)
    <3>1. \A x \in Country : head'[x] = head[x] <=> x # c
      BY <2>4 DEF TypeOK
    <3>2. matrix'[a][b] = IF (a = c \/ b = c) /\ matrix[a][b] = 3
                          THEN 2 ELSE matrix[a][b]
      BY <2>4 DEF Change
    <3> QED
      BY <3>1, <3>2
  <2>5. CASE Host1Exception
    <3>1. i \in Country
      BY <2>5, ExperimentPair DEF Host1Exception
    <3> QED
      BY <2>4, <2>5, <3>1 DEF Host1Exception
  <2>6. CASE Host2Exception
    <3>1. j \in Country
      BY <2>6, ExperimentPair DEF Host2Exception
    <3> QED
      BY <2>4, <2>6, <3>1 DEF Host2Exception
  <2> HIDE DEF Kept
  <2> QED
    BY <2>1, <2>2, <2>3, <2>5, <2>6, KindsOfSteps
<1> QED
  BY <1>1, TypeCorrect, MatrixInvInit, MatrixInvNext, PTL DEF Spec, FinishedStays

-----------------------------------------------------------------------------
(* wrapper_delta.py.                                                       *)

(* The pairs that wrapper_delta.py leaves out do not change. *)
LEMMA SkippedKept == [Next]_vars => skipped' = skipped
  BY DEF Next, vars, history, InitStep, InitStepFails, StartLoop, StartRow, ExhaustedRow,
         EndRow, ExhaustedColumn, SkipPair, Outcome, Success, SmallException, Host1Exception,
         Host2Exception, FatalException, OtherException, EndLoop, CompletionStep,
         CompletionStepFails, LogResult, Terminated

(* No step measures one of them. *)
LEMMA SkippedNext ==
    TypeOK /\ Symmetric /\ NoPairInsideList /\ [Next]_vars => NoPairInsideList'
<1> SUFFICES ASSUME TypeOK, Symmetric, NoPairInsideList, [Next]_vars,
                    NEW a \in Country, NEW b \in Country, <<a, b>> \in skipped
             PROVE  matrix'[a][b] = 5 /\ number'[a][b] = NoNumber
  BY SkippedKept DEF NoPairInsideList
<1> USE NAssumption
<1>1. matrix[a][b] = 5 /\ number[a][b] = NoNumber /\ matrix[b][a] = 5
  BY DEF NoPairInsideList, Symmetric
<1>2. CASE Quiet
  BY <1>1, <1>2, QuietKeeps
<1>3. CASE ExhaustedRow \/ ExhaustedColumn \/ Host1Exception \/ Host2Exception
  <2>1. number' = number
    BY <1>3 DEF ExhaustedRow, ExhaustedColumn, Host1Exception, Host2Exception, history
  <2>2. \/ matrix' = Change(matrix, i, 1, 0) \/ matrix' = Change(matrix, j, 1, 0)
        \/ matrix' = Change(matrix, i, 3, 2) \/ matrix' = Change(matrix, j, 3, 2)
    BY <1>3 DEF ExhaustedRow, ExhaustedColumn, Host1Exception, Host2Exception
  <2>3. ASSUME NEW c, NEW from \in {1, 3}, NEW to,
               matrix' = Change(matrix, c, from, to)
        PROVE  matrix'[a][b] = 5
    BY <1>1, <2>3 DEF Change
  <2> QED
    BY <1>1, <2>1, <2>2, <2>3
<1>4. CASE Success \/ SmallException
  <2>1. i \in Country /\ j \in Country /\ matrix[i][j] # 5
    BY <1>4, ExperimentPair DEF Success, SmallException
  <2>2. ~(a = i /\ b = j) /\ ~(a = j /\ b = i)
    BY <1>1, <2>1
  <2>3. matrix'[a][b] = matrix[a][b] /\ number'[a][b] = number[a][b]
    BY <1>4, <2>1, <2>2 DEF Success, SmallException, SetPair, TypeOK
  <2> QED
    BY <1>1, <2>3
<1> QED
  BY <1>2, <1>3, <1>4, KindsOfSteps

(* Pairs of one input list are never measured, whichever hostnames fail.   *)
THEOREM ListsStayApart == Spec => []NoPairInsideList
<1>1. Init => NoPairInsideList
  BY DEF Init, NoPairInsideList
<1>2. MatrixInv => Symmetric
  BY DEF MatrixInv
<1> QED
  BY <1>1, <1>2, SkippedNext, MatrixInvInit, MatrixInvNext, TypeCorrect, PTL
     DEF Spec

(* When the pair of every country with itself is skipped, as it is in      *)
(* wrapper_delta.py, the loop leaves no pair behind without exception.     *)
THEOREM DeltaTriesAllPairs == Spec => []DeltaTriesAll
<1> DEFINE SelfSkipped == \A c \in Country : <<c, c>> \in skipped
           NoneDropped == SelfSkipped => dropped = {}
<1>1. Init => NoneDropped
  BY DEF Init
<1>2. TypeOK /\ NoPairInsideList /\ NoneDropped /\ [Next]_vars => NoneDropped'
  <2> SUFFICES ASSUME TypeOK, NoPairInsideList, dropped = {}, [Next]_vars, SelfSkipped
               PROVE  dropped' = {}
    BY SkippedKept
  <2>1. CASE Host2Exception
    <3>0. Experiment
      BY <2>1 DEF Host2Exception
    <3>1. i \in Country /\ matrix[i][j] # 5
      BY <3>0, ExperimentPair
    <3>2. i # j
      BY <3>1 DEF NoPairInsideList
    <3> QED
      BY <2>1, <3>2 DEF Host2Exception
  <2>2. CASE Quiet
    BY <2>2, QuietKeeps
  <2>3. CASE ExhaustedRow \/ ExhaustedColumn \/ Success \/ SmallException
             \/ Host1Exception
    BY <2>3 DEF ExhaustedRow, ExhaustedColumn, Success, SmallException,
                Host1Exception, history
  <2> QED
    BY <2>1, <2>2, <2>3, KindsOfSteps
<1>3. AllPairsTried /\ NoneDropped => DeltaTriesAll
  BY DEF AllPairsTried, AllPossiblePairsTried, DeltaTriesAll
<1> QED
  BY <1>1, <1>2, <1>3, NoPairLeftBehind, ListsStayApart, TypeCorrect, PTL DEF Spec

-----------------------------------------------------------------------------

(* At any time the matrix has the meaning that the comment in the code     *)
(* gives it, and pairs of one list are never measured.                     *)
THEOREM MatrixStaysRight == Spec => []MatrixRight
  BY MatrixMeaning, ListsStayApart, PTL DEF MatrixRight

(* When the loop ends it has left no pair behind but those of an abandoned *)
(* row, and has marked the countries that failed.                          *)
THEOREM LoopEndsComplete == Spec => []EndsComplete
  BY NoPairLeftBehind, DeltaTriesAllPairs, FailedCountriesAreMarked, PTL DEF EndsComplete

=============================================================================
