------------------------------- MODULE Wrapper -------------------------------
(***************************************************************************)
(* The scheduling loop of wrapper/wrapper.py and wrapper/wrapper_delta.py: *)
(* execute() walks over all pairs of countries, asks the controller for    *)
(* one experiment per pair, replaces the hostname of a country that did    *)
(* not work and keeps the state of every pair in a matrix.                 *)
(*                                                                         *)
(* The two programs share the loop line by line.  They differ in how the   *)
(* country list is read (module CountryList) and in the matrix and the     *)
(* counter they start with: skipped is the set of pairs that start as      *)
(* finished, and FirstNumber the counter.  The country codes, coordinates  *)
(* and log lines are left out.  A hostname of country c is its position    *)
(* 1..Hosts[c] in the input, and a list from which the head is popped is   *)
(* the position of its head.                                               *)
(***************************************************************************)
EXTENDS Integers

CONSTANTS
    N,               \* dif_countries
    Hosts,           \* Hosts[c]: hostnames the input lists for country c
    SkippedSets,     \* the sets of pairs that may be set to 5 before the
                     \* loop: none in wrapper.py, those inside a list in
                     \* wrapper_delta.py
    FirstNumber,     \* FirstNumber[{}] is 0, 46 in wrapper_delta.py
    InitSteps,       \* config['initialization']['steps']
    CompletionSteps  \* config['completion']['steps']

Country == 0 .. N - 1

ASSUME NAssumption == N \in Nat
ASSUME HostsAssumption == Hosts \in [Country -> Nat \ {0}]
ASSUME SkippedAssumption ==
    \A S \in SkippedSets : \A a, b \in Country : <<a, b>> \in S => <<b, a>> \in S
ASSUME NumberAssumption == FirstNumber \in [SkippedSets -> Nat]
ASSUME StepsAssumption == InitSteps \in Nat /\ CompletionSteps \in Nat

VARIABLES
    pc,         \* where execute() is
    code,       \* exit status of the process once pc = "exited"
    step,       \* the loop variable of the initialization and completion steps
    head,       \* head[c]: the hostname country_list[c][1] names now
    matrix,     \* matrix[i][j], 0..5
    counter,
    i,
    j,
    skipped,    \* the pairs set to 5 before the loop
    hostname1,  \* read at the start of row i, used by all experiments of it
    \* The variables below record history. No action reads them.
    measured,   \* measured[a][b]: the hostnames of the last success of a, b
    number,     \* number[a][b]: the counter of the last success of a, b
    dropped     \* countries whose row was left by Host2Exception with i = j

vars == <<pc, code, step, head, matrix, counter, i, j, hostname1,
          measured, number, dropped, skipped>>

history == <<measured, number, dropped, skipped>>

NoHost == 0
NoNumber == -1

-----------------------------------------------------------------------------

(* len(country_list[c]) > 1: the country has a hostname left. *)
HasHost(c) == head[c] <= Hosts[c]

SetPair(m, a, b, v) == [m EXCEPT ![a][b] = v, ![b][a] = v]

(* The loops over k: every cell that contains country c and holds the      *)
(* value from is set to the value to.                                      *)
Change(m, c, from, to) ==
    [a \in Country |-> [b \in Country |->
        IF (a = c \/ b = c) /\ m[a][b] = from THEN to ELSE m[a][b]]]

Init ==
    /\ pc = "initialization"
    /\ code = 0
    /\ step = 1
    /\ head = [c \in Country |-> 1]
    /\ skipped \in SkippedSets
    /\ matrix = [a \in Country |-> [b \in Country |->
                    IF <<a, b>> \in skipped THEN 5 ELSE 1]]
    /\ counter = FirstNumber[skipped]
    /\ i = 0
    /\ j = 0
    /\ hostname1 = NoHost
    /\ measured = [a \in Country |-> [b \in Country |-> <<NoHost, NoHost>>]]
    /\ number = [a \in Country |-> [b \in Country |-> NoNumber]]
    /\ dropped = {}

-----------------------------------------------------------------------------
(* Initialization and completion steps.                                    *)

InitStep ==
    /\ pc = "initialization"
    /\ step <= InitSteps
    /\ step' = step + 1
    /\ UNCHANGED <<pc, code, head, matrix, counter, i, j, hostname1, history>>

InitStepFails ==
    /\ pc = "initialization"
    /\ step <= InitSteps
    /\ pc' = "exited"
    /\ code' = 1
    /\ UNCHANGED <<step, head, matrix, counter, i, j, hostname1, history>>

StartLoop ==
    /\ pc = "initialization"
    /\ step > InitSteps
    /\ pc' = "outer"
    /\ UNCHANGED <<code, step, head, matrix, counter, i, j, hostname1, history>>

EndLoop ==
    /\ pc = "outer"
    /\ i >= N
    /\ pc' = "completion"
    /\ step' = 1
    /\ UNCHANGED <<code, head, matrix, counter, i, j, hostname1, history>>

CompletionStep ==
    /\ pc = "completion"
    /\ step <= CompletionSteps
    /\ step' = step + 1
    /\ UNCHANGED <<pc, code, head, matrix, counter, i, j, hostname1, history>>

(* check_call is not guarded here: the interpreter ends with status 1 and  *)
(* the matrix is not logged.                                               *)
CompletionStepFails ==
    /\ pc = "completion"
    /\ step <= CompletionSteps
    /\ pc' = "exited"
    /\ code' = 1
    /\ UNCHANGED <<step, head, matrix, counter, i, j, hostname1, history>>

(* The result matrix is written to the log and execute() returns. *)
LogResult ==
    /\ pc = "completion"
    /\ step > CompletionSteps
    /\ pc' = "exited"
    /\ UNCHANGED <<code, step, head, matrix, counter, i, j, hostname1, history>>

-----------------------------------------------------------------------------
(* The outer loop.                                                         *)

StartRow ==
    /\ pc = "outer"
    /\ i < N
    /\ HasHost(i)
    /\ j' = 0
    /\ hostname1' = head[i]
    /\ pc' = "inner"
    /\ UNCHANGED <<code, step, head, matrix, counter, i, history>>

(* All hostnames of country i failed: its cells go from 1 to 0. *)
ExhaustedRow ==
    /\ pc = "outer"
    /\ i < N
    /\ ~HasHost(i)
    /\ matrix' = Change(matrix, i, 1, 0)
    /\ i' = i + 1
    /\ UNCHANGED <<pc, code, step, head, counter, j, hostname1, history>>

-----------------------------------------------------------------------------
(* The inner loop.                                                         *)

EndRow ==
    /\ pc = "inner"
    /\ j >= N
    /\ i' = i + 1
    /\ pc' = "outer"
    /\ UNCHANGED <<code, step, head, matrix, counter, j, hostname1, history>>

ExhaustedColumn ==
    /\ pc = "inner"
    /\ j < N
    /\ ~HasHost(j)
    /\ matrix' = Change(matrix, j, 1, 0)
    /\ j' = j + 1
    /\ UNCHANGED <<pc, code, step, head, counter, i, hostname1, history>>

(* 0 < matrix[i][j] <= 2 does not hold: the pair is not tried. *)
SkipPair ==
    /\ pc = "inner"
    /\ j < N
    /\ HasHost(j)
    /\ ~(0 < matrix[i][j] /\ matrix[i][j] <= 2)
    /\ j' = j + 1
    /\ UNCHANGED <<pc, code, step, head, matrix, counter, i, hostname1, history>>

(* Fault: the upper bound of 0 < matrix[i][j] <= 2 is dropped. *)
ExperimentAgain ==
    /\ pc = "inner"
    /\ j < N
    /\ HasHost(j)
    /\ 0 < matrix[i][j]

(* The guard of the call controller.experiment(...). *)
Experiment ==
    /\ pc = "inner"
    /\ j < N
    /\ HasHost(j)
    /\ 0 < matrix[i][j]
    /\ matrix[i][j] <= 2

Pair(a, b) == {a, b}

Success ==
    /\ Experiment
    /\ matrix' = SetPair(matrix, i, j, 3)
    /\ counter' = counter + 1
    /\ j' = j + 1
    /\ measured' = [measured EXCEPT ![i][j] = <<hostname1, head[j]>>,
                                    ![j][i] = <<head[j], hostname1>>]
    /\ number' = SetPair(number, i, j, counter)
    /\ UNCHANGED <<pc, code, step, head, i, hostname1, dropped, skipped>>

(* SmallException: the pair has to be measured again separately. *)
SmallException ==
    /\ Experiment
    /\ matrix' = SetPair(matrix, i, j, 4)
    /\ counter' = counter + 1
    /\ j' = j + 1
    /\ UNCHANGED <<pc, code, step, head, i, hostname1,
                   measured, number, dropped, skipped>>

(* Fault: the hostname is not popped. *)
Host1KeepsHost ==
    /\ Experiment
    /\ matrix' = Change(matrix, i, 3, 2)
    /\ j' = 0
    /\ pc' = "outer"
    /\ UNCHANGED <<code, step, head, counter, i, hostname1,
                   measured, number, dropped, skipped>>

(* Fault: the pairs measured with the popped hostname are not set back. *)
Host1KeepsPairs ==
    /\ Experiment
    /\ head' = [head EXCEPT ![i] = @ + 1]
    /\ j' = 0
    /\ pc' = "outer"
    /\ UNCHANGED <<code, step, matrix, counter, i, hostname1,
                   measured, number, dropped, skipped>>

(* Fault: the row goes on without break, with the hostname read before. *)
Host1StaysInRow ==
    /\ Experiment
    /\ head' = [head EXCEPT ![i] = @ + 1]
    /\ matrix' = Change(matrix, i, 3, 2)
    /\ j' = 0
    /\ pc' = IF head'[i] <= Hosts[i] THEN "inner" ELSE "outer"
    /\ UNCHANGED <<code, step, counter, i, hostname1, measured, number, dropped, skipped>>

(* Host1Exception: i = i-1, break and i = i+1 start row i again. *)
Host1Exception ==
    /\ Experiment
    /\ head' = [head EXCEPT ![i] = @ + 1]
    /\ matrix' = Change(matrix, i, 3, 2)
    /\ j' = 0
    /\ pc' = "outer"
    /\ UNCHANGED <<code, step, counter, i, hostname1,
                   measured, number, dropped, skipped>>

(* Fault: the loop does not go back to row j. *)
Host2GoesOn ==
    /\ Experiment
    /\ head' = [head EXCEPT ![j] = @ + 1]
    /\ matrix' = Change(matrix, j, 3, 2)
    /\ i' = i + 1
    /\ j' = 0
    /\ pc' = "outer"
    /\ dropped' = IF i = j THEN dropped \cup {i} ELSE dropped
    /\ UNCHANGED <<code, step, counter, hostname1, measured, number, skipped>>

(* Host2Exception: the loop goes on with row j when j lies behind, else    *)
(* with the row after i.                                                   *)
Host2Exception ==
    /\ Experiment
    /\ head' = [head EXCEPT ![j] = @ + 1]
    /\ matrix' = Change(matrix, j, 3, 2)
    /\ i' = (IF i > j THEN j - 1 ELSE i) + 1
    /\ j' = 0
    /\ pc' = "outer"
    /\ dropped' = IF i = j THEN dropped \cup {i} ELSE dropped
    /\ UNCHANGED <<code, step, counter, hostname1, measured, number, skipped>>

(* FatalException: sys.exit(3). The completion steps are not run. *)
FatalException ==
    /\ Experiment
    /\ pc' = "exited"
    /\ code' = 3
    /\ UNCHANGED <<step, head, matrix, counter, i, j, hostname1,
                   measured, number, dropped, skipped>>

(* An exception execute() does not catch, e.g. of the SSH connection to    *)
(* the second router: the interpreter ends with status 1.                  *)
OtherException ==
    /\ Experiment
    /\ pc' = "exited"
    /\ code' = 1
    /\ UNCHANGED <<step, head, matrix, counter, i, j, hostname1,
                   measured, number, dropped, skipped>>

-----------------------------------------------------------------------------

Outcome ==
    \/ Success
    \/ SmallException
    \/ Host1Exception
    \/ Host2Exception
    \/ FatalException
    \/ OtherException

Terminated == pc = "exited" /\ UNCHANGED vars

Next ==
    \/ InitStep
    \/ InitStepFails
    \/ StartLoop
    \/ StartRow
    \/ ExhaustedRow
    \/ EndRow
    \/ ExhaustedColumn
    \/ SkipPair
    \/ Outcome
    \/ EndLoop
    \/ CompletionStep
    \/ CompletionStepFails
    \/ LogResult
    \/ Terminated

Spec == Init /\ [][Next]_vars

(* execute() is a sequential program: it goes on while a step is possible, *)
(* and every call of controller.experiment returns or raises.              *)
FairSpec == Spec /\ WF_vars(Next)

-----------------------------------------------------------------------------
(* Properties.                                                             *)

TypeOK ==
    /\ pc \in {"initialization", "outer", "inner", "completion", "exited"}
    /\ code \in {0, 1, 3}
    /\ step \in Nat
    /\ head \in [Country -> Nat]
    /\ \A c \in Country : 1 <= head[c] /\ head[c] <= Hosts[c] + 1
    /\ matrix \in [Country -> [Country -> 0 .. 5]]
    /\ counter \in Nat
    /\ i \in 0 .. N
    /\ j \in 0 .. N
    /\ pc = "inner" => i < N /\ HasHost(i)
    /\ skipped \in SkippedSets
    /\ hostname1 \in Nat
    /\ measured \in [Country -> [Country -> Nat \X Nat]]
    /\ number \in [Country -> [Country -> Nat \cup {NoNumber}]]
    /\ dropped \subseteq Country

(* The two cells of a pair always agree, so that a pair has one state      *)
(* whichever country comes first (matrix[i][j] and matrix[j][i] are        *)
(* written one after the other, and the loops over k change both).         *)
Symmetric ==
    \A a, b \in Country : matrix[a][b] = matrix[b][a]

(* "we want all experiments for one server executed from one hostname": a  *)
(* pair is marked as measured (3) only if its last successful experiment   *)
(* ran between the hostnames both countries use now.                       *)
OneHostname ==
    \A a, b \in Country :
        matrix[a][b] = 3 => measured[a][b] = <<head[a], head[b]>>

(* The legend of the matrix: a pair with 0 or 1 was never measured, and    *)
(* with 0 one of its countries has no hostname left; a pair with 2 was     *)
(* measured, and a hostname it was measured with has been replaced since.  *)
Legend ==
    \A a, b \in Country :
        /\ matrix[a][b] \in {0, 1} => number[a][b] = NoNumber
        /\ matrix[a][b] = 0 => ~HasHost(a) \/ ~HasHost(b)
        /\ matrix[a][b] = 2 => /\ number[a][b] # NoNumber
                               /\ measured[a][b] # <<head[a], head[b]>>

(* hostname1 is read once per row. Whenever an experiment can start it is  *)
(* still the hostname country i uses: an exception that pops it leaves the *)
(* row.                                                                    *)
FreshHostname ==
    pc = "inner" => hostname1 = head[i]

(* A pair needs no further experiment. *)
Settled(a, b) ==
    \/ matrix[a][b] \notin {1, 2}
    \/ ~HasHost(a)
    \/ ~HasHost(b)

(* When the loop ends, every pair has been measured with the hostnames in  *)
(* use, has failed, is skipped, or has a country without a hostname; the   *)
(* only exceptions are pairs of a country whose row was left by a          *)
(* Host2Exception of the pair (c, c).                                      *)
AllPairsTried ==
    pc = "completion" =>
        \A a, b \in Country : Settled(a, b) \/ a \in dropped \/ b \in dropped

(* The log line that ends the loop, 'All possible pairs were tried', read  *)
(* without the exception.                                                  *)
AllPossiblePairsTried ==
    pc = "completion" => \A a, b \in Country : Settled(a, b)

(* In wrapper_delta.py the pair of every country with itself is skipped,   *)
(* and no pair is left behind without exception.                           *)
DeltaTriesAll ==
    (\A c \in Country : <<c, c>> \in skipped) => AllPossiblePairsTried

(* wrapper_delta.py builds "no pairs between countries from the same input *)
(* list": their cells keep the 5 they start with, also when hostnames of   *)
(* the countries are replaced, and they are never measured.                *)
NoPairInsideList ==
    \A a, b \in Country :
        <<a, b>> \in skipped => matrix[a][b] = 5 /\ number[a][b] = NoNumber

(* "All Nodes of the country did not work": when the loop ends no pair of  *)
(* a country without hostnames is reported as never used (1), so that the  *)
(* final matrix tells a failed country from one that was not tried.        *)
FailedCountriesMarked ==
    pc = "completion" =>
        \A a, b \in Country :
            ~HasHost(a) /\ a \notin dropped => matrix[a][b] # 1

(* Two country pairs that were measured successfully never share a number. *)
MeasuredNumbersDiffer ==
    \A a, b, c, d \in Country :
        /\ number[a][b] # NoNumber
        /\ number[a][b] = number[c][d]
        => Pair(a, b) = Pair(c, d)

(* A pair that is finished is never reopened, except that a measured pair  *)
(* goes from 3 to 2 in the step that replaces a hostname of it.            *)
FinishedStays ==
    [][\A a, b \in Country :
          /\ matrix[a][b] \in {0, 4, 5} => matrix'[a][b] = matrix[a][b]
          /\ matrix[a][b] = 3 =>
                IF head'[a] = head[a] /\ head'[b] = head[b]
                THEN matrix'[a][b] = 3
                ELSE matrix'[a][b] = 2]_vars

(* The loop restarts rows and goes back to earlier ones, but it ends: each *)
(* return costs a hostname.                                                *)
Terminates == <>(pc = "exited")

(* The matrix at any time: symmetric, with the meaning of its legend, no   *)
(* stale hostname, result numbers that tell the pairs apart, and the pairs *)
(* inside a list untouched.                                                *)
MatrixRight ==
    Symmetric /\ Legend /\ FreshHostname /\ MeasuredNumbersDiffer /\ NoPairInsideList

(* The matrix when the loop ends: no pair is left behind but those of an   *)
(* abandoned row, none at all in wrapper_delta.py, and the countries that  *)
(* failed are marked.                                                      *)
EndsComplete == AllPairsTried /\ DeltaTriesAll /\ FailedCountriesMarked

=============================================================================
